-------------------------- MODULE TransportProofs --------------------------
(***************************************************************************)
(* Proofs about the layers that carry a request to a broker: one           *)
(* connection (Connection), for any set of calls, any number of permits    *)
(* and any pattern of timeouts, cancellations and failures; and the pool   *)
(* of connections with its routing (Cluster), for any number of nodes and  *)
(* calls, any number of attempts and re-asks and any history of crashes,   *)
(* restarts, evictions and metadata changes; and connecting and            *)
(* authenticating (Handshake), for every set of connections, every         *)
(* configuration and broker, every timeout and any number of faults:       *)
(* credentials go only where they may, a connect ends in time, its error   *)
(* names the owner of the problem, every request goes out in a version     *)
(* that both sides know; and, where a fifth of a session is more than its  *)
(* renewal takes, no session ends before it is renewed.                    *)
(***************************************************************************)
EXTENDS Connection, Cluster, Handshake, FiniteSetTheorems, WellFoundedInduction, TLAPS

-----------------------------------------------------------------------------
(* The connection. The invariant has five parts: the types; the uniqueness *)
(* of correlation ids (Ids); that everything that carries an id carries    *)
(* that of the request it belongs to (Tagged), which makes routing by id   *)
(* right; that whoever holds a oneshot is attended to (Waiting); and the   *)
(* permits.                                                                *)

(* The types, without the bound on permits, which follows from Permits, and *)
(* with what the gate implies for `round`.                                 *)
Types ==
  /\ stage \in [Requests -> Stages] /\ result \in [Requests -> Results]
  /\ corr \in [Requests -> Nat] /\ next \in Nat \ {0}
  /\ permits \in Nat
  /\ waiters \subseteq Nat \X Requests /\ closed \in BOOLEAN
  /\ told \in [Requests -> SUBSET Requests] /\ ended \subseteq Requests
  /\ commands \in Seq(Frames) /\ sink \subseteq Frames
  /\ writer \in {"select", "writing", "broken", "drained", "exited"}
  /\ reader \in {"select", "delivering", "broken", "exited"}
  /\ holding \subseteq Requests \X Requests
  /\ wire \subseteq Frames /\ inbound \subseteq Frames /\ socket \in {"open", "shut"}
  /\ shutdown \in BOOLEAN /\ handles \in BOOLEAN
  /\ reauth \in {"off", "sleeping", "waiting", "held", "gone"}
  /\ round \in 0..MaxRounds /\ step \in 0..Exchange
  /\ reauth = "waiting" => round < MaxRounds
  /\ reauth = "held" => round > 0

RequestTypes == stage \in [Requests -> Stages] /\ result \in [Requests -> Results]

(* A request that moves on stays well typed. *)
LEMMA MoveTypes ==
  ASSUME RequestTypes, NEW r \in Requests, NEW from, NEW to \in Stages,
         Move(r, from, to), UNCHANGED result
  PROVE  RequestTypes'
BY DEF Move, RequestTypes

(* A request that finishes stays well typed. *)
LEMMA FinishTypes ==
  ASSUME RequestTypes, NEW r \in Requests, NEW from, NEW what \in Results,
         Finish(r, from, what)
  PROVE  RequestTypes'
BY DEF Finish, Move, RequestTypes, Stages

(* Every step preserves the types. *)
LEMMA TypesStep == Types /\ [Next]_vars => Types'
<1> SUFFICES ASSUME Types, [Next]_vars PROVE Types' OBVIOUS
<1> USE ConnectionAssumption
<1> USE DEF request, pending, outward, inward, broker, clones, session, Types
<1>1. ASSUME NEW c \in Calls, Begin(c) PROVE Types' BY <1>1 DEF Begin, Move, Requests, Stages
<1>2. ASSUME NEW c \in Calls, PassGate(c) PROVE Types'
  <2>1. c \in Requests BY <1>2 DEF Requests
  <2>2. "permit" \in Stages /\ "refused" \in Results BY DEF Stages, Results
  <2>3. CASE Finish(c, "gate", "refused") /\ UNCHANGED <<corr, next>>
    <3>1. RequestTypes' BY <2>1, <2>2, <2>3, FinishTypes DEF RequestTypes
    <3> QED BY <1>2, <2>3, <3>1 DEF PassGate, RequestTypes
  <2>4. CASE Finish(c, "gate", "refused") /\ NextId(c)
    <3>1. RequestTypes' BY <2>1, <2>2, <2>4, FinishTypes DEF RequestTypes
    <3>2. corr' \in [Requests -> Nat] /\ next' \in Nat \ {0} BY <2>1, <2>4 DEF NextId
    <3> QED BY <1>2, <3>1, <3>2 DEF PassGate, RequestTypes
  <2>5. CASE Move(c, "gate", "permit") /\ NextId(c) /\ UNCHANGED result
    <3>1. RequestTypes' BY <2>1, <2>2, <2>5, MoveTypes DEF RequestTypes
    <3>2. corr' \in [Requests -> Nat] /\ next' \in Nat \ {0} BY <2>1, <2>5 DEF NextId
    <3> QED BY <1>2, <3>1, <3>2 DEF PassGate, RequestTypes
  <2> QED BY <1>2, <2>3, <2>4, <2>5 DEF PassGate
<1>3. ASSUME NEW c \in Calls, Cancel(c) PROVE Types'
  BY <1>3 DEF Cancel, Move, Finish, Listening, Requests, Stages, Results
<1>4. ASSUME NEW r \in Requests, AcquirePermit(r) PROVE Types'
  <2>1. CASE closed
    <3>1. Finish(r, "permit", "closed") /\ UNCHANGED <<permits, waiters>> BY <1>4, <2>1 DEF AcquirePermit
    <3>2. RequestTypes' BY <3>1, FinishTypes DEF RequestTypes, Results
    <3> QED BY <1>4, <3>1, <3>2 DEF AcquirePermit, RequestTypes
  <2>2. CASE ~closed
    <3>1. /\ Move(r, "permit", "send") /\ UNCHANGED result
          /\ permits' = permits - 1 /\ waiters' = insert(corr[r], r)
      BY <1>4, <2>2 DEF AcquirePermit
    <3>2. RequestTypes' BY <3>1, MoveTypes DEF RequestTypes, Stages
    <3>3. permits' \in Nat BY <1>4, <3>1 DEF AcquirePermit
    <3>4. waiters' \subseteq Nat \X Requests BY <3>1 DEF insert, take
    <3> QED BY <1>4, <3>2, <3>3, <3>4 DEF AcquirePermit, RequestTypes
  <2> QED BY <2>1, <2>2
<1>5. ASSUME NEW r \in Requests, PermitTimeout(r) PROVE Types'
  BY <1>5 DEF PermitTimeout, Move, Finish, Stages, Results
<1>6. ASSUME NEW r \in Requests, Enqueue(r) PROVE Types' BY <1>6 DEF Enqueue, Move, Frame, Frames, Stages
<1>7. ASSUME NEW r \in Requests, SendFails(r) PROVE Types'
  BY <1>7 DEF SendFails, Move, Finish, take, Stages, Results
<1>8. ASSUME NEW r \in Requests, Receive(r) PROVE Types'
  <2>1. PICK what \in {"answered", "closed"} : Finish(r, "await", what) BY <1>8 DEF Receive
  <2>2. RequestTypes' BY <2>1, FinishTypes DEF RequestTypes, Results
  <2> QED BY <1>8, <2>2 DEF Receive, RequestTypes
<1>9. ASSUME NEW r \in Requests, Expire(r) PROVE Types' BY <1>9 DEF Expire, Move, Stages
<1>10. ASSUME NEW r \in Requests, TakeBack(r) PROVE Types'
  BY <1>10 DEF TakeBack, Move, Finish, take, Stages, Results
<1>11. ASSUME TakeFrame PROVE Types' BY <1>11 DEF TakeFrame
<1>12. ASSUME Written PROVE Types' BY <1>12 DEF Written
<1>13. ASSUME WriterBreaks PROVE Types' BY <1>13 DEF WriterBreaks
<1>14. ASSUME WriterExits PROVE Types'
  <2>1. CASE writer = "broken" BY <1>14, <2>1 DEF WriterExits, close_pending, Listening
  <2>2. CASE writer = "drained" BY <1>14, <2>2 DEF WriterExits
  <2> QED BY <1>14, <2>1, <2>2 DEF WriterExits
<1>15. ASSUME ReadFrame PROVE Types' BY <1>15 DEF ReadFrame, Route, take, Frames
<1>16. ASSUME Deliver PROVE Types' BY <1>16 DEF Deliver, Listening
<1>17. ASSUME ReaderBreaks PROVE Types' BY <1>17 DEF ReaderBreaks
<1>18. ASSUME ReaderExits PROVE Types' BY <1>18 DEF ReaderExits, close_pending, Listening
<1>19. ASSUME SleepEnds PROVE Types' BY <1>19 DEF SleepEnds
<1>20. ASSUME GateWrite PROVE Types' BY <1>20 DEF GateWrite
<1>21. ASSUME SendStep PROVE Types'
  <2>1. Step(step + 1) \in Requests /\ step + 1 \in 0..Exchange BY <1>21 DEF SendStep, Step, Requests, Steps
  <2> QED BY <1>21, <2>1 DEF SendStep, Move, NextId, Stages
<1>22. ASSUME Accepted PROVE Types' BY <1>22 DEF Accepted, LastClone
<1>23. ASSUME Rejected PROVE Types' BY <1>23 DEF Rejected, close_pending, Listening
<1>24. ASSUME ReauthStops PROVE Types' BY <1>24 DEF ReauthStops
<1>25. ASSUME close PROVE Types' BY <1>25 DEF close, close_pending, Listening
<1>26. ASSUME DropHandles PROVE Types' BY <1>26 DEF DropHandles, LastClone
<1>27. ASSUME Answer PROVE Types' BY <1>27 DEF Answer
<1>28. ASSUME PeerCloses PROVE Types' BY <1>28 DEF PeerCloses
<1>29. ASSUME UNCHANGED vars PROVE Types' BY <1>29 DEF vars
<1> QED
  BY <1>1, <1>2, <1>3, <1>4, <1>5, <1>6, <1>7, <1>8, <1>9, <1>10, <1>11, <1>12,
     <1>13, <1>14, <1>15, <1>16, <1>17, <1>18, <1>19, <1>20, <1>21, <1>22, <1>23,
     <1>24, <1>25, <1>26, <1>27, <1>28, <1>29
  DEF Next, Request, Resting, Spent

-----------------------------------------------------------------------------
(* Correlation ids. *)

Fresh == {"idle", "gate"}
Live == {"permit", "send", "await", "expired"}

Ids ==
  /\ \A r \in Requests : corr[r] < next
  /\ \A r, q \in Requests : corr[r] = corr[q] /\ corr[r] # 0 => r = q
  /\ \A r \in Requests : stage[r] \in Fresh => corr[r] = 0
  /\ \A r \in Requests : stage[r] \in Live => corr[r] # 0

SameIds ==
  /\ UNCHANGED <<corr, next>>
  /\ \A r \in Requests : /\ stage'[r] \in Fresh => stage[r] \in Fresh
                         /\ stage'[r] \in Live => stage[r] \in Live

NewId(r) ==
  /\ stage[r] \in Fresh
  /\ NextId(r)
  /\ \E to \in {"permit", "done"} : stage' = [stage EXCEPT ![r] = to]

(* A step allocates at most one correlation id, to a request that had none *)
(* and has not yet been registered.                                        *)
LEMMA IdsChange ==
  ASSUME Types, [Next]_vars
  PROVE  SameIds \/ \E r \in Requests : NewId(r)
<1>0. stage \in [Requests -> Stages] BY DEF Types
<1>a. Calls \subseteq Requests BY DEF Requests
<1> USE DEF Fresh, Live, SameIds
<1>1. ASSUME NEW c \in Calls, Begin(c) PROVE SameIds BY <1>0, <1>a, <1>1 DEF Begin, Move
<1>2. ASSUME NEW c \in Calls, PassGate(c) PROVE SameIds \/ NewId(c)
  BY <1>0, <1>a, <1>2 DEF PassGate, Move, Finish, NewId
<1>3. ASSUME NEW c \in Calls, Cancel(c) PROVE SameIds BY <1>0, <1>a, <1>3 DEF Cancel, Move, Finish
<1>4. ASSUME NEW r \in Requests, Request(r) PROVE SameIds
  BY <1>0, <1>4
  DEF Request, AcquirePermit, PermitTimeout, Enqueue, SendFails, Receive, Expire,
      TakeBack, Move, Finish
<1>5. ASSUME TakeFrame \/ Written \/ WriterBreaks \/ WriterExits \/ ReadFrame \/ Deliver
              \/ ReaderBreaks \/ ReaderExits
      PROVE  UNCHANGED <<stage, corr, next>>
  BY <1>5
  DEF TakeFrame, Written, WriterBreaks, WriterExits, ReadFrame, Deliver, ReaderBreaks,
      ReaderExits, request
<1>6. ASSUME SleepEnds \/ GateWrite \/ Accepted \/ Rejected \/ ReauthStops \/ close
              \/ DropHandles \/ Answer \/ PeerCloses
      PROVE  UNCHANGED <<stage, corr, next>>
  BY <1>6
  DEF SleepEnds, GateWrite, Accepted, Rejected, ReauthStops, close, DropHandles,
      Answer, PeerCloses, request
<1>7. ASSUME SendStep PROVE \E r \in Requests : NewId(r)
  <2>1. Step(step + 1) \in Requests BY <1>7, ConnectionAssumption DEF SendStep, Step, Requests, Steps, Types
  <2>2. NewId(Step(step + 1)) BY <1>7, <2>1 DEF SendStep, Move, NewId
  <2> QED BY <2>1, <2>2
<1>8. ASSUME UNCHANGED vars PROVE UNCHANGED <<stage, corr, next>> BY <1>8 DEF vars, request
<1> QED
  BY <1>a, <1>1, <1>2, <1>3, <1>4, <1>5, <1>6, <1>7, <1>8 DEF Next, Resting, Spent

(* Ids stay unique, and a request keeps the one it has. *)
LEMMA IdsStep ==
  ASSUME Types, Ids, [Next]_vars
  PROVE  Ids' /\ \A r \in Requests : corr[r] # 0 => corr'[r] = corr[r]
<1>0. corr \in [Requests -> Nat] /\ next \in Nat \ {0} /\ stage \in [Requests -> Stages] BY DEF Types
<1>1. CASE SameIds BY <1>1, <1>0 DEF SameIds, Ids
<1>2. ASSUME NEW r \in Requests, NewId(r)
      PROVE  Ids' /\ \A q \in Requests : corr[q] # 0 => corr'[q] = corr[q]
  <2>1. corr[r] = 0 /\ corr' = [corr EXCEPT ![r] = next] /\ next' = next + 1 BY <1>2 DEF NewId, NextId, Ids
  <2>2. PICK to \in {"permit", "done"} : stage' = [stage EXCEPT ![r] = to] BY <1>2 DEF NewId
  <2>3. \A q \in Requests : q # r => corr'[q] = corr[q] /\ stage'[q] = stage[q] BY <1>0, <2>1, <2>2
  <2>4. corr'[r] = next /\ stage'[r] \in {"permit", "done"} BY <1>0, <2>1, <2>2
  <2>5. \A q \in Requests : corr'[q] < next' BY <1>0, <2>1, <2>3, <2>4 DEF Ids
  <2>6. \A p, q \in Requests : corr'[p] = corr'[q] /\ corr'[p] # 0 => p = q BY <1>0, <2>1, <2>3, <2>4 DEF Ids
  <2>7. \A q \in Requests : (stage'[q] \in Fresh => corr'[q] = 0)
                            /\ (stage'[q] \in Live => corr'[q] # 0)
    BY <1>0, <2>3, <2>4 DEF Ids, Fresh, Live
  <2> QED BY <2>1, <2>3, <2>5, <2>6, <2>7 DEF Ids
<1> QED BY <1>1, <1>2, IdsChange

-----------------------------------------------------------------------------
(* Frames and waiters carry the id of the request they belong to. *)

Tag(ids, f) == f.id = ids[f.of] /\ f.id # 0

Tagged ==
  /\ \A w \in waiters : w[1] = corr[w[2]] /\ w[1] # 0
  /\ \A k \in 1..Len(commands) : Tag(corr, commands[k])
  /\ \A f \in sink \cup wire \cup inbound : Tag(corr, f)
  /\ \A h \in holding : h[1] = h[2]
  /\ \A r \in Requests : told[r] \subseteq {r}

(* Every step keeps frames and waiters under the id of their request, so   *)
(* that the reader can only hand a request its own answer.                 *)
LEMMA TaggedStep ==
  ASSUME Types, Ids, Tagged, [Next]_vars
  PROVE  Tagged'
<1>0. \A r \in Requests : corr[r] # 0 => corr'[r] = corr[r] BY IdsStep
<1>t. /\ waiters \subseteq Nat \X Requests /\ commands \in Seq(Frames)
      /\ sink \subseteq Frames /\ wire \subseteq Frames /\ inbound \subseteq Frames
      /\ holding \subseteq Requests \X Requests
      /\ told \in [Requests -> SUBSET Requests]
      /\ stage \in [Requests -> Stages] /\ corr \in [Requests -> Nat]
  BY DEF Types
(* What was tagged with the old ids is tagged with the new ones. *)
<1>f. ASSUME NEW f \in Frames, Tag(corr, f) PROVE Tag(corr', f) BY <1>0, <1>f DEF Tag, Frames
<1>w. \A w \in waiters : w[1] = corr'[w[2]] /\ w[1] # 0 BY <1>0, <1>t DEF Tagged
<1>c. \A k \in 1..Len(commands) : commands[k] \in Frames /\ Tag(corr', commands[k]) BY <1>f, <1>t DEF Tagged
<1>s. \A f \in sink \cup wire \cup inbound : Tag(corr', f) BY <1>f, <1>t DEF Tagged
<1>h. (\A h \in holding : h[1] = h[2]) /\ \A r \in Requests : told[r] \subseteq {r} BY DEF Tagged
<1> HIDE DEF Tag
<1>1. ASSUME UNCHANGED <<waiters, commands, sink, wire, inbound, holding, told>>
      PROVE  Tagged'
  BY <1>1, <1>w, <1>c, <1>s, <1>h DEF Tagged
<1>2. ASSUME \/ \E c \in Calls : Begin(c) \/ PassGate(c) \/ Cancel(c)
             \/ \E r \in Requests : PermitTimeout(r) \/ Receive(r) \/ Expire(r)
             \/ ReaderBreaks \/ SleepEnds \/ GateWrite \/ SendStep \/ Accepted
             \/ ReauthStops \/ DropHandles \/ PeerCloses \/ UNCHANGED vars
      PROVE  Tagged'
  BY <1>1, <1>2
  DEF Begin, PassGate, Cancel, PermitTimeout, Receive, Expire, ReaderBreaks, SleepEnds,
      GateWrite, SendStep, Accepted, ReauthStops, DropHandles, PeerCloses, vars, pending,
      outward, inward, broker
(* Waiters are added under their own id, or only taken away. *)
<1>3. ASSUME NEW r \in Requests, AcquirePermit(r) PROVE Tagged'
  <2>1. UNCHANGED <<commands, sink, wire, inbound, holding, told, corr>>
    BY <1>3 DEF AcquirePermit, outward, inward, broker
  <2>2. stage[r] = "permit" BY <1>3 DEF AcquirePermit, Move, Finish
  <2>3. corr[r] # 0 BY <2>2 DEF Ids, Live
  <2>4. waiters' \subseteq waiters \cup {<<corr[r], r>>} BY <1>3 DEF AcquirePermit, insert, take
  <2>5. \A w \in waiters' : w[1] = corr'[w[2]] /\ w[1] # 0 BY <1>w, <2>1, <2>3, <2>4
  <2> QED BY <1>c, <1>s, <1>h, <2>1, <2>5 DEF Tagged
<1>4. ASSUME \/ \E r \in Requests : SendFails(r) \/ TakeBack(r)
             \/ WriterExits \/ ReaderExits \/ Rejected \/ close
      PROVE  Tagged'
  <2>1. UNCHANGED <<sink, wire, inbound, holding, told>>
    BY <1>4
    DEF SendFails, TakeBack, WriterExits, ReaderExits, Rejected, close, close_pending,
        pending, outward, inward, broker
  <2>2. waiters' \subseteq waiters
    BY <1>4
    DEF SendFails, TakeBack, WriterExits, ReaderExits, Rejected, close, close_pending,
        take, pending
  <2>3. commands' = commands \/ commands' = <<>>
    BY <1>4
    DEF SendFails, TakeBack, WriterExits, ReaderExits, Rejected, close, outward
  <2>4. \A k \in 1..Len(commands') : Tag(corr', commands'[k]) BY <1>c, <2>3
  <2> QED BY <1>w, <1>s, <1>h, <2>1, <2>2, <2>4 DEF Tagged
(* A frame moves along: into the channel, the sink, the broker, back. *)
<1>5. ASSUME NEW r \in Requests, Enqueue(r) PROVE Tagged'
  <2>1. UNCHANGED <<waiters, sink, wire, inbound, holding, told, corr>>
    BY <1>5 DEF Enqueue, pending, inward, broker
  <2>2. Frame(r) \in Frames /\ Tag(corr', Frame(r))
    BY <1>5, <1>t, <2>1 DEF Enqueue, Move, Ids, Live, Frame, Frames, Tag
  <2>3. commands' = Append(commands, Frame(r)) BY <1>5 DEF Enqueue
  <2>4. \A k \in 1..Len(commands') : Tag(corr', commands'[k]) BY <1>c, <1>t, <2>2, <2>3
  <2> QED BY <1>w, <1>s, <1>h, <2>1, <2>4 DEF Tagged
<1>6. ASSUME TakeFrame PROVE Tagged'
  <2>1. UNCHANGED <<waiters, wire, inbound, holding, told>> BY <1>6 DEF TakeFrame, pending, inward, broker
  <2>2. commands # <<>> /\ sink' = {Head(commands)} /\ commands' = Tail(commands) BY <1>6 DEF TakeFrame
  <2>3. \A k \in 1..Len(commands') : Tag(corr', commands'[k]) BY <1>c, <1>t, <2>2
  <2>4. Tag(corr', Head(commands)) BY <1>c, <1>t, <2>2
  <2> QED BY <1>w, <1>s, <1>h, <2>1, <2>2, <2>3, <2>4 DEF Tagged
<1>7. ASSUME Written \/ WriterBreaks \/ Answer PROVE Tagged'
  <2>1. UNCHANGED <<waiters, commands, holding, told>>
    BY <1>7 DEF Written, WriterBreaks, Answer, pending, outward, inward
  <2>2. (sink \cup wire \cup inbound)' \subseteq sink \cup wire \cup inbound
    BY <1>7 DEF Written, WriterBreaks, Answer, outward, broker
  <2> QED BY <1>w, <1>c, <1>s, <1>h, <2>1, <2>2 DEF Tagged
(* The reader finds the waiter of the frame it read, and of no other. *)
<1>8. ASSUME ReadFrame PROVE Tagged'
  <2>1. UNCHANGED <<commands, sink, wire, told>> BY <1>8 DEF ReadFrame, outward
  <2>2. PICK f \in inbound : Route(f) /\ inbound' = inbound \ {f} BY <1>8 DEF ReadFrame
  <2>3. waiters' \subseteq waiters BY <2>2 DEF Route, take
  <2>4. \A w \in waiters : w[1] = f.id => w[2] = f.of BY <1>t DEF Tagged, Tag, Ids, Frames
  <2>5. holding' = holding \/ \E w \in waiters : w[1] = f.id /\ holding' = {<<w[2], f.of>>} BY <2>2 DEF Route
  <2>6. \A h \in holding' : h[1] = h[2] BY <1>h, <2>4, <2>5
  <2> QED BY <1>w, <1>c, <1>s, <1>h, <2>1, <2>2, <2>3, <2>6 DEF Tagged
<1>9. ASSUME Deliver PROVE Tagged'
  <2>1. UNCHANGED <<waiters, commands, sink, wire, inbound>> /\ holding' = {}
    BY <1>9 DEF Deliver, outward, broker
  <2>2. \A r \in Requests :
          told'[r] \subseteq told[r] \cup {q \in Requests : <<r, q>> \in holding}
    BY <1>9, <1>t DEF Deliver
  <2>3. ASSUME NEW r \in Requests, NEW q \in told'[r] PROVE q = r
    <3>1. CASE q \in told[r] BY <1>h, <3>1
    <3>2. CASE <<r, q>> \in holding
      <4>1. <<r, q>>[1] = <<r, q>>[2] BY <1>h, <3>2
      <4> QED BY <4>1
    <3> QED BY <2>2, <2>3, <3>1, <3>2
  <2> QED BY <1>w, <1>c, <1>s, <2>1, <2>3 DEF Tagged
<1> QED
  BY <1>2, <1>3, <1>4, <1>5, <1>6, <1>7, <1>8, <1>9 DEF Next, Request, Resting, Spent

-----------------------------------------------------------------------------
(* Nobody is left waiting. *)

Attended(r) ==
  \/ <<corr[r], r>> \in waiters
  \/ \E q \in Requests : <<r, q>> \in holding
  \/ told[r] # {} \/ r \in ended

Waiting ==
  /\ \A r \in Holders : Attended(r)
  /\ closed => waiters = {}
  /\ writer \in {"drained", "exited"} => closed
  /\ reader = "exited" => closed
  /\ reader # "delivering" => holding = {}

(* Every step keeps the requests that hold a oneshot attended: their       *)
(* waiter is where the reader or the next close will find it, or they have *)
(* been told.                                                              *)
LEMMA WaitingStep ==
  ASSUME Types, Ids, Tagged, Waiting, [Next]_vars
  PROVE  Waiting'
<1>t. /\ waiters \subseteq Nat \X Requests /\ closed \in BOOLEAN
      /\ holding \subseteq Requests \X Requests
      /\ told \in [Requests -> SUBSET Requests] /\ ended \subseteq Requests
      /\ stage \in [Requests -> Stages] /\ corr \in [Requests -> Nat]
      /\ Calls \subseteq Requests
  BY DEF Types, Requests
<1>0. \A r \in Holders : r \in Requests /\ corr[r] # 0 /\ corr'[r] = corr[r] BY IdsStep DEF Holders, Ids, Live
(* Requests come and go, and nothing else changes. *)
<1>1. ASSUME Holders' \subseteq Holders,
             UNCHANGED <<waiters, closed, told, ended, writer, reader, holding>>
      PROVE  Waiting'
  BY <1>0, <1>1 DEF Waiting, Attended
<1>2. ASSUME \/ \E c \in Calls : Begin(c) \/ PassGate(c) \/ Cancel(c)
             \/ \E r \in Requests : PermitTimeout(r) \/ Receive(r) \/ Expire(r) \/ Enqueue(r)
      PROVE  Waiting'
  <2>1. UNCHANGED <<waiters, closed, told, ended, writer, reader, holding>>
    BY <1>2
    DEF Begin, PassGate, Cancel, PermitTimeout, Receive, Expire, Enqueue, pending,
        outward, inward
  <2>2. Holders' \subseteq Holders
    BY <1>2, <1>t
    DEF Begin, PassGate, Cancel, PermitTimeout, Receive, Expire, Enqueue, Move, Finish,
        Holders
  <2> QED BY <1>1, <2>1, <2>2
<1>3. ASSUME \/ SleepEnds \/ GateWrite \/ Accepted \/ ReauthStops \/ DropHandles
             \/ Answer \/ PeerCloses \/ UNCHANGED vars
      PROVE  Waiting'
  BY <1>1, <1>3
  DEF SleepEnds, GateWrite, Accepted, ReauthStops, DropHandles, Answer, PeerCloses, vars,
      request, pending, outward, inward, Holders
<1>4. ASSUME SendStep PROVE Waiting'
  <2>1. UNCHANGED <<waiters, closed, told, ended, writer, reader, holding>>
    BY <1>4 DEF SendStep, pending, outward, inward
  <2>2. Holders' \subseteq Holders BY <1>4, <1>t DEF SendStep, Move, Holders
  <2> QED BY <1>1, <2>1, <2>2
<1>5. ASSUME TakeFrame \/ Written \/ WriterBreaks \/ ReaderBreaks PROVE Waiting'
  <2>1. UNCHANGED <<stage, corr, waiters, closed, told, ended, holding>>
    BY <1>5 DEF TakeFrame, Written, WriterBreaks, ReaderBreaks, request, pending, inward
  <2>2. writer' \in {"drained", "exited"} => writer \in {"drained", "exited"}
    BY <1>5 DEF TakeFrame, Written, WriterBreaks, ReaderBreaks, outward
  <2>3. (reader' = "exited" => reader = "exited") /\ (reader' # "delivering" => reader # "delivering")
    BY <1>5 DEF TakeFrame, Written, WriterBreaks, ReaderBreaks, inward
  <2> QED BY <2>1, <2>2, <2>3 DEF Waiting, Holders, Attended
(* The waiter is in the map before the frame is in the channel. *)
<1>6. ASSUME NEW r \in Requests, AcquirePermit(r) PROVE Waiting'
  <2>1. UNCHANGED <<closed, told, ended, writer, reader, holding, corr>>
    BY <1>6 DEF AcquirePermit, outward, inward
  <2>2. CASE closed
    <3>1. Finish(r, "permit", "closed") /\ UNCHANGED waiters BY <1>6, <2>2 DEF AcquirePermit
    <3>2. Holders' \subseteq Holders BY <1>t, <3>1 DEF Finish, Move, Holders
    <3> QED BY <1>1, <2>1, <3>1, <3>2
  <2>3. CASE ~closed
    <3>1. Move(r, "permit", "send") /\ waiters' = insert(corr[r], r) BY <1>6, <2>3 DEF AcquirePermit
    <3>2. Holders' \subseteq Holders \cup {r} BY <1>t, <3>1 DEF Move, Holders
    <3>3. \A q \in Holders : q # r => corr[q] # corr[r] BY <1>0 DEF Ids
    <3>4. \A q \in Holders' : Attended(q)' BY <2>1, <3>1, <3>2, <3>3 DEF insert, take, Waiting, Attended
    <3> QED BY <2>1, <2>3, <3>4 DEF Waiting
  <2> QED BY <1>t, <2>2, <2>3
(* A waiter is taken back by the request it belongs to. *)
<1>7. ASSUME NEW r \in Requests, SendFails(r) \/ TakeBack(r) PROVE Waiting'
  <2>1. UNCHANGED <<closed, told, ended, writer, reader, holding, corr>>
    BY <1>7 DEF SendFails, TakeBack, outward, inward
  <2>2. waiters' = take(corr[r]) /\ stage' = [stage EXCEPT ![r] = "done"]
    BY <1>7 DEF SendFails, TakeBack, Finish, Move
  <2>3. Holders' \subseteq Holders \ {r} BY <1>t, <2>2 DEF Holders
  <2>4. \A q \in Holders : q # r => corr[q] # corr[r] BY <1>0 DEF Ids
  <2>5. \A q \in Holders' : Attended(q)' BY <2>1, <2>2, <2>3, <2>4 DEF take, Waiting, Attended
  <2> QED BY <2>1, <2>2, <2>5 DEF Waiting, take
(* Closing the map tells everyone who was in it. *)
<1>8. ASSUME close_pending, UNCHANGED <<stage, corr, holding>>,
             writer' # "exited" \/ writer' = writer,
             reader' = reader \/ (reader' = "exited" /\ reader # "delivering")
      PROVE  Waiting'
  <2>1. closed' = TRUE /\ waiters' = {} /\ told' = told BY <1>8 DEF close_pending
  <2>2. Holders' = Holders BY <1>8 DEF Holders
  <2>3. ASSUME NEW r \in Holders PROVE Attended(r)'
    <3>1. Attended(r) BY DEF Waiting
    <3>2. CASE <<corr[r], r>> \in waiters
      <4>1. Listening(r) /\ r \in Requests BY DEF Holders, Listening
      <4>2. corr[r] \in {w[1] : w \in waiters} BY <3>2
      <4>3. r \in ended' BY <1>8, <3>2, <4>1, <4>2 DEF close_pending
      <4> QED BY <4>3 DEF Attended
    <3>3. CASE <<corr[r], r>> \notin waiters BY <1>8, <2>1, <3>1, <3>3 DEF Attended, close_pending
    <3> QED BY <3>2, <3>3
  <2> QED BY <1>8, <2>1, <2>2, <2>3 DEF Waiting
<1>9. ASSUME WriterExits PROVE Waiting'
  <2>1. CASE writer = "broken" BY <1>8, <1>9, <2>1 DEF WriterExits, request, inward
  <2>2. CASE writer = "drained"
    <3>1. UNCHANGED <<stage, corr, waiters, closed, told, ended, reader, holding>>
      BY <1>9, <2>2 DEF WriterExits, request, pending, inward
    <3> QED BY <2>2, <3>1 DEF Waiting, Holders, Attended
  <2> QED BY <1>9, <2>1, <2>2 DEF WriterExits
<1>10. ASSUME ReaderExits PROVE Waiting' BY <1>8, <1>10 DEF ReaderExits, request, outward
<1>11. ASSUME Rejected \/ close PROVE Waiting' BY <1>8, <1>11 DEF Rejected, close, request, outward, inward
(* The reader holds the waiter it took until it has handed over the frame. *)
<1>12. ASSUME ReadFrame PROVE Waiting'
  <2>1. UNCHANGED <<stage, corr, closed, told, ended, writer>> /\ reader = "select"
    BY <1>12 DEF ReadFrame, request, outward
  <2>2. PICK f \in inbound : Route(f) BY <1>12 DEF ReadFrame
  <2>3. holding = {} /\ f \in Frames /\ f.of \in Requests BY <2>1 DEF Waiting, Types, Frames
  <2>4. CASE \A w \in waiters : w[1] # f.id
    <3>1. UNCHANGED <<waiters, reader, holding>> BY <2>2, <2>4 DEF Route, take
    <3> QED BY <2>1, <3>1 DEF Waiting, Holders, Attended
  <2>5. ASSUME NEW w \in waiters, w[1] = f.id, reader' = "delivering",
               holding' = {<<w[2], f.of>>}
        PROVE  Waiting'
    <3>1. waiters' = take(f.id) BY <2>2 DEF Route
    <3>2. ASSUME NEW r \in Holders, <<corr[r], r>> \in waiters, corr[r] = f.id
          PROVE  <<r, f.of>> \in holding'
      <4>1. w[2] = r BY <1>0, <1>t, <2>5, <3>2 DEF Tagged, Ids
      <4> QED BY <2>5, <4>1
    <3>3. \A r \in Holders : Attended(r)' BY <2>1, <2>3, <3>1, <3>2 DEF Waiting, Attended, take
    <3> QED BY <2>1, <2>5, <3>1, <3>3 DEF Waiting, Holders, take
  <2> QED BY <2>2, <2>4, <2>5 DEF Route
<1>13. ASSUME Deliver PROVE Waiting'
  <2>1. /\ UNCHANGED <<stage, corr, waiters, closed, ended, writer>>
        /\ reader' = "select" /\ holding' = {}
    BY <1>13 DEF Deliver, request, outward
  <2>2. \A r \in Holders :
          told'[r] = told[r] \cup {q \in Requests : <<r, q>> \in holding}
    BY <1>13 DEF Deliver, Holders, Listening
  <2>3. \A r \in Holders : Attended(r)' BY <2>1, <2>2 DEF Waiting, Attended
  <2> QED BY <2>1, <2>3 DEF Waiting, Holders
<1> QED
  BY <1>2, <1>3, <1>4, <1>5, <1>6, <1>7, <1>9, <1>10, <1>11, <1>12, <1>13
  DEF Next, Request, Resting, Spent

-----------------------------------------------------------------------------
(* Permits. *)

Permits == IsFiniteSet(Holders) /\ PermitsConserved

(* Every step keeps the permits accounted for. *)
LEMMA PermitsStep ==
  ASSUME Types, Permits, [Next]_vars
  PROVE  Permits'
<1>t. /\ stage \in [Requests -> Stages] /\ permits \in Nat /\ MaxInFlight \in Nat
      /\ Calls \subseteq Requests
      /\ IsFiniteSet(Holders) /\ permits + Cardinality(Holders) = MaxInFlight
      /\ Cardinality(Holders) \in Nat
  BY ConnectionAssumption, FS_CardinalityType
  DEF Types, Requests, Permits, PermitsConserved
<1>1. ASSUME Holders' = Holders, permits' = permits PROVE Permits' BY <1>1 DEF Permits, PermitsConserved
<1>2. ASSUME NEW r \in Holders, Holders' = Holders \ {r}, permits' = permits + 1
      PROVE  Permits'
  <2>1. IsFiniteSet(Holders') /\ Cardinality(Holders') = Cardinality(Holders) - 1
    BY <1>2, <1>t, FS_RemoveElement
  <2> QED BY <1>2, <1>t, <2>1 DEF Permits, PermitsConserved
<1>3. ASSUME NEW r \in Requests, r \notin Holders, Holders' = Holders \cup {r},
             permits' = permits - 1
      PROVE  Permits'
  <2>1. IsFiniteSet(Holders') /\ Cardinality(Holders') = Cardinality(Holders) + 1 BY <1>3, <1>t, FS_AddElement
  <2> QED BY <1>3, <1>t, <2>1 DEF Permits, PermitsConserved
<1>4. ASSUME NEW r \in Requests, AcquirePermit(r) PROVE Permits'
  <2>1. CASE Finish(r, "permit", "closed") /\ permits' = permits BY <1>1, <1>t, <2>1 DEF Finish, Move, Holders
  <2>2. CASE Move(r, "permit", "send") /\ permits' = permits - 1
    <3>1. r \notin Holders /\ Holders' = Holders \cup {r} BY <1>t, <2>2 DEF Move, Holders
    <3> QED BY <1>3, <2>2, <3>1
  <2> QED BY <1>4, <2>1, <2>2 DEF AcquirePermit
<1>5. ASSUME NEW r \in Requests, SendFails(r) \/ Receive(r) \/ Expire(r) PROVE Permits'
  <2>1. permits' = permits + 1 /\ stage[r] \in {"send", "await"}
    BY <1>5 DEF SendFails, Receive, Expire, Finish, Move
  <2>2. \E to \in {"done", "expired"} : stage' = [stage EXCEPT ![r] = to]
    BY <1>5 DEF SendFails, Receive, Expire, Finish, Move
  <2>3. r \in Holders /\ Holders' = Holders \ {r} BY <1>t, <2>1, <2>2 DEF Holders
  <2> QED BY <1>2, <2>1, <2>3
<1>6. ASSUME NEW c \in Calls, Cancel(c) PROVE Permits'
  <2>1. /\ stage' = [stage EXCEPT ![c] = "done"] /\ c \in Requests
        /\ permits' = IF Listening(c) THEN permits + 1 ELSE permits
    BY <1>6, <1>t DEF Cancel, Finish, Move
  <2>2. CASE Listening(c)
    <3>1. c \in Holders /\ Holders' = Holders \ {c} BY <1>t, <2>1, <2>2 DEF Holders, Listening
    <3> QED BY <1>2, <2>1, <2>2, <3>1
  <2>3. CASE ~Listening(c)
    <3>1. Holders' = Holders BY <1>t, <2>1, <2>3 DEF Holders, Listening
    <3> QED BY <1>1, <2>1, <2>3, <3>1
  <2> QED BY <2>2, <2>3
<1>7. ASSUME \/ \E c \in Calls : Begin(c) \/ PassGate(c)
             \/ \E r \in Requests : PermitTimeout(r) \/ Enqueue(r) \/ TakeBack(r)
             \/ SendStep
      PROVE  Permits'
  <2>1. permits' = permits BY <1>7 DEF Begin, PassGate, PermitTimeout, Enqueue, TakeBack, SendStep
  <2>2. Holders' = Holders
    BY <1>7, <1>t
    DEF Begin, PassGate, PermitTimeout, Enqueue, TakeBack, SendStep, Finish, Move, Holders
  <2> QED BY <1>1, <2>1, <2>2
<1>8. ASSUME UNCHANGED request PROVE Permits' BY <1>1, <1>8 DEF request, Holders
<1>9. ASSUME TakeFrame \/ Written \/ WriterBreaks \/ WriterExits \/ ReadFrame \/ Deliver
             \/ ReaderBreaks \/ ReaderExits \/ SleepEnds \/ GateWrite \/ Accepted
             \/ Rejected \/ ReauthStops \/ close \/ DropHandles \/ Answer \/ PeerCloses
             \/ UNCHANGED vars
      PROVE  Permits'
  BY <1>8, <1>9
  DEF TakeFrame, Written, WriterBreaks, WriterExits, ReadFrame, Deliver, ReaderBreaks,
      ReaderExits, SleepEnds, GateWrite, Accepted, Rejected, ReauthStops, close,
      DropHandles, Answer, PeerCloses, vars
<1> QED
  BY <1>4, <1>5, <1>6, <1>7, <1>9 DEF Next, Request, Resting, Spent

-----------------------------------------------------------------------------
(* Re-authentication. *)

Session ==
  /\ reauth = "held" => Inside = {}
  /\ writer # "writing" => sink = {}
  /\ \A r \in Requests : stage[r] # "done" => result[r] = "none"

Sent(s) == stage[s] = "await" \/ result[s] = "answered"

(* Re-authentication keeps calls out of the gate, the writer holds a frame *)
(* only while it writes, and only a finished request has a result.         *)
LEMMA SessionStep ==
  ASSUME Types, Session, [Next]_vars
  PROVE  Session'
<1>t. /\ stage \in [Requests -> Stages] /\ result \in [Requests -> Results]
      /\ Calls \subseteq Requests /\ \A c \in Calls : c \notin Steps
  BY ConnectionAssumption DEF Types, Requests
<1> USE DEF Session
<1>1. ASSUME UNCHANGED <<stage, result>>, reauth' = "held" => reauth = "held",
             writer' # "writing" => sink' = {}
      PROVE  Session'
  BY <1>1 DEF Inside
<1>2. ASSUME NEW r \in Requests, NEW to, stage' = [stage EXCEPT ![r] = to],
             to # "done" => UNCHANGED result,
             to = "done" => \E what : result' = [result EXCEPT ![r] = what],
             stage[r] # "done", Inside' \subseteq Inside \/ reauth # "held",
             UNCHANGED <<reauth, writer, sink>>
      PROVE  Session'
  BY <1>2, <1>t
<1>3. ASSUME NEW c \in Calls, Begin(c) \/ Cancel(c) PROVE Session'
  <2>1. CASE Begin(c) BY <1>2, <1>t, <2>1 DEF Begin, Move, Inside, outward, session
  <2>2. CASE Cancel(c) BY <1>2, <1>t, <2>2 DEF Cancel, Finish, Move, Inside, outward, session
  <2> QED BY <1>3, <2>1, <2>2
<1>4. ASSUME NEW c \in Calls, PassGate(c) PROVE Session'
  <2>1. reauth # "held" /\ UNCHANGED <<reauth, writer, sink>> /\ stage[c] = "gate"
    BY <1>4 DEF PassGate, GateOpen, Move, Finish, outward, session
  <2>2. CASE Finish(c, "gate", "refused") BY <1>2, <1>t, <2>1, <2>2 DEF Finish, Move
  <2>3. CASE Move(c, "gate", "permit") /\ UNCHANGED result BY <1>2, <1>t, <2>1, <2>3 DEF Move
  <2> QED BY <1>4, <2>2, <2>3 DEF PassGate
<1>5. ASSUME NEW r \in Requests, Request(r) PROVE Session'
  <2>1. UNCHANGED <<reauth, writer, sink>>
    BY <1>5
    DEF Request, AcquirePermit, PermitTimeout, Enqueue, SendFails, Receive, Expire,
        TakeBack, outward, session
  <2>2. stage[r] \in Live
    BY <1>5
    DEF Request, AcquirePermit, PermitTimeout, Enqueue, SendFails, Receive, Expire,
        TakeBack, Move, Finish, Live
  <2>3. PICK to : /\ stage' = [stage EXCEPT ![r] = to]
                  /\ to # "done" => UNCHANGED result
                  /\ to = "done" => \E what : result' = [result EXCEPT ![r] = what]
    BY <1>5
    DEF Request, AcquirePermit, PermitTimeout, Enqueue, SendFails, Receive, Expire,
        TakeBack, Move, Finish
  <2>4. Inside' \subseteq Inside BY <1>t, <2>2, <2>3 DEF Inside, Live
  <2> QED BY <1>2, <2>1, <2>2, <2>3, <2>4 DEF Live
<1>6. ASSUME SendStep PROVE Session'
  <2>1. Step(step + 1) \in Steps /\ Step(step + 1) \in Requests
    BY <1>6, ConnectionAssumption DEF SendStep, Step, Requests, Steps, Types
  <2>2. Inside' \subseteq Inside BY <1>6, <1>t, <2>1 DEF SendStep, Move, Inside
  <2> QED BY <1>2, <1>6, <2>1, <2>2 DEF SendStep, Move, outward
<1>7. ASSUME GateWrite PROVE Session' BY <1>7 DEF GateWrite, request, outward, Inside
<1>8. ASSUME TakeFrame \/ Written \/ WriterBreaks \/ WriterExits \/ ReadFrame \/ Deliver
             \/ ReaderBreaks \/ ReaderExits
      PROVE  Session'
  <2>1. UNCHANGED <<stage, result, reauth>>
    BY <1>8
    DEF TakeFrame, Written, WriterBreaks, WriterExits, ReadFrame, Deliver, ReaderBreaks,
        ReaderExits, request, session
  <2>2. writer' # "writing" => sink' = {}
    BY <1>8
    DEF TakeFrame, Written, WriterBreaks, WriterExits, ReadFrame, Deliver, ReaderBreaks,
        ReaderExits, outward
  <2> QED BY <1>1, <2>1, <2>2
<1>9. ASSUME SleepEnds \/ Accepted \/ Rejected \/ ReauthStops \/ close \/ DropHandles
             \/ Answer \/ PeerCloses \/ UNCHANGED vars
      PROVE  Session'
  <2>1. UNCHANGED <<stage, result, writer, sink>> /\ (reauth' = "held" => reauth = "held")
    BY <1>9
    DEF SleepEnds, Accepted, Rejected, ReauthStops, close, DropHandles, Answer, PeerCloses,
        vars, request, outward, session
  <2> QED BY <1>1, <2>1
<1> QED
  BY <1>3, <1>4, <1>5, <1>6, <1>7, <1>8, <1>9 DEF Next, Resting, Spent

(* While the gate is held, a step that has been sent stays behind every    *)
(* call that is still to be written.                                       *)
LEMMA AheadStep ==
  ASSUME Types, Session, [Next]_vars, reauth = "held", NEW s \in Steps, Sent(s)',
         Sent(s) => CallsAheadOf(s)
  PROVE  CallsAheadOf(s)'
<1>t. /\ stage \in [Requests -> Stages] /\ result \in [Requests -> Results]
      /\ Calls \subseteq Requests /\ s \in Requests /\ s \notin Calls
      /\ commands \in Seq(Frames) /\ Inside = {}
  BY ConnectionAssumption DEF Types, Requests, Session
<1>1. ASSUME UNCHANGED <<commands, sink>>, Sent(s) PROVE CallsAheadOf(s)' BY <1>1 DEF CallsAheadOf
(* No call is inside the gate, so what is sent now is a step. *)
<1>2. ASSUME NEW r \in Requests, Enqueue(r) PROVE CallsAheadOf(s)'
  <2>1. /\ commands' = Append(commands, Frame(r)) /\ sink' = sink
        /\ stage' = [stage EXCEPT ![r] = "await"] /\ stage[r] = "send"
        /\ result' = result
    BY <1>2 DEF Enqueue, Move
  <2>2. r \notin Calls BY <1>t, <2>1 DEF Inside
  <2>3. /\ Len(commands) \in Nat /\ Len(commands') = Len(commands) + 1
        /\ \A k \in 1..Len(commands) : commands'[k] = commands[k]
        /\ commands'[Len(commands')].of = r
    BY <1>t, <2>1 DEF Frame
  <2>4. CASE s = r
    <3>1. ASSUME NEW k \in 1..Len(commands'), commands'[k].of \in Calls
          PROVE  \E l \in k+1..Len(commands') : commands'[l].of = s
      <4>1. k # Len(commands') BY <2>2, <2>3, <3>1
      <4> QED BY <2>3, <2>4, <4>1
    <3>2. \E l \in 1..Len(commands') : commands'[l].of = s BY <2>3, <2>4
    <3> QED BY <3>1, <3>2 DEF CallsAheadOf
  <2>5. CASE s # r
    <3>1. Sent(s) BY <1>t, <2>1, <2>5 DEF Sent
    <3>2. CallsAheadOf(s) BY <3>1
    <3>3. ASSUME NEW k \in 1..Len(commands'), commands'[k].of \in Calls
          PROVE  \E l \in k+1..Len(commands') : commands'[l].of = s
      <4>1. k \in 1..Len(commands) /\ commands[k].of \in Calls BY <2>2, <2>3, <3>3
      <4>2. PICK l \in k+1..Len(commands) : commands[l].of = s BY <3>2, <4>1 DEF CallsAheadOf
      <4> QED BY <2>3, <4>1, <4>2
    <3>4. ASSUME \E f \in sink' : f.of \in Calls
          PROVE  \E l \in 1..Len(commands') : commands'[l].of = s
      <4>1. PICK l \in 1..Len(commands) : commands[l].of = s BY <2>1, <3>2, <3>4 DEF CallsAheadOf
      <4> QED BY <2>3, <4>1
    <3> QED BY <3>3, <3>4 DEF CallsAheadOf
  <2> QED BY <2>4, <2>5
(* The frame that leaves the channel is a call's, and s is still in it, or *)
(* it is a step's, and no call was before it.                              *)
<1>3. ASSUME TakeFrame PROVE CallsAheadOf(s)'
  <2>1. /\ commands # <<>> /\ commands' = Tail(commands) /\ sink' = {Head(commands)}
        /\ UNCHANGED <<stage, result>>
    BY <1>3 DEF TakeFrame, request
  <2>2. CallsAheadOf(s) BY <2>1 DEF Sent
  <2>3. /\ Len(commands) \in Nat /\ Len(commands) > 0 /\ Head(commands) = commands[1]
        /\ Len(commands') = Len(commands) - 1
        /\ \A k \in 1..Len(commands') : commands'[k] = commands[k + 1]
    BY <1>t, <2>1
  <2>4. ASSUME NEW k \in 1..Len(commands'), commands'[k].of \in Calls
        PROVE  \E l \in k+1..Len(commands') : commands'[l].of = s
    <3>1. k + 1 \in 1..Len(commands) /\ commands[k + 1].of \in Calls BY <2>3, <2>4
    <3>2. PICK l \in (k+1)+1..Len(commands) : commands[l].of = s BY <2>2, <3>1 DEF CallsAheadOf
    <3>3. l - 1 \in k+1..Len(commands') /\ commands'[l - 1] = commands[l] BY <2>3, <3>2
    <3> QED BY <3>2, <3>3
  <2>5. ASSUME commands[1].of \in Calls
        PROVE  \E l \in 1..Len(commands') : commands'[l].of = s
    <3>1. PICK l \in 1+1..Len(commands) : commands[l].of = s BY <2>2, <2>3, <2>5 DEF CallsAheadOf
    <3>2. l - 1 \in 1..Len(commands') /\ commands'[l - 1] = commands[l] BY <2>3, <3>1
    <3> QED BY <3>1, <3>2
  <2> QED BY <2>1, <2>3, <2>4, <2>5 DEF CallsAheadOf
<1>4. ASSUME Written \/ WriterBreaks PROVE CallsAheadOf(s)'
  <2>1. UNCHANGED <<stage, result, commands>> /\ sink' = {} BY <1>4 DEF Written, WriterBreaks, request
  <2>2. CallsAheadOf(s) BY <2>1 DEF Sent
  <2> QED BY <2>1, <2>2 DEF CallsAheadOf
<1>5. ASSUME WriterExits PROVE CallsAheadOf(s)'
  <2>1. UNCHANGED <<stage, result, sink>> /\ sink = {} BY <1>5 DEF WriterExits, request, Session
  <2>2. CASE commands' = commands BY <1>1, <2>1, <2>2 DEF Sent
  <2>3. CASE commands' = <<>> BY <2>1, <2>3 DEF CallsAheadOf
  <2> QED BY <1>5, <2>2, <2>3 DEF WriterExits
(* Otherwise the channel is as it was, and s was sent before. *)
<1>6. ASSUME NEW c \in Calls, Begin(c) \/ PassGate(c) \/ Cancel(c) PROVE CallsAheadOf(s)'
  <2>1. UNCHANGED <<commands, sink>> BY <1>6 DEF Begin, PassGate, Cancel, outward
  <2>2. s # c /\ stage'[s] = stage[s] /\ result'[s] = result[s]
    BY <1>6, <1>t DEF Begin, PassGate, Cancel, Move, Finish
  <2> QED BY <1>1, <2>1, <2>2 DEF Sent
<1>7. ASSUME NEW r \in Requests,
             \/ AcquirePermit(r) \/ PermitTimeout(r) \/ SendFails(r) \/ Receive(r)
             \/ Expire(r) \/ TakeBack(r)
      PROVE  CallsAheadOf(s)'
  <2>1. UNCHANGED <<commands, sink>>
    BY <1>7 DEF AcquirePermit, PermitTimeout, SendFails, Receive, Expire, TakeBack, outward
  <2>2. Sent(s)
    BY <1>7, <1>t
    DEF AcquirePermit, PermitTimeout, SendFails, Receive, Expire, TakeBack, Move, Finish,
        Sent
  <2> QED BY <1>1, <2>1, <2>2
<1>8. ASSUME SendStep PROVE CallsAheadOf(s)'
  <2>1. UNCHANGED <<commands, sink, result>> BY <1>8 DEF SendStep, outward
  <2>2. Sent(s) BY <1>8, <1>t, <2>1 DEF SendStep, Move, Sent
  <2> QED BY <1>1, <2>1, <2>2
<1>9. ASSUME ReadFrame \/ Deliver \/ ReaderBreaks \/ ReaderExits \/ SleepEnds \/ GateWrite
             \/ Accepted \/ Rejected \/ ReauthStops \/ close \/ DropHandles \/ Answer
             \/ PeerCloses \/ UNCHANGED vars
      PROVE  CallsAheadOf(s)'
  <2>1. UNCHANGED <<commands, sink, stage, result>>
    BY <1>9
    DEF ReadFrame, Deliver, ReaderBreaks, ReaderExits, SleepEnds, GateWrite, Accepted,
        Rejected, ReauthStops, close, DropHandles, Answer, PeerCloses, vars, request, outward
  <2> QED BY <1>1, <2>1 DEF Sent
<1> QED
  BY <1>2, <1>3, <1>4, <1>5, <1>6, <1>7, <1>8, <1>9 DEF Next, Request, Resting, Spent

(* Every step keeps re-authentication uninterrupted. *)
LEMMA UninterruptedStep ==
  ASSUME Types, Session, ReauthUninterrupted, [Next]_vars
  PROVE  ReauthUninterrupted'
<1>1. CASE GateWrite BY <1>1 DEF GateWrite, ReauthUninterrupted
<1>2. CASE SendStep
  <2>1. /\ reauth = "held" /\ round' = round /\ step' = step + 1 /\ result' = result
        /\ Step(step + 1) \in Requests /\ stage[Step(step + 1)] = "idle"
        /\ stage' = [stage EXCEPT ![Step(step + 1)] = "permit"]
    BY <1>2, ConnectionAssumption DEF SendStep, Move, Step, Requests, Steps, Types
  <2>2. /\ stage'[<<round, step + 1>>] # "await"
        /\ result'[<<round, step + 1>>] # "answered"
    BY <2>1 DEF Step, Types, Session
  <2>3. ASSUME NEW i \in 1..step', Sent(Step(i))' PROVE CallsAheadOf(Step(i))'
    <3>0. stage'[<<round, i>>] = "await" \/ result'[<<round, i>>] = "answered" BY <2>1, <2>3 DEF Sent, Step
    <3>1. i \in 1..step
      <4>1. i # step + 1 BY <2>2, <3>0
      <4>2. step \in Nat /\ step' = step + 1 BY <2>1, ConnectionAssumption DEF Types
      <4> QED BY <4>1, <4>2
    <3>2. Step(i) \in Steps /\ Step(i)' = Step(i) BY <2>1, <3>1, ConnectionAssumption DEF Step, Steps, Types
    <3>3. Sent(Step(i)) => CallsAheadOf(Step(i)) BY <2>1, <3>1 DEF ReauthUninterrupted, Sent
    <3>4. ASSUME NEW s \in Steps, s = Step(i) PROVE CallsAheadOf(s)'
      BY <2>1, <2>3, <3>2, <3>3, <3>4, AheadStep DEF Sent
    <3> QED BY <3>2, <3>4 DEF CallsAheadOf
  <2> QED BY <2>3 DEF ReauthUninterrupted, Sent
<1>3. CASE ~GateWrite /\ ~SendStep
  <2>1. UNCHANGED <<round, step>> /\ (reauth' = "held" => reauth = "held")
    BY <1>3
    DEF Next, Request, Begin, PassGate, Cancel, AcquirePermit, PermitTimeout, Enqueue,
        SendFails, Receive, Expire, TakeBack, TakeFrame, Written, WriterBreaks, WriterExits,
        ReadFrame, Deliver, ReaderBreaks, ReaderExits, SleepEnds, Accepted, Rejected,
        ReauthStops, close, DropHandles, Answer, PeerCloses, Resting, Spent, vars, session
  <2>2. ASSUME reauth' = "held", NEW i \in 1..step', Sent(Step(i))'
        PROVE  CallsAheadOf(Step(i))'
    <3>1. i \in 1..step /\ reauth = "held" BY <2>1, <2>2
    <3>2. Step(i) \in Steps /\ Step(i)' = Step(i) BY <2>1, <3>1, ConnectionAssumption DEF Step, Steps, Types
    <3>3. Sent(Step(i)) => CallsAheadOf(Step(i)) BY <3>1 DEF ReauthUninterrupted, Sent
    <3>4. ASSUME NEW s \in Steps, s = Step(i) PROVE CallsAheadOf(s)'
      BY <2>2, <3>1, <3>2, <3>3, <3>4, AheadStep DEF Sent
    <3> QED BY <3>2, <3>4 DEF CallsAheadOf
  <2> QED BY <2>2 DEF ReauthUninterrupted, Sent
<1> QED BY <1>1, <1>2, <1>3

-----------------------------------------------------------------------------
(* The theorems. *)

ConnectionInv == Types /\ Ids /\ Tagged /\ Waiting /\ Permits

(* The invariant holds when the connection is spawned. *)
LEMMA InitInv == Init => ConnectionInv
<1> SUFFICES ASSUME Init PROVE ConnectionInv OBVIOUS
<1> USE ConnectionAssumption DEF Init
<1>1. Types
  <2>1. reauth \in {"off", "sleeping"} OBVIOUS
  <2>2. /\ stage \in [Requests -> Stages] /\ result \in [Requests -> Results]
        /\ corr \in [Requests -> Nat] /\ told \in [Requests -> SUBSET Requests]
    BY DEF Stages, Results
  <2>3. waiters \subseteq Nat \X Requests /\ holding \subseteq Requests \X Requests OBVIOUS
  <2>4. /\ commands \in Seq(Frames) /\ sink \subseteq Frames /\ wire \subseteq Frames
        /\ inbound \subseteq Frames /\ ended \subseteq Requests
    OBVIOUS
  <2>5. /\ next \in Nat \ {0} /\ permits \in Nat /\ round \in 0..MaxRounds
        /\ step \in 0..Exchange
    OBVIOUS
  <2>6. /\ closed \in BOOLEAN /\ shutdown \in BOOLEAN /\ handles \in BOOLEAN
        /\ writer = "select" /\ reader = "select" /\ socket = "open"
    OBVIOUS
  <2> HIDE DEF Init
  <2> QED BY <2>1, <2>2, <2>3, <2>4, <2>5, <2>6 DEF Types
<1>2. Ids /\ Tagged BY DEF Ids, Tagged, Fresh, Live
<1>3. Holders = {} BY DEF Holders
<1>4. Waiting BY <1>3 DEF Waiting
<1>5. Permits BY <1>3, FS_EmptySet DEF Permits, PermitsConserved
<1> QED BY <1>1, <1>2, <1>4, <1>5 DEF ConnectionInv

(* The inductive invariant of the connection. *)
THEOREM ConnectionInvariant == Spec => []ConnectionInv
<1>1. ConnectionInv /\ [Next]_vars => ConnectionInv'
  BY TypesStep, IdsStep, TaggedStep, WaitingStep, PermitsStep DEF ConnectionInv
<1> QED BY InitInv, <1>1, PTL DEF Spec

(* Every variable keeps its type; the semaphore never holds more than      *)
(* max_in_flight permits.                                                  *)
THEOREM TypeCorrect == Spec => []TypeOK
<1>1. ConnectionInv => TypeOK
  <2> SUFFICES ASSUME ConnectionInv PROVE TypeOK OBVIOUS
  <2>1. permits \in 0..MaxInFlight
    BY ConnectionAssumption, FS_CardinalityType
    DEF ConnectionInv, Types, Permits, PermitsConserved
  <2> QED BY <2>1 DEF ConnectionInv, Types, TypeOK
<1> QED BY ConnectionInvariant, <1>1, PTL

(* For any number of calls, no request is ever handed the answer to        *)
(* another one (spawn, Pending::take).                                     *)
THEOREM AnswersReachTheirCaller == Spec => []RightAnswer
<1>1. ConnectionInv => RightAnswer BY DEF ConnectionInv, Tagged, RightAnswer
<1> QED BY ConnectionInvariant, <1>1, PTL

(* For any number of calls, no request waits on a oneshot that nobody will *)
(* resolve (Pending::register and close).                                  *)
THEOREM NoHang == Spec => []NobodyLeftWaiting
<1>1. ConnectionInv => NobodyLeftWaiting BY DEF ConnectionInv, Waiting, Attended, NobodyLeftWaiting
<1> QED BY ConnectionInvariant, <1>1, PTL

(* For any number of calls, permits are neither lost nor made              *)
(* (round_trip).                                                           *)
THEOREM PermitsAreConserved == Spec => []PermitsConserved
<1>1. ConnectionInv => PermitsConserved BY DEF ConnectionInv, Permits
<1> QED BY ConnectionInvariant, <1>1, PTL

(* For any number of calls and re-authentications, no call gets between    *)
(* the frames of one (reauth_gate).                                        *)
THEOREM ReauthIsContiguous == Spec => []ReauthUninterrupted
<1> DEFINE Inv == ConnectionInv /\ Session /\ ReauthUninterrupted
<1>1. Init => Inv
  <2> SUFFICES ASSUME Init PROVE Session /\ ReauthUninterrupted BY InitInv
  <2> QED BY DEF Init, Session, Inside, ReauthUninterrupted
<1>2. Inv /\ [Next]_vars => Inv'
  <2>1. ConnectionInv /\ [Next]_vars => ConnectionInv'
    BY TypesStep, IdsStep, TaggedStep, WaitingStep, PermitsStep DEF ConnectionInv
  <2> QED BY <2>1, SessionStep, UninterruptedStep DEF ConnectionInv
<1> QED BY <1>1, <1>2, PTL DEF Spec

-----------------------------------------------------------------------------
(* The pool: it opens one socket per broker.                               *)

(* Addresses learnt from the cluster: nothing newer than it ever used.     *)
Known(f, moves) ==
  /\ f = [n \in DOMAIN f |-> f[n]] /\ DOMAIN f \subseteq Nodes
  /\ \A n \in DOMAIN f : f[n] \in 1..(1 + moves)
IsView(s, moves) == DOMAIN s = {"brokers", "leader", "controller"} /\ Known(s.brokers, moves)

Fields == {"pc", "target", "attempt", "finds", "reasks", "node", "at", "then", "known", "next", "got", "calm",
           "result"}
Nexts == {"idle", "resolve", "resolved", "done"}
Thens == {"send", "ask_all", "ask_topics", "find"}
Sane(c, moves) == DOMAIN c = Fields /\ c.next \in Nexts /\ c.then \in Thens /\ Known(c.known, moves)

(* A task holds the answer it installs, or the address it dials.           *)
TaskOK(c, moves) ==
  /\ Sane(c, moves)
  /\ c.pc \in {"store", "merge"} => \E s \in c.got : c.got = {s} /\ IsView(s, moves)
  /\ c.pc = "dial" => c.node \in Nodes /\ \E a \in 1..(1 + moves) : c.got = {a}

ClusterShape ==
  /\ DOMAIN used = {"moves", "lost"} /\ used.moves \in Nat
  /\ DOMAIN world = {"at", "leader", "controller", "coordinator"}
  /\ world.at \in [Nodes -> 0..(1 + used.moves)]
  /\ IsView(snapshot, used.moves) /\ Known(addresses, used.moves)
  /\ slots \in [Nodes -> [conn : 0..(1 + used.moves), backoff : BOOLEAN, holder : SUBSET Tasks]]
  /\ sockets \in [Nodes -> [open : Int, dropped : Nat]]
  /\ task = [t \in Tasks |-> task[t]] /\ \A t \in Tasks : TaskOK(task[t], used.moves)

(* Nobody dials for a slot that has a connection.                          *)
DialsWhenEmpty == \A n \in Nodes : slots[n].holder # {} => slots[n].conn = 0

(* The dials of n that will succeed although their slot was dropped.       *)
Abandoned(n) ==
  { t \in Tasks : /\ task[t].pc = "dial" /\ task[t].node = n /\ task[t].got = {world.at[n]}
                  /\ slots[n].holder # {t} }

(* Every socket that is open, and every one that an abandoned dial is yet  *)
(* to open, is the slot's own or accounted to a slot that was dropped.     *)
Balanced(n) ==
  IF world.at[n] = 0 THEN sockets[n].open = 0
  ELSE sockets[n].open + Cardinality(Abandoned(n))
         <= sockets[n].dropped + (IF slots[n].conn = world.at[n] THEN 1 ELSE 0)

(* The inductive invariant.                                                *)
ClusterInv == ClusterShape /\ DialsWhenEmpty /\ \A n \in Nodes : Balanced(n)

-----------------------------------------------------------------------------
(* What a step keeps.                                                      *)

LEMMA LaterKnown ==
  ASSUME NEW f, NEW m \in Nat, Known(f, m)
  PROVE  Known(f, m + 1)
BY DEF Known

LEMMA LaterView ==
  ASSUME NEW s, NEW m \in Nat, IsView(s, m)
  PROVE  IsView(s, m + 1)
BY LaterKnown DEF IsView

LEMMA LaterTask ==
  ASSUME NEW c, NEW m \in Nat, TaskOK(c, m)
  PROVE  TaskOK(c, m + 1)
<1>1. \A a \in 1..(1 + m) : a \in 1..(1 + (m + 1)) OBVIOUS
<1> QED BY <1>1, LaterView, LaterKnown DEF TaskOK, Sane

LEMMA TasksFinite == IsFiniteSet(Tasks)
<1>1. IsFiniteSet(Callers) BY ClusterAssumption
<1> QED BY <1>1, FS_AddElement DEF Tasks

LEMMA AbandonedFinite ==
  ASSUME NEW n
  PROVE  IsFiniteSet(Abandoned(n)) /\ Cardinality(Abandoned(n)) \in Nat
<1>1. Abandoned(n) \subseteq Tasks BY DEF Abandoned
<1> QED BY <1>1, TasksFinite, FS_Subset, FS_CardinalityType

(* The answer of a broker, and what a bounded event does to its count.     *)
LEMMA DecodedView ==
  ASSUME ClusterShape
  PROVE  IsView(decode_metadata, used.moves)
<1>1. \A n \in Alive : n \in Nodes /\ world.at[n] \in 1..(1 + used.moves) BY DEF ClusterShape, Alive
<1> QED BY <1>1 DEF IsView, Known, decode_metadata

LEMMA UseLost ==
  ASSUME ClusterShape, Use("lost", MaxLost)
  PROVE  DOMAIN used' = {"moves", "lost"} /\ used'.moves = used.moves
BY DEF ClusterShape, Use

(* A node that no step of the task concerns.                               *)
LEMMA NodeKept ==
  ASSUME ClusterInv, NEW n \in Nodes, world'.at[n] = world.at[n],
         sockets'[n].open = sockets[n].open, sockets'[n].dropped = sockets[n].dropped,
         world.at[n] # 0 =>
           /\ slots'[n].conn = world.at[n] <=> slots[n].conn = world.at[n]
           /\ Abandoned(n)' \subseteq Abandoned(n)
  PROVE  Balanced(n)'
<1>1. CASE world.at[n] = 0 BY <1>1 DEF Balanced, ClusterInv
<1>2. CASE world.at[n] # 0
  <2>1. /\ Cardinality(Abandoned(n)') \in Nat /\ Cardinality(Abandoned(n)) \in Nat
        /\ Cardinality(Abandoned(n)') <= Cardinality(Abandoned(n))
    BY <1>2, AbandonedFinite, FS_Subset, FS_CardinalityType
  <2>2. sockets[n].open \in Int /\ sockets[n].dropped \in Nat BY DEF ClusterInv, ClusterShape
  <2> QED BY <1>2, <2>1, <2>2 DEF Balanced, ClusterInv
<1> QED BY <1>1, <1>2

(* The shape after a step that replaces one task.                          *)
LEMMA OneTask ==
  ASSUME ClusterShape, NEW t \in Tasks, NEW r, TaskOK(r, used.moves), Goto(t, r)
  PROVE  /\ task' = [x \in Tasks |-> task'[x]] /\ \A x \in Tasks : TaskOK(task'[x], used.moves)
         /\ task'[t] = r /\ \A x \in Tasks \ {t} : task'[x] = task[x]
BY DEF ClusterShape, Goto

(* The shape, from the values after a step.                                *)
LEMMA ShapeAfter ==
  ASSUME NEW m \in Nat, DOMAIN used' = {"moves", "lost"}, used'.moves = m,
         DOMAIN world' = {"at", "leader", "controller", "coordinator"},
         world'.at \in [Nodes -> 0..(1 + m)], IsView(snapshot', m), Known(addresses', m),
         slots' \in [Nodes -> [conn : 0..(1 + m), backoff : BOOLEAN, holder : SUBSET Tasks]],
         sockets' \in [Nodes -> [open : Int, dropped : Nat]],
         task' = [x \in Tasks |-> task'[x]], \A x \in Tasks : TaskOK(task'[x], m)
  PROVE  ClusterShape'
<1>1. \A x \in Tasks : TaskOK(task[x], used.moves)' BY DEF TaskOK, Sane, IsView, Known
<1>2. IsView(snapshot, used.moves)' /\ Known(addresses, used.moves)' BY DEF IsView, Known
<1> QED BY <1>1, <1>2 DEF ClusterShape

(* A task that begins or ends nothing: it is not dialling, and the pool    *)
(* is left alone.                                                          *)
LEMMA Idles ==
  ASSUME ClusterInv, NEW t \in Tasks, NEW r, TaskOK(r, used.moves), r.pc # "dial", Goto(t, r),
         UNCHANGED <<world, snapshot, addresses, slots, sockets>>,
         DOMAIN used' = {"moves", "lost"}, used'.moves = used.moves
  PROVE  ClusterInv'
<1>1. /\ task' = [x \in Tasks |-> task'[x]] /\ \A x \in Tasks : TaskOK(task'[x], used.moves)
      /\ task'[t] = r /\ \A x \in Tasks \ {t} : task'[x] = task[x]
  BY OneTask DEF ClusterInv
<1>2. ClusterShape' BY <1>1, ShapeAfter DEF ClusterInv, ClusterShape
<1>3. \A n \in Nodes : Abandoned(n)' \subseteq Abandoned(n) BY <1>1 DEF Abandoned
<1>4. \A n \in Nodes : Balanced(n)' BY <1>3, NodeKept DEF ClusterInv
<1> QED BY <1>2, <1>4 DEF ClusterInv, DialsWhenEmpty

-----------------------------------------------------------------------------
(* The steps of a task that leave the pool alone.                          *)

LEMMA IdleSane == ASSUME NEW m PROVE Sane(Idle, m) /\ TaskOK(Idle, m)
<1>1. DOMAIN Idle = Fields /\ Idle.next = "idle" /\ Idle.then = "send" /\ Idle.known = <<>> /\ Idle.pc = "idle"
  BY DEF Idle, Fields
<1>2. Known(<<>>, m) BY DEF Known
<1> QED BY <1>1, <1>2 DEF Sane, TaskOK, Nexts, Thens

SlotType(m) == [conn : 0..(1 + m), backoff : BOOLEAN, holder : SUBSET Tasks]

(* What a task may become without an answer and without a dial.            *)
Onward(r, moves) == Sane(r, moves) /\ r.pc \notin {"store", "merge", "dial"}

LEMMA Elsewhere ==
  ASSUME ClusterInv, NEW t \in Tasks, NEW r, Onward(r, used.moves), Goto(t, r),
         UNCHANGED <<world, snapshot, addresses, slots, sockets>>,
         DOMAIN used' = {"moves", "lost"}, used'.moves = used.moves
  PROVE  ClusterInv'
<1>1. TaskOK(r, used.moves) /\ r.pc # "dial" BY DEF TaskOK, Onward
<1> QED BY <1>1, Idles

LEMMA TaskSane ==
  ASSUME ClusterInv, NEW t \in Tasks
  PROVE  Sane(task[t], used.moves)
BY DEF ClusterInv, ClusterShape, TaskOK

LEMMA SameUsed ==
  ASSUME ClusterInv, UNCHANGED used
  PROVE  DOMAIN used' = {"moves", "lost"} /\ used'.moves = used.moves
BY DEF ClusterInv, ClusterShape

LEMMA NoneKnown == ASSUME NEW m PROVE Known(<<>>, m)
BY DEF Known

LEMMA DoneGoes == ASSUME NEW c, NEW m PROVE Onward(Done(c), m) /\ Done(c).pc = "done"
<1>1. DOMAIN Done(c) = Fields /\ Done(c).next = "idle" /\ Done(c).then = "send" /\ Done(c).known = <<>>
      /\ Done(c).pc = "done"
  BY DEF Done, Idle, Fields
<1> QED BY <1>1, NoneKnown DEF Onward, Sane, Nexts, Thens

LEMMA AgainGoes == ASSUME NEW c, NEW m PROVE Onward(Again(c), m) /\ Again(c).pc = "resolve"
<1>1. DOMAIN Again(c) = Fields /\ Again(c).next = "idle" /\ Again(c).then = "send" /\ Again(c).known = <<>>
      /\ Again(c).pc = "resolve"
  BY DEF Again, Idle, Fields
<1> QED BY <1>1, NoneKnown DEF Onward, Sane, Nexts, Thens

LEMMA GoOnGoes == ASSUME NEW c, NEW m PROVE Onward(GoOn(c), m)
<1>1. Onward(Idle, m) BY IdleSane DEF Onward, Idle
<1> QED BY <1>1, DoneGoes, AgainGoes DEF GoOn

LEMMA AnyGoes ==
  ASSUME NEW c, NEW m, Sane(c, m), NEW then \in Thens, Known(addresses, m)
  PROVE  Onward(any(c, then), m)
<1>1. LET r == any(c, then)
      IN DOMAIN r = Fields /\ r.next = c.next /\ r.then = then /\ r.known = addresses /\ r.pc = "any"
  BY DEF any, Sane, Fields
<1> QED BY <1>1 DEF Onward, Sane

LEMMA RefreshGoes ==
  ASSUME NEW c, NEW m, Sane(c, m), NEW then \in Thens, NEW onto \in Nexts, Known(addresses, m)
  PROVE  Onward(refresh(c, then, onto), m)
<1> DEFINE q == any(c, then)
<1>1. Onward(q, m) BY AnyGoes
<1> HIDE DEF q
<1>2. LET r == [q EXCEPT !.next = onto]
      IN DOMAIN r = Fields /\ r.next = onto /\ r.then = q.then /\ r.known = q.known /\ r.pc = q.pc
  BY <1>1 DEF Onward, Sane, Fields
<1> QED BY <1>1, <1>2 DEF Onward, Sane, refresh, q

LEMMA RetryGoes ==
  ASSUME NEW c, NEW m
  PROVE  Onward(Retry(c), m) /\ Retry(c).pc \in {"resolve", "done"}
BY DoneGoes, AgainGoes DEF Retry

LEMMA ErrorGoes ==
  ASSUME NEW c, NEW m, Sane(c, m), NEW why, Known(addresses, m)
  PROVE  Onward(OnError(c, why), m)
<1> DEFINE f == [c EXCEPT !.got = {}, !.known = <<>>, !.result = why, !.finds = 1]
           then == IF f.target = "leader" THEN "ask_topics" ELSE "ask_all"
<1>1. Sane(f, m) BY NoneKnown DEF Sane, Fields
<1> HIDE DEF f
<1>2. Onward(on_stale_metadata(f), m)
  <2> DEFINE g == [f EXCEPT !.attempt = Retry(f).attempt, !.finds = 1]
  <2>1. Sane(g, m) BY <1>1 DEF Sane, Fields
  <2>2. then \in Thens /\ Retry(f).pc \in Nexts BY RetryGoes DEF Thens, Nexts
  <2> HIDE DEF g, then
  <2>3. Onward(refresh(g, then, Retry(f).pc), m) BY <2>1, <2>2, RefreshGoes
  <2> QED BY <2>3 DEF on_stale_metadata, g, then
<1> QED BY <1>2, RetryGoes DEF OnError, f

LEMMA BrokenGoes ==
  ASSUME NEW c, NEW m, Sane(c, m), NEW why, Known(addresses, m)
  PROVE  Onward(Broken(c, why), m)
BY ErrorGoes, GoOnGoes, AgainGoes DEF Broken

(* A change of the fields that say nothing about where the task is.        *)
LEMMA CalmGoes ==
  ASSUME NEW r, NEW m, Onward(r, m), NEW calm
  PROVE  Onward([r EXCEPT !.calm = calm], m)
BY DEF Onward, Sane, Fields

LEMMA CalmSane ==
  ASSUME NEW r, NEW m, Sane(r, m), NEW calm
  PROVE  LET s == [r EXCEPT !.calm = calm]
         IN Sane(s, m) /\ s.node = r.node /\ s.then = r.then /\ s.known = r.known
BY DEF Sane, Fields

LEMMA BeginStep ==
  ASSUME ClusterInv, NEW t \in Callers, BeginCall(t)
  PROVE  ClusterInv'
<1>1. PICK target, calm : Goto(t, [Idle EXCEPT !.target = target, !.pc = "resolve", !.calm = calm])
  BY DEF BeginCall
<1> DEFINE r == [Idle EXCEPT !.target = target, !.pc = "resolve", !.calm = calm]
<1>2. DOMAIN r = Fields /\ r.next = "idle" /\ r.then = "send" /\ r.known = <<>> /\ r.pc = "resolve"
  BY DEF Idle, Fields
<1> HIDE DEF r
<1>3. Onward(r, used.moves) BY <1>2, NoneKnown DEF Onward, Sane, Nexts, Thens
<1>4. Goto(t, r) /\ t \in Tasks BY <1>1 DEF r, Tasks
<1> QED BY <1>3, <1>4, SameUsed, Elsewhere DEF BeginCall, shared

LEMMA ResolveStep ==
  ASSUME ClusterInv, NEW t \in Tasks, Resolve(t)
  PROVE  ClusterInv'
<1> DEFINE c == task[t]
<1>1. UNCHANGED <<world, snapshot, addresses, slots, sockets>> /\ UNCHANGED used BY DEF Resolve, shared
<1>2. \/ \E n : Goto(t, [c EXCEPT !.node = n, !.finds = 1, !.pc = "get"])
      \/ Goto(t, any(c, "send"))
      \/ Goto(t, refresh(c, "ask_topics", "resolved"))
      \/ Goto(t, refresh(c, "ask_all", "resolved"))
      \/ Goto(t, any(c, "find"))
  BY Zenon DEF Resolve
<1>3. Sane(c, used.moves) /\ Known(addresses, used.moves) BY TaskSane DEF ClusterInv, ClusterShape
<1> HIDE DEF c
<1>4. ASSUME NEW n PROVE Onward([c EXCEPT !.node = n, !.finds = 1, !.pc = "get"], used.moves)
  BY <1>3 DEF Onward, Sane, Fields
<1>5. /\ Onward(any(c, "send"), used.moves) /\ Onward(any(c, "find"), used.moves)
      /\ Onward(refresh(c, "ask_topics", "resolved"), used.moves)
      /\ Onward(refresh(c, "ask_all", "resolved"), used.moves)
  BY <1>3, AnyGoes, RefreshGoes DEF Thens, Nexts
<1>6. PICK r : Onward(r, used.moves) /\ Goto(t, r) BY <1>2, <1>4, <1>5
<1> QED BY <1>1, <1>6, SameUsed, Elsewhere

LEMMA FailedStep ==
  ASSUME ClusterInv, NEW t \in Tasks, Failed(t)
  PROVE  ClusterInv'
<1>1. Onward(OnError(task[t], "stale"), used.moves) BY TaskSane, ErrorGoes DEF ClusterInv, ClusterShape
<1> QED BY <1>1, SameUsed, Elsewhere DEF Failed, shared

(* A request that is not answered: to an address its node is not at, it    *)
(* takes the connection out.                                               *)
LEMMA UnansweredStep ==
  ASSUME ClusterInv, NEW t \in Tasks, NoAnswer(t), UNCHANGED <<world, snapshot, addresses, sockets>>
  PROVE  ClusterInv'
<1> DEFINE c == task[t]
<1>1. Sane(c, used.moves) /\ Known(addresses, used.moves) BY TaskSane DEF ClusterInv, ClusterShape
<1>2. CASE /\ Use("lost", MaxLost) /\ Goto(t, [Broken(c, "timeout") EXCEPT !.calm = "no"]) /\ UNCHANGED slots
  <2>1. DOMAIN used' = {"moves", "lost"} /\ used'.moves = used.moves BY <1>2, UseLost DEF ClusterInv
  <2>2. Onward([Broken(c, "timeout") EXCEPT !.calm = "no"], used.moves) BY <1>1, BrokenGoes, CalmGoes
  <2> QED BY <1>2, <2>1, <2>2, Elsewhere
<1>3. CASE /\ ~Reached(c) /\ Goto(t, Broken(c, "closed")) /\ UNCHANGED used
           /\ slots' = [slots EXCEPT ![c.node].conn = IF @ = c.at THEN 0 ELSE @]
  <2> DEFINE r == Broken(c, "closed")
  <2>1. Goto(t, r) /\ UNCHANGED used BY <1>3
  <2>2. Onward(r, used.moves) BY <1>1, BrokenGoes
  <2> HIDE DEF r
  <2>3. TaskOK(r, used.moves) /\ r.pc # "dial" BY <2>2 DEF TaskOK, Onward
  <2>4. /\ task' = [x \in Tasks |-> task'[x]] /\ \A x \in Tasks : TaskOK(task'[x], used.moves)
        /\ task'[t] = r /\ \A x \in Tasks \ {t} : task'[x] = task[x]
    BY <2>1, <2>3, OneTask DEF ClusterInv
  <2>5. /\ slots' \in [Nodes -> SlotType(used.moves)]
        /\ \A n \in Nodes : /\ slots'[n].holder = slots[n].holder
                            /\ slots'[n].conn = IF n = c.node /\ slots[n].conn = c.at THEN 0 ELSE slots[n].conn
    <3>1. slots \in [Nodes -> SlotType(used.moves)] /\ used.moves \in Nat
      BY DEF ClusterInv, ClusterShape, SlotType
    <3> DEFINE n == c.node
               gone == [slots[n] EXCEPT !.conn = IF @ = c.at THEN 0 ELSE @]
    <3>2. slots' = [slots EXCEPT ![n] = gone] BY <1>3
    <3>3. CASE n \in Nodes
      <4>1. /\ gone \in SlotType(used.moves) /\ gone.holder = slots[n].holder
            /\ gone.conn = IF slots[n].conn = c.at THEN 0 ELSE slots[n].conn
        <5> HIDE DEF n, c
        <5> QED BY <3>1, <3>3 DEF SlotType
      <4> HIDE DEF gone, n
      <4> QED BY <3>1, <3>2, <3>3, <4>1 DEF n
    <3>4. CASE n \notin Nodes
      <4>1. slots' = slots
        <5> HIDE DEF n, gone
        <5> QED BY <3>1, <3>2, <3>4
      <4> QED BY <3>1, <3>4, <4>1
    <3> QED BY <3>3, <3>4
  <2>6. ClusterShape' BY <2>1, <2>4, <2>5, SameUsed, ShapeAfter DEF ClusterInv, ClusterShape, SlotType
  <2>7. DialsWhenEmpty' BY <2>5 DEF ClusterInv, DialsWhenEmpty
  <2>8. ASSUME NEW n \in Nodes PROVE Balanced(n)'
    <3>1. Abandoned(n)' \subseteq Abandoned(n) BY <2>3, <2>4, <2>5 DEF Abandoned
    <3>2. world.at[n] # 0 => (slots'[n].conn = world.at[n] <=> slots[n].conn = world.at[n])
      BY <1>3, <2>5 DEF Reached
    <3> QED BY <3>1, <3>2, NodeKept
  <2> QED BY <2>6, <2>7, <2>8 DEF ClusterInv
<1> QED BY <1>2, <1>3 DEF NoAnswer

LEMMA AskStep ==
  ASSUME ClusterInv, NEW t \in Tasks, Ask(t)
  PROVE  ClusterInv'
<1> DEFINE c == task[t]
           r == [c EXCEPT !.got = {decode_metadata}, !.node = NoNode, !.at = 0, !.then = "send",
                          !.pc = IF @ = "ask_all" THEN "store" ELSE "merge"]
<1>1. UNCHANGED <<world, snapshot, addresses, sockets>> BY DEF Ask
<1>2. CASE UNCHANGED <<slots, used>> /\ Goto(t, r)
  <2>1. IsView(decode_metadata, used.moves) BY DecodedView DEF ClusterInv
  <2>2. Sane(c, used.moves) BY TaskSane
  <2> HIDE DEF c
  <2>3. Sane(r, used.moves) /\ r.got = {decode_metadata} /\ r.pc # "dial" BY <2>2 DEF Sane, Fields, Thens
  <2> HIDE DEF r
  <2>4. TaskOK(r, used.moves) BY <2>1, <2>3 DEF TaskOK
  <2> QED BY <1>1, <1>2, <2>3, <2>4, SameUsed, Idles
<1> QED BY <1>1, <1>2, UnansweredStep DEF Ask

LEMMA MergeStep ==
  ASSUME ClusterInv, NEW t \in Tasks, Merge(t)
  PROVE  ClusterInv'
<1> DEFINE c == task[t]
           r == [c EXCEPT !.got = {with_topics_merged(snapshot, Sole(@))}, !.pc = "store"]
           v == with_topics_merged(snapshot, Sole(c.got))
<1>1. UNCHANGED <<world, snapshot, addresses, slots, sockets>> /\ UNCHANGED used /\ Goto(t, r)
  BY DEF Merge, shared
<1>2. Sane(c, used.moves) BY TaskSane
<1>3. IsView(v, used.moves) BY DEF ClusterInv, ClusterShape, with_topics_merged, IsView
<1>4. Sane(r, used.moves) /\ r.got = {v} /\ r.pc = "store" BY <1>2 DEF Sane, Fields
<1> HIDE DEF r, v
<1>5. TaskOK(r, used.moves) BY <1>3, <1>4 DEF TaskOK
<1> QED BY <1>1, <1>4, <1>5, SameUsed, Idles

LEMMA FindStep ==
  ASSUME ClusterInv, NEW t \in Tasks, Find(t)
  PROVE  ClusterInv'
<1> DEFINE c == task[t]
           moved == [c EXCEPT !.finds = 1, !.result = "moved"]
           r == [c EXCEPT !.finds = 1, !.at = 0, !.then = "send", !.node = world.coordinator, !.pc = "found"]
<1>1. UNCHANGED <<world, snapshot, addresses, sockets>> BY DEF Find
<1>2. CASE /\ UNCHANGED <<slots, used>>
           /\ \/ Goto(t, r) \/ Goto(t, Again([moved EXCEPT !.reasks = @ + 1])) \/ Goto(t, Done(moved))
  <2>1. Sane(c, used.moves) BY TaskSane
  <2> HIDE DEF c
  <2>2. Onward(r, used.moves) BY <2>1 DEF Onward, Sane, Fields, Thens
  <2> HIDE DEF r
  <2> QED BY <1>1, <1>2, <2>2, AgainGoes, DoneGoes, SameUsed, Elsewhere
<1>3. CASE NoAnswer(t) BY <1>1, <1>3, UnansweredStep
<1> QED BY <1>2, <1>3 DEF Find

LEMMA FoundStep ==
  ASSUME ClusterInv, NEW t \in Tasks, Found(t)
  PROVE  ClusterInv'
<1>1. Onward([task[t] EXCEPT !.pc = "get"], used.moves) BY TaskSane DEF Onward, Sane, Fields
<1> QED BY <1>1, SameUsed, Elsewhere DEF Found

LEMMA SentStep ==
  ASSUME ClusterInv, NEW t \in Tasks, Send(t)
  PROVE  ClusterInv'
<1> DEFINE c == task[t]
           again == [c EXCEPT !.reasks = @ + 1, !.attempt = 1]
<1>1. UNCHANGED <<world, snapshot, addresses, sockets>> BY DEF Send
<1>2. CASE /\ UNCHANGED <<slots, used>>
           /\ \/ \E x : Goto(t, Done(x))
              \/ Goto(t, Again(again)) \/ Goto(t, refresh(again, "ask_all", "resolve"))
  <2>1. Sane(c, used.moves) /\ Known(addresses, used.moves) BY TaskSane DEF ClusterInv, ClusterShape
  <2> HIDE DEF c
  <2>2. Sane(again, used.moves) BY <2>1 DEF Sane, Fields
  <2> HIDE DEF again
  <2>3. Onward(refresh(again, "ask_all", "resolve"), used.moves) BY <2>1, <2>2, RefreshGoes DEF Thens, Nexts
  <2> QED BY <1>1, <1>2, <2>3, AgainGoes, DoneGoes, SameUsed, Elsewhere
<1>3. CASE NoAnswer(t) BY <1>1, <1>3, UnansweredStep
<1> QED BY <1>2, <1>3 DEF Send

LEMMA TickStep ==
  ASSUME ClusterInv, Tick
  PROVE  ClusterInv'
<1>1. Onward(refresh(Idle, "ask_all", "idle"), used.moves) /\ Background \in Tasks
  BY IdleSane, RefreshGoes DEF ClusterInv, ClusterShape, Thens, Nexts, Tasks
<1> QED BY <1>1, SameUsed, Elsewhere DEF Tick, shared

-----------------------------------------------------------------------------
(* The steps on the pool.                                                  *)

(* A slot that is dropped: its connection, or the dial for it, is still    *)
(* there, and is accounted for.                                            *)
LEMMA NodeDropped ==
  ASSUME ClusterInv, NEW n \in Nodes, world' = world, slots'[n] = FreshSlot,
         sockets'[n].open = sockets[n].open, sockets'[n].dropped = sockets[n].dropped + 1,
         \A x \in Tasks : task'[x].pc = "dial" => task'[x] = task[x]
  PROVE  Balanced(n)'
<1>1. CASE world.at[n] = 0 BY <1>1 DEF Balanced, ClusterInv
<1>2. CASE world.at[n] # 0
  <2> DEFINE A == Abandoned(n)
             B == Abandoned(n)'
  <2>1. /\ IsFiniteSet(A) /\ Cardinality(A) \in Nat /\ Cardinality(B) \in Nat
    BY AbandonedFinite, FS_CardinalityType, TasksFinite, FS_Subset DEF Abandoned
  <2>2. sockets[n].open \in Int /\ sockets[n].dropped \in Nat BY DEF ClusterInv, ClusterShape
  <2>3. slots'[n].conn = 0 BY DEF FreshSlot
  <2>4. CASE \E h : slots[n].holder = {h}
    <3>1. PICK h : slots[n].holder = {h} BY <2>4
    <3>2. B \subseteq A \cup {h} BY <3>1 DEF Abandoned
    <3> HIDE DEF A, B
    <3>3. IsFiniteSet(A \cup {h}) /\ Cardinality(A \cup {h}) <= Cardinality(A) + 1
      <4>1. /\ IsFiniteSet(A \cup {h})
            /\ Cardinality(A \cup {h}) = IF h \in A THEN Cardinality(A) ELSE Cardinality(A) + 1
        BY <2>1, FS_AddElement, Zenon
      <4> QED BY <2>1, <4>1
    <3>4. Cardinality(B) <= Cardinality(A \cup {h}) BY <3>2, <3>3, FS_Subset
    <3>5. Cardinality(A \cup {h}) \in Nat BY <3>3, FS_CardinalityType
    <3>6. slots[n].conn = 0 BY <3>1 DEF ClusterInv, DialsWhenEmpty
    <3>7. Cardinality(B) <= Cardinality(A) + 1 BY <2>1, <3>3, <3>4, <3>5
    <3>8. sockets[n].open + Cardinality(A) <= sockets[n].dropped
      BY <1>2, <2>1, <2>2, <3>6 DEF A, Balanced, ClusterInv
    <3>9. sockets'[n].open + Cardinality(B) <= sockets'[n].dropped BY <2>1, <2>2, <3>7, <3>8
    <3> QED BY <1>2, <2>1, <2>2, <2>3, <3>9 DEF B, Balanced
  <2>5. CASE ~ \E h : slots[n].holder = {h}
    <3>1. B \subseteq A BY <2>5 DEF Abandoned
    <3>2. Cardinality(B) <= Cardinality(A) BY <2>1, <3>1, FS_Subset
    <3> HIDE DEF A, B
    <3>3. sockets[n].open + Cardinality(A) <= sockets[n].dropped + 1
      BY <1>2, <2>1, <2>2 DEF A, Balanced, ClusterInv
    <3>4. sockets'[n].open + Cardinality(B) <= sockets'[n].dropped BY <2>1, <2>2, <3>2, <3>3
    <3> QED BY <1>2, <2>1, <2>2, <2>3, <3>4 DEF B, Balanced
  <2> QED BY <2>4, <2>5
<1> QED BY <1>1, <1>2

(* install: a new set of addresses, with the slots of the nodes it lacks.  *)
LEMMA Learnt ==
  ASSUME ClusterInv, NEW v, IsView(v, used.moves), install(v), UNCHANGED world,
         DOMAIN used' = {"moves", "lost"}, used'.moves = used.moves,
         task' = [x \in Tasks |-> task'[x]], \A x \in Tasks : TaskOK(task'[x], used.moves),
         \A x \in Tasks : task'[x].pc = "dial" => task'[x] = task[x]
  PROVE  ClusterInv'
<1> DEFINE fresh == v.brokers
           gone == Nodes \ DOMAIN fresh
<1>1. /\ Known(addresses', used.moves)
      /\ slots' \in [Nodes -> [conn : 0..(1 + used.moves), backoff : BOOLEAN, holder : SUBSET Tasks]]
      /\ sockets' \in [Nodes -> [open : Int, dropped : Nat]]
      /\ \A n \in Nodes :
           \/ slots'[n] = slots[n] /\ sockets'[n] = sockets[n]
           \/ /\ slots'[n] = FreshSlot
              /\ sockets'[n].open = sockets[n].open /\ sockets'[n].dropped = sockets[n].dropped + 1
  <2>1. CASE fresh = <<>> BY <2>1 DEF install, learn_addresses, ClusterInv, ClusterShape
  <2>2. CASE fresh # <<>>
    <3>1. /\ addresses' = fresh
          /\ slots' = [n \in Nodes |-> IF n \in gone THEN FreshSlot ELSE slots[n]]
          /\ sockets' = [n \in Nodes |->
               IF n \in gone /\ slots[n] # FreshSlot THEN [sockets[n] EXCEPT !.dropped = @ + 1]
               ELSE sockets[n]]
      BY <2>2 DEF install, learn_addresses
    <3>2. FreshSlot \in [conn : 0..(1 + used.moves), backoff : BOOLEAN, holder : SUBSET Tasks]
      BY DEF FreshSlot, ClusterInv, ClusterShape
    <3>3. Known(addresses', used.moves) BY <3>1 DEF IsView, Known
    <3>4. \A n \in Nodes : sockets[n] \in [open : Int, dropped : Nat] BY DEF ClusterInv, ClusterShape
    <3>5. sockets' \in [Nodes -> [open : Int, dropped : Nat]] BY <3>1, <3>4
    <3>6. slots' \in [Nodes -> [conn : 0..(1 + used.moves), backoff : BOOLEAN, holder : SUBSET Tasks]]
      BY <3>1, <3>2 DEF ClusterInv, ClusterShape
    <3> QED BY <3>1, <3>3, <3>4, <3>5, <3>6
  <2> QED BY <2>1, <2>2
<1>2. snapshot' = v BY DEF install
<1>3. ClusterShape' BY <1>1, <1>2, ShapeAfter DEF ClusterInv, ClusterShape
<1>4. DialsWhenEmpty' BY <1>1 DEF ClusterInv, DialsWhenEmpty, FreshSlot
<1>5. ASSUME NEW n \in Nodes PROVE Balanced(n)'
  <2>1. CASE slots'[n] = slots[n] /\ sockets'[n] = sockets[n]
    <3>1. Abandoned(n)' \subseteq Abandoned(n) BY <2>1 DEF Abandoned
    <3> QED BY <2>1, <3>1, NodeKept
  <2>2. CASE /\ slots'[n] = FreshSlot
             /\ sockets'[n].open = sockets[n].open /\ sockets'[n].dropped = sockets[n].dropped + 1
    BY <2>2, NodeDropped
  <2> QED BY <1>1, <2>1, <2>2
<1> QED BY <1>3, <1>4, <1>5 DEF ClusterInv

LEMMA StoreStep ==
  ASSUME ClusterInv, NEW t \in Tasks, Store(t)
  PROVE  ClusterInv'
<1> DEFINE c == task[t]
           r == IF c.next = "resolved" THEN Resolved(c) ELSE GoOn(c)
<1>1. install(Sole(c.got)) /\ Goto(t, r) /\ UNCHANGED world /\ UNCHANGED used /\ c.pc = "store"
  BY DEF Store, At
<1>2. Sane(c, used.moves) BY TaskSane
<1>3. IsView(Sole(c.got), used.moves)
  <2>1. PICK s \in c.got : c.got = {s} /\ IsView(s, used.moves) BY <1>1 DEF ClusterInv, ClusterShape, TaskOK
  <2>2. Sole({s}) = s BY DEF Sole
  <2> QED BY <2>1, <2>2
<1> HIDE DEF c
<1>4. Onward(Resolved(c), used.moves)
  <2>1. PICK n : \/ Resolved(c) = [c EXCEPT !.node = n, !.next = "idle", !.got = {}, !.pc = "get"]
                 \/ Resolved(c) = [c EXCEPT !.next = "idle", !.got = {}, !.pc = "failed"]
    BY Zenon DEF Resolved
  <2>2. /\ Onward([c EXCEPT !.node = n, !.next = "idle", !.got = {}, !.pc = "get"], used.moves)
        /\ Onward([c EXCEPT !.next = "idle", !.got = {}, !.pc = "failed"], used.moves)
    BY <1>2 DEF Onward, Sane, Fields, Nexts
  <2> QED BY <2>1, <2>2
<1>5. TaskOK(r, used.moves) /\ r.pc # "dial" BY <1>4, GoOnGoes DEF TaskOK, Onward
<1> HIDE DEF r
<1>6. /\ task' = [x \in Tasks |-> task'[x]] /\ \A x \in Tasks : TaskOK(task'[x], used.moves)
      /\ task'[t] = r /\ \A x \in Tasks \ {t} : task'[x] = task[x]
  BY <1>1, <1>5, OneTask DEF ClusterInv
<1>7. \A x \in Tasks : task'[x].pc = "dial" => task'[x] = task[x] BY <1>5, <1>6
<1> QED BY <1>1, <1>3, <1>6, <1>7, SameUsed, Learnt

LEMMA InvalidateStep ==
  ASSUME ClusterInv, invalidate
  PROVE  ClusterInv'
<1>1. install(Empty) /\ UNCHANGED <<world, task>> /\ Use("lost", MaxLost) BY DEF invalidate
<1>2. IsView(Empty, used.moves) BY DEF IsView, Known, Empty
<1>3. DOMAIN used' = {"moves", "lost"} /\ used'.moves = used.moves BY <1>1, UseLost DEF ClusterInv
<1>4. task' = [x \in Tasks |-> task'[x]] /\ \A x \in Tasks : TaskOK(task'[x], used.moves)
  BY <1>1 DEF ClusterInv, ClusterShape
<1> QED BY <1>1, <1>2, <1>3, <1>4, Learnt

SameDials == \A x \in Tasks : task'[x].pc = task[x].pc /\ task'[x].node = task[x].node /\ task'[x].got = task[x].got

LEMMA SameTasks ==
  ASSUME ClusterInv, UNCHANGED task
  PROVE  task' = [x \in Tasks |-> task'[x]] /\ (\A x \in Tasks : TaskOK(task'[x], used.moves)) /\ SameDials
BY DEF ClusterInv, ClusterShape, SameDials

(* One slot changes, and nothing it is accountable for.                    *)
LEMMA OneSlot ==
  ASSUME ClusterInv, NEW n \in Nodes, NEW s \in SlotType(used.moves), slots' = [slots EXCEPT ![n] = s],
         UNCHANGED <<world, snapshot, addresses>>,
         task' = [x \in Tasks |-> task'[x]], \A x \in Tasks : TaskOK(task'[x], used.moves), SameDials,
         DOMAIN used' = {"moves", "lost"}, used'.moves = used.moves,
         sockets' \in [Nodes -> [open : Int, dropped : Nat]],
         \A x \in Nodes \ {n} : sockets'[x] = sockets[x],
         s.holder # {} => s.conn = 0,
         s.holder = slots[n].holder, Balanced(n)'
  PROVE  ClusterInv'
<1>1. slots' \in [Nodes -> SlotType(used.moves)] BY DEF ClusterInv, ClusterShape, SlotType
<1>2. ClusterShape' BY <1>1, ShapeAfter DEF ClusterInv, ClusterShape, SlotType
<1>3. slots'[n] = s /\ \A x \in Nodes \ {n} : slots'[x] = slots[x] BY DEF ClusterInv, ClusterShape
<1>4. DialsWhenEmpty' BY <1>3 DEF ClusterInv, DialsWhenEmpty
<1>5. ASSUME NEW x \in Nodes \ {n} PROVE Balanced(x)'
  <2>1. Abandoned(x)' \subseteq Abandoned(x) BY <1>3 DEF Abandoned, SameDials
  <2> QED BY <1>3, <2>1, NodeKept
<1> QED BY <1>2, <1>4, <1>5 DEF ClusterInv

LEMMA SlotTyped ==
  ASSUME ClusterInv, NEW n \in Nodes
  PROVE  /\ slots[n] \in SlotType(used.moves) /\ sockets[n] \in [open : Int, dropped : Nat]
         /\ world.at[n] \in 0..(1 + used.moves) /\ used.moves \in Nat
         /\ DOMAIN slots = Nodes /\ DOMAIN sockets = Nodes
BY DEF ClusterInv, ClusterShape, SlotType

LEMMA BackoffStep ==
  ASSUME ClusterInv, NEW n \in Nodes, BackoffEnds(n)
  PROVE  ClusterInv'
<1> DEFINE s == [slots[n] EXCEPT !.backoff = FALSE]
<1>1. /\ slots' = [slots EXCEPT ![n] = s]
      /\ UNCHANGED <<world, snapshot, addresses, task>> /\ UNCHANGED used /\ UNCHANGED sockets
  BY SlotTyped DEF BackoffEnds
<1>2. s \in SlotType(used.moves) /\ s.conn = slots[n].conn /\ s.holder = slots[n].holder
  BY SlotTyped DEF SlotType
<1> HIDE DEF s
<1>3. slots'[n] = s BY <1>1, SlotTyped
<1>4. Abandoned(n)' \subseteq Abandoned(n) BY <1>1, <1>2, <1>3 DEF Abandoned
<1>5. Balanced(n)' BY <1>1, <1>2, <1>3, <1>4, NodeKept
<1>6. sockets' \in [Nodes -> [open : Int, dropped : Nat]] /\ (s.holder # {} => s.conn = 0)
  BY <1>1, <1>2 DEF ClusterInv, ClusterShape, DialsWhenEmpty
<1> QED BY <1>1, <1>2, <1>5, <1>6, SameUsed, SameTasks, OneSlot

LEMMA ClosesStep ==
  ASSUME ClusterInv, NEW n \in Nodes, ConnectionCloses(n)
  PROVE  ClusterInv'
<1> DEFINE s == [slots[n] EXCEPT !.conn = 0]
<1>1. /\ slots' = [slots EXCEPT ![n] = s] /\ slots[n].conn # world.at[n]
      /\ UNCHANGED <<world, snapshot, addresses, task>> /\ UNCHANGED used /\ UNCHANGED sockets
  BY SlotTyped DEF ConnectionCloses
<1>2. s \in SlotType(used.moves) /\ s.conn = 0 /\ s.holder = slots[n].holder BY SlotTyped DEF SlotType
<1> HIDE DEF s
<1>3. slots'[n] = s BY <1>1, SlotTyped
<1>4. Abandoned(n)' \subseteq Abandoned(n) BY <1>1, <1>2, <1>3 DEF Abandoned
<1>5. Balanced(n)' BY <1>1, <1>2, <1>3, <1>4, NodeKept
<1>6. sockets' \in [Nodes -> [open : Int, dropped : Nat]] BY <1>1 DEF ClusterInv, ClusterShape
<1> QED BY <1>1, <1>2, <1>5, <1>6, SameUsed, SameTasks, OneSlot

(* An eviction closes the socket it takes from the slot.                   *)
LEMMA EvictStep ==
  ASSUME ClusterInv, NEW n \in Nodes, evict(n)
  PROVE  ClusterInv'
<1> DEFINE s == [slots[n] EXCEPT !.conn = 0]
<1>1. /\ slots' = [slots EXCEPT ![n] = s] /\ slots[n].conn # 0
      /\ UNCHANGED <<world, snapshot, addresses>>
      /\ sockets' = [sockets EXCEPT ![n].open = IF slots[n].conn = world.at[n] THEN @ - 1 ELSE @]
  BY SlotTyped DEF evict
<1>2. s \in SlotType(used.moves) /\ s.conn = 0 /\ s.holder = slots[n].holder BY SlotTyped DEF SlotType
<1> HIDE DEF s
<1>3. slots'[n] = s BY <1>1, SlotTyped
<1>8. task' = [x \in Tasks |-> task'[x]] /\ (\A x \in Tasks : TaskOK(task'[x], used.moves)) /\ SameDials
  <2>1. ASSUME NEW x \in Tasks
        PROVE  task'[x] = task[x] \/ \E calm : task'[x] = [task[x] EXCEPT !.at = 0, !.calm = calm]
    BY DEF evict
  <2>2. ASSUME NEW x \in Tasks, NEW calm
        PROVE  LET r == [task[x] EXCEPT !.at = 0, !.calm = calm]
               IN Sane(r, used.moves) /\ r.pc = task[x].pc /\ r.node = task[x].node /\ r.got = task[x].got
    BY TaskSane DEF Sane, Fields
  <2>3. ASSUME NEW x \in Tasks
        PROVE  /\ task'[x].pc = task[x].pc /\ task'[x].node = task[x].node /\ task'[x].got = task[x].got
               /\ Sane(task'[x], used.moves)
    <3>1. CASE task'[x] = task[x] BY <3>1, TaskSane
    <3>2. CASE \E calm : task'[x] = [task[x] EXCEPT !.at = 0, !.calm = calm] BY <2>2, <3>2
    <3> QED BY <2>1, <3>1, <3>2
  <2>4. \A x \in Tasks : TaskOK(task[x], used.moves) BY DEF ClusterInv, ClusterShape
  <2> HIDE DEF ClusterInv
  <2>5. \A x \in Tasks : TaskOK(task'[x], used.moves) BY <2>3, <2>4 DEF TaskOK
  <2> QED BY <2>3, <2>5 DEF SameDials, evict
<1>4. Abandoned(n)' \subseteq Abandoned(n) BY <1>1, <1>2, <1>3, <1>8 DEF Abandoned, SameDials
<1>5. /\ sockets' \in [Nodes -> [open : Int, dropped : Nat]]
      /\ \A x \in Nodes \ {n} : sockets'[x] = sockets[x]
      /\ sockets'[n].dropped = sockets[n].dropped
      /\ sockets'[n].open = IF slots[n].conn = world.at[n] THEN sockets[n].open - 1 ELSE sockets[n].open
  BY <1>1, SlotTyped DEF ClusterInv, ClusterShape
<1>6. Balanced(n)'
  <2>1. CASE slots[n].conn # world.at[n] BY <1>1, <1>2, <1>3, <1>4, <1>5, <2>1, NodeKept
  <2>2. CASE slots[n].conn = world.at[n]
    <3>1. /\ Cardinality(Abandoned(n)') \in Nat /\ Cardinality(Abandoned(n)) \in Nat
          /\ Cardinality(Abandoned(n)') <= Cardinality(Abandoned(n))
      BY <1>4, AbandonedFinite, FS_Subset, FS_CardinalityType
    <3>2. sockets[n].open + Cardinality(Abandoned(n)) <= sockets[n].dropped + 1
      BY <1>1, <2>2 DEF Balanced, ClusterInv
    <3> QED BY <1>1, <1>2, <1>3, <1>5, <2>2, <3>1, <3>2, SlotTyped DEF Balanced
  <2> QED BY <2>1, <2>2
<1>7. DOMAIN used' = {"moves", "lost"} /\ used'.moves = used.moves BY UseLost DEF evict, ClusterInv
<1> QED BY <1>1, <1>2, <1>5, <1>6, <1>7, <1>8, OneSlot

(* A task takes the slot's mutex, and dials.                               *)
LEMMA ConnectStep ==
  ASSUME ClusterInv, NEW t \in Tasks, NEW c, Sane(c, used.moves), NEW n \in Nodes,
         NEW address \in 1..(1 + used.moves), NEW refused, Onward(refused, used.moves),
         Connect(t, c, n, address, refused), UNCHANGED <<world, snapshot, addresses, sockets>>, UNCHANGED used
  PROVE  ClusterInv'
<1>1. CASE UNCHANGED slots /\ Goto(t, [c EXCEPT !.node = n, !.at = slots[n].conn, !.known = <<>>, !.pc = c.then])
  <2> DEFINE r == [c EXCEPT !.node = n, !.at = slots[n].conn, !.known = <<>>, !.pc = c.then]
  <2>1. DOMAIN r = Fields /\ r.next = c.next /\ r.then = c.then /\ r.known = <<>> /\ r.pc = c.then
    BY DEF Sane, Fields
  <2>2. Goto(t, r) BY <1>1
  <2> HIDE DEF r
  <2>3. Onward(r, used.moves) BY <2>1, NoneKnown DEF Onward, Sane, Thens
  <2> QED BY <1>1, <2>2, <2>3, SameUsed, Elsewhere
<1>2. CASE UNCHANGED slots /\ Goto(t, refused) BY <1>2, SameUsed, Elsewhere
<1>3. CASE /\ ~Locked(n) /\ slots[n].conn = 0 /\ slots' = [slots EXCEPT ![n].holder = {t}]
           /\ Goto(t, [c EXCEPT !.node = n, !.got = {address}, !.pc = "dial"])
  <2> DEFINE r == [c EXCEPT !.node = n, !.got = {address}, !.pc = "dial"]
  <2>1. Goto(t, r) BY <1>3
  <2>2. Sane(r, used.moves) /\ r.pc = "dial" /\ r.node = n /\ r.got = {address} BY DEF Sane, Fields
  <2> HIDE DEF r
  <2>3. TaskOK(r, used.moves) BY <2>2 DEF TaskOK
  <2>4. /\ task' = [x \in Tasks |-> task'[x]] /\ \A x \in Tasks : TaskOK(task'[x], used.moves)
        /\ task'[t] = r /\ \A x \in Tasks \ {t} : task'[x] = task[x]
    BY <2>1, <2>3, OneTask DEF ClusterInv
  <2>5. /\ slots' \in [Nodes -> SlotType(used.moves)]
        /\ slots'[n].holder = {t} /\ slots'[n].conn = 0
        /\ \A m \in Nodes \ {n} : slots'[m] = slots[m]
    <3>1. slots \in [Nodes -> SlotType(used.moves)] BY DEF ClusterInv, ClusterShape, SlotType
    <3> QED BY <1>3, <3>1 DEF SlotType
  <2>6. ClusterShape' BY <2>4, <2>5, SameUsed, ShapeAfter DEF ClusterInv, ClusterShape, SlotType
  <2>7. DialsWhenEmpty' BY <2>5 DEF ClusterInv, DialsWhenEmpty
  <2>8. ASSUME NEW m \in Nodes PROVE Balanced(m)'
    <3>1. slots'[m].conn = slots[m].conn BY <1>3, <2>5
    <3>2. Abandoned(m)' \subseteq Abandoned(m)
      <4>1. CASE m = n BY <1>3, <2>4, <2>5, <4>1 DEF Abandoned, Locked
      <4>2. CASE m # n BY <2>2, <2>4, <2>5, <4>2 DEF Abandoned
      <4> QED BY <4>1, <4>2
    <3> QED BY <3>1, <3>2, NodeKept
  <2> QED BY <2>6, <2>7, <2>8 DEF ClusterInv
<1> QED BY <1>1, <1>2, <1>3 DEF Connect

LEMMA GetStep ==
  ASSUME ClusterInv, NEW t \in Tasks, Get(t)
  PROVE  ClusterInv'
<1> DEFINE c == [task[t] EXCEPT !.calm = IF @ = "calm" /\ OutOfReach(task[t]) THEN "out" ELSE @]
           n == c.node
<1>1. UNCHANGED <<world, snapshot, addresses, sockets>> /\ UNCHANGED used BY DEF Get
<1>2. Sane(c, used.moves) /\ Known(addresses, used.moves) BY TaskSane, CalmSane DEF ClusterInv, ClusterShape
<1>3. \/ Goto(t, OnError(c, "stale")) /\ UNCHANGED slots
      \/ n \in DOMAIN addresses /\ Connect(t, c, n, addresses[n], [OnError(c, "closed") EXCEPT !.calm = "no"])
  BY Zenon DEF Get
<1> HIDE DEF c, n
<1>4. Onward(OnError(c, "stale"), used.moves) /\ Onward([OnError(c, "closed") EXCEPT !.calm = "no"], used.moves)
  BY <1>2, ErrorGoes, CalmGoes
<1>5. CASE Goto(t, OnError(c, "stale")) /\ UNCHANGED slots BY <1>1, <1>4, <1>5, SameUsed, Elsewhere
<1>6. CASE n \in DOMAIN addresses /\ Connect(t, c, n, addresses[n], [OnError(c, "closed") EXCEPT !.calm = "no"])
  <2>1. n \in Nodes /\ addresses[n] \in 1..(1 + used.moves) BY <1>2, <1>6 DEF Known
  <2> QED BY <1>1, <1>2, <1>4, <1>6, <2>1, ConnectStep
<1> QED BY <1>3, <1>5, <1>6

(* any() puts a node aside and goes on with the others.                    *)
LEMMA WithoutGoes ==
  ASSUME NEW c, NEW m, Sane(c, m), NEW n
  PROVE  Onward(Without(c, n), m)
<1> DEFINE left == [x \in DOMAIN c.known \ {n} |-> c.known[x]]
           r == [c EXCEPT !.node = NoNode, !.got = {}, !.known = left, !.pc = "any"]
<1>1. Known(left, m) BY DEF Sane, Known
<1> HIDE DEF left
<1>2. DOMAIN r = Fields /\ r.next = c.next /\ r.then = c.then /\ r.known = left /\ r.pc = "any"
  BY DEF Sane, Fields
<1>3. Without(c, n) = r BY Zenon DEF Without, left
<1> QED BY <1>1, <1>2, <1>3 DEF Onward, Sane

LEMMA ReachStep ==
  ASSUME ClusterInv, NEW t \in Tasks, Reach(t)
  PROVE  ClusterInv'
<1> DEFINE c == task[t]
           calm == IF c.calm = "calm" /\ ~InTouch THEN "out" ELSE c.calm
<1>1. UNCHANGED <<world, snapshot, addresses, sockets>> /\ UNCHANGED used BY DEF Reach
<1>2. Sane(c, used.moves) /\ Known(addresses, used.moves) BY TaskSane DEF ClusterInv, ClusterShape
<1>3. \/ \E n \in DOMAIN c.known : Connect(t, c, n, c.known[n], Without(c, n))
      \/ UNCHANGED slots /\ \E n : Goto(t, [c EXCEPT !.node = n, !.at = 1, !.pc = c.then])
      \/ UNCHANGED slots /\ Goto(t, Broken([c EXCEPT !.calm = calm], "closed"))
  BY Zenon DEF Reach
<1> HIDE DEF c, calm
<1>4. CASE \E n \in DOMAIN c.known : Connect(t, c, n, c.known[n], Without(c, n))
  <2>1. PICK n \in DOMAIN c.known : Connect(t, c, n, c.known[n], Without(c, n)) BY <1>4
  <2>2. n \in Nodes /\ c.known[n] \in 1..(1 + used.moves) BY <1>2 DEF Sane, Known
  <2> QED BY <1>1, <1>2, <2>1, <2>2, WithoutGoes, ConnectStep
<1>5. CASE UNCHANGED slots /\ \E n : Goto(t, [c EXCEPT !.node = n, !.at = 1, !.pc = c.then])
  <2>1. PICK n : Goto(t, [c EXCEPT !.node = n, !.at = 1, !.pc = c.then]) BY <1>5
  <2> DEFINE r == [c EXCEPT !.node = n, !.at = 1, !.pc = c.then]
  <2>2. DOMAIN r = Fields /\ r.next = c.next /\ r.then = c.then /\ r.known = c.known /\ r.pc = c.then
    BY <1>2 DEF Sane, Fields
  <2>3. Goto(t, r) BY <2>1
  <2> HIDE DEF r
  <2>4. Onward(r, used.moves) BY <1>2, <2>2 DEF Onward, Sane, Thens
  <2> QED BY <1>1, <1>5, <2>3, <2>4, SameUsed, Elsewhere
<1>6. CASE UNCHANGED slots /\ Goto(t, Broken([c EXCEPT !.calm = calm], "closed"))
  <2>1. Onward(Broken([c EXCEPT !.calm = calm], "closed"), used.moves) BY <1>2, CalmSane, BrokenGoes
  <2> QED BY <1>1, <1>6, <2>1, SameUsed, Elsewhere
<1> QED BY <1>3, <1>4, <1>5, <1>6

(* A dial ends: it opens a socket, for its slot or as an abandoned one.    *)
LEMMA DialStep ==
  ASSUME ClusterInv, NEW t \in Tasks, Dial(t)
  PROVE  ClusterInv'
<1> DEFINE c == task[t]
<1>0. PICK n : n = c.node OBVIOUS
<1> DEFINE good == [conn |-> world.at[n], backoff |-> FALSE, holder |-> {}]
           bad == [conn |-> 0, backoff |-> TRUE, holder |-> {}]
<1>1. UNCHANGED <<world, snapshot, addresses>> /\ UNCHANGED used /\ c.pc = "dial" BY DEF Dial, At
<1>2. Sane(c, used.moves) /\ n \in Nodes /\ Known(addresses, used.moves)
  BY <1>0, <1>1, TaskSane DEF ClusterInv, ClusterShape, TaskOK
<1>3. PICK a \in 1..(1 + used.moves) : c.got = {a} BY <1>1 DEF ClusterInv, ClusterShape, TaskOK
<1>4. Sole(c.got) = a BY <1>3 DEF Sole
<1>5. /\ slots \in [Nodes -> SlotType(used.moves)] /\ used.moves \in Nat
      /\ sockets \in [Nodes -> [open : Int, dropped : Nat]]
      /\ good \in SlotType(used.moves) /\ bad \in SlotType(used.moves)
  <2>1. /\ slots \in [Nodes -> SlotType(used.moves)] /\ used.moves \in Nat
        /\ sockets \in [Nodes -> [open : Int, dropped : Nat]] /\ world.at[n] \in 0..(1 + used.moves)
    BY <1>2 DEF ClusterInv, ClusterShape, SlotType
  <2> QED BY <2>1 DEF SlotType
<1>6. CASE /\ a = world.at[n] /\ slots' = Dialled(n, t, good)
           /\ sockets' = [sockets EXCEPT ![n].open = @ + 1]
           /\ Goto(t, [c EXCEPT !.got = {}, !.at = world.at[n], !.known = <<>>, !.pc = c.then])
  <2> DEFINE r == [c EXCEPT !.got = {}, !.at = world.at[n], !.known = <<>>, !.pc = c.then]
  <2>1. Goto(t, r) BY <1>6
  <2>0. Sane(r, used.moves) /\ r.pc = c.then
    <3> HIDE DEF c
    <3> QED BY <1>2, NoneKnown DEF Sane, Fields
  <2> HIDE DEF r
  <2>2. r.pc \in Thens /\ r.pc # "dial" BY <1>2, <2>0 DEF Sane, Thens
  <2>3. TaskOK(r, used.moves) BY <2>0, <2>2 DEF TaskOK, Thens
  <2>4. /\ task' = [x \in Tasks |-> task'[x]] /\ \A x \in Tasks : TaskOK(task'[x], used.moves)
        /\ task'[t] = r /\ \A x \in Tasks \ {t} : task'[x] = task[x]
    BY <2>1, <2>3, OneTask DEF ClusterInv
  <2>5. /\ slots' \in [Nodes -> SlotType(used.moves)]
        /\ slots'[n] = IF slots[n].holder = {t} THEN good ELSE slots[n]
        /\ \A m \in Nodes \ {n} : slots'[m] = slots[m]
    <3> HIDE DEF good
    <3> QED BY <1>2, <1>5, <1>6 DEF Dialled
  <2>6. /\ sockets' \in [Nodes -> [open : Int, dropped : Nat]]
        /\ sockets'[n].open = sockets[n].open + 1 /\ sockets'[n].dropped = sockets[n].dropped
        /\ \A m \in Nodes \ {n} : sockets'[m] = sockets[m]
    <3> QED BY <1>2, <1>5, <1>6
  <2>7. ClusterShape' BY <1>1, <2>4, <2>5, <2>6, SameUsed, ShapeAfter DEF ClusterInv, ClusterShape, SlotType
  <2>8. DialsWhenEmpty' BY <2>5 DEF ClusterInv, DialsWhenEmpty
  <2>9. ASSUME NEW m \in Nodes \ {n} PROVE Balanced(m)'
    <3>1. Abandoned(m)' \subseteq Abandoned(m) BY <1>1, <2>2, <2>4, <2>5 DEF Abandoned
    <3> QED BY <1>1, <2>5, <2>6, <3>1, NodeKept
  <2>10. Balanced(n)'
    <3>1. world.at[n] # 0 /\ world'.at[n] = world.at[n] BY <1>1, <1>3, <1>6
    <3>2. /\ IsFiniteSet(Abandoned(n)) /\ Cardinality(Abandoned(n)) \in Nat
          /\ Cardinality(Abandoned(n)') \in Nat
      BY AbandonedFinite, TasksFinite, FS_Subset, FS_CardinalityType DEF Abandoned
    <3>3. /\ sockets[n].open \in Int /\ sockets[n].dropped \in Nat
          /\ sockets[n].open + Cardinality(Abandoned(n))
               <= sockets[n].dropped + (IF slots[n].conn = world.at[n] THEN 1 ELSE 0)
      BY <1>2, <1>5, <3>1 DEF ClusterInv, Balanced
    <3>4. CASE slots[n].holder = {t}
      <4>1. slots[n].conn = 0 /\ slots'[n].conn = world.at[n]
        BY <1>2, <2>5, <3>4 DEF ClusterInv, DialsWhenEmpty
      <4>2. Abandoned(n)' \subseteq Abandoned(n) BY <1>1, <2>2, <2>4, <3>4 DEF Abandoned
      <4>3. Cardinality(Abandoned(n)') <= Cardinality(Abandoned(n)) BY <3>2, <4>2, FS_Subset
      <4>4. sockets'[n].open + Cardinality(Abandoned(n)') <= sockets'[n].dropped + 1
        BY <2>6, <3>1, <3>2, <3>3, <4>1, <4>3
      <4> QED BY <3>1, <4>1, <4>4 DEF Balanced
    <3>5. CASE slots[n].holder # {t}
      <4>1. slots'[n] = slots[n] BY <2>5, <3>5
      <4>2. t \in Abandoned(n) BY <1>0, <1>1, <1>3, <1>6, <3>5 DEF Abandoned
      <4>3. Abandoned(n)' \subseteq Abandoned(n) \ {t} BY <1>1, <2>2, <2>4, <4>1 DEF Abandoned
      <4>4. /\ IsFiniteSet(Abandoned(n) \ {t})
            /\ Cardinality(Abandoned(n) \ {t}) = Cardinality(Abandoned(n)) - 1
        BY <3>2, <4>2, FS_RemoveElement
      <4>5. Cardinality(Abandoned(n)') <= Cardinality(Abandoned(n)) - 1 BY <4>3, <4>4, FS_Subset
      <4>6. sockets'[n].open + Cardinality(Abandoned(n)')
              <= sockets'[n].dropped + (IF slots'[n].conn = world'.at[n] THEN 1 ELSE 0)
        BY <2>6, <3>1, <3>2, <3>3, <4>1, <4>5
      <4> QED BY <3>1, <4>6 DEF Balanced
    <3> QED BY <3>4, <3>5
  <2> QED BY <2>7, <2>8, <2>9, <2>10 DEF ClusterInv
<1>7. CASE /\ a # world.at[n] /\ slots' = Dialled(n, t, bad) /\ UNCHANGED sockets
           /\ Goto(t, IF n \in DOMAIN c.known THEN Without(c, n) ELSE OnError(c, "closed"))
  <2> DEFINE r == IF n \in DOMAIN c.known THEN Without(c, n) ELSE OnError(c, "closed")
  <2>1. Goto(t, r) BY <1>7
  <2>0. Onward(r, used.moves)
    <3> HIDE DEF c
    <3> QED BY <1>2, WithoutGoes, ErrorGoes
  <2> HIDE DEF r
  <2>2. r.pc # "dial" BY <2>0 DEF Onward
  <2>3. TaskOK(r, used.moves) BY <2>0 DEF TaskOK, Onward
  <2>4. /\ task' = [x \in Tasks |-> task'[x]] /\ \A x \in Tasks : TaskOK(task'[x], used.moves)
        /\ task'[t] = r /\ \A x \in Tasks \ {t} : task'[x] = task[x]
    BY <2>1, <2>3, OneTask DEF ClusterInv
  <2>5. /\ slots' \in [Nodes -> SlotType(used.moves)]
        /\ slots'[n] = IF slots[n].holder = {t} THEN bad ELSE slots[n]
        /\ \A m \in Nodes \ {n} : slots'[m] = slots[m]
    <3> HIDE DEF bad
    <3> QED BY <1>2, <1>5, <1>7 DEF Dialled
  <2>6. ClusterShape'
    BY <1>1, <1>5, <1>7, <2>4, <2>5, SameUsed, ShapeAfter DEF ClusterInv, ClusterShape, SlotType
  <2>7. DialsWhenEmpty' BY <2>5 DEF ClusterInv, DialsWhenEmpty
  <2>8. ASSUME NEW m \in Nodes PROVE Balanced(m)'
    <3>1. Abandoned(m)' \subseteq Abandoned(m) BY <1>1, <2>2, <2>4, <2>5 DEF Abandoned
    <3>2. world.at[m] # 0 => (slots'[m].conn = world.at[m] <=> slots[m].conn = world.at[m])
      BY <2>5 DEF ClusterInv, DialsWhenEmpty
    <3> QED BY <1>1, <1>7, <3>1, <3>2, NodeKept
  <2> QED BY <2>6, <2>7, <2>8 DEF ClusterInv
<1> QED BY <1>0, <1>4, <1>6, <1>7 DEF Dial

-----------------------------------------------------------------------------
(* The cluster.                                                            *)

LEMMA DisturbedTasks ==
  ASSUME ClusterShape, task' = Disturbed(task)
  PROVE  /\ task' = [x \in Tasks |-> task'[x]] /\ \A x \in Tasks : TaskOK(task'[x], used.moves)
         /\ \A x \in Tasks : /\ task'[x].pc = task[x].pc /\ task'[x].node = task[x].node
                             /\ task'[x].got = task[x].got
<1>1. /\ task' = [x \in Tasks |-> task'[x]]
      /\ \A x \in Tasks : task'[x] = task[x] \/ task'[x] = [task[x] EXCEPT !.calm = "no"]
  BY DEF Disturbed
<1>2. \A x \in Tasks : Sane(task[x], used.moves) /\ TaskOK(task[x], used.moves) BY DEF ClusterShape, TaskOK
<1>3. ASSUME NEW x \in Tasks
      PROVE  /\ Sane(task'[x], used.moves) /\ task'[x].pc = task[x].pc /\ task'[x].node = task[x].node
             /\ task'[x].got = task[x].got
  <2>1. LET r == [task[x] EXCEPT !.calm = "no"]
        IN Sane(r, used.moves) /\ r.pc = task[x].pc /\ r.node = task[x].node /\ r.got = task[x].got
    BY <1>2 DEF Sane, Fields
  <2> QED BY <1>1, <1>2, <2>1
<1>4. \A x \in Tasks : TaskOK(task'[x], used.moves) BY <1>2, <1>3 DEF TaskOK
<1> QED BY <1>1, <1>3, <1>4

LEMMA UseMoves ==
  ASSUME ClusterShape, Use("moves", MaxMoves)
  PROVE  DOMAIN used' = {"moves", "lost"} /\ used'.moves = used.moves + 1
BY DEF ClusterShape, Use

(* Who leads changes, and where the nodes are does not.                    *)
LEMMA RolesChange ==
  ASSUME ClusterInv, world'.at = world.at, DOMAIN world' = DOMAIN world, task' = Disturbed(task),
         UNCHANGED <<snapshot, addresses, slots, sockets>>,
         DOMAIN used' = {"moves", "lost"}, used'.moves = used.moves \/ used'.moves = used.moves + 1
  PROVE  ClusterInv'
<1>1. /\ task' = [x \in Tasks |-> task'[x]] /\ \A x \in Tasks : TaskOK(task'[x], used.moves)
      /\ \A x \in Tasks : /\ task'[x].pc = task[x].pc /\ task'[x].node = task[x].node
                          /\ task'[x].got = task[x].got
  BY DisturbedTasks DEF ClusterInv
<1>2. ClusterShape'
  <2>1. CASE used'.moves = used.moves BY <1>1, <2>1, ShapeAfter DEF ClusterInv, ClusterShape
  <2>2. CASE used'.moves = used.moves + 1
    <3> DEFINE m == used.moves + 1
    <3>1. m \in Nat /\ used.moves \in Nat BY DEF ClusterInv, ClusterShape
    <3>2. \A x \in Tasks : TaskOK(task'[x], m) BY <1>1, <3>1, LaterTask
    <3>3. IsView(snapshot', m) /\ Known(addresses', m)
      BY <3>1, LaterView, LaterKnown DEF ClusterInv, ClusterShape
    <3>4. /\ world'.at \in [Nodes -> 0..(1 + m)]
          /\ slots' \in [Nodes -> [conn : 0..(1 + m), backoff : BOOLEAN, holder : SUBSET Tasks]]
      <4>1. 0..(1 + used.moves) \subseteq 0..(1 + m) BY <3>1
      <4> HIDE DEF m
      <4> QED BY <4>1 DEF ClusterInv, ClusterShape
    <3>5. DOMAIN world' = {"at", "leader", "controller", "coordinator"} BY DEF ClusterInv, ClusterShape
    <3>6. sockets' \in [Nodes -> [open : Int, dropped : Nat]] BY DEF ClusterInv, ClusterShape
    <3> QED BY <1>1, <2>2, <3>1, <3>2, <3>3, <3>4, <3>5, <3>6, ShapeAfter
  <2> QED BY <2>1, <2>2
<1>3. ASSUME NEW n \in Nodes PROVE Balanced(n)'
  <2>1. Abandoned(n)' \subseteq Abandoned(n) BY <1>1 DEF Abandoned
  <2> QED BY <2>1, NodeKept
<1> QED BY <1>2, <1>3 DEF ClusterInv, DialsWhenEmpty

(* A node goes, or comes back under an address that nobody knows yet.      *)
LEMMA NodeMoves ==
  ASSUME ClusterInv, NEW n \in Nodes, NEW a, a = 0 \/ a = 2 + used.moves,
         DOMAIN world' = DOMAIN world, world'.at = [world.at EXCEPT ![n] = a],
         task' = Disturbed(task), UNCHANGED <<snapshot, addresses, slots>>,
         sockets' = [sockets EXCEPT ![n] = [open |-> 0, dropped |-> 0]],
         Use("moves", MaxMoves)
  PROVE  ClusterInv'
<1> DEFINE m == used.moves + 1
<1>1. /\ task' = [x \in Tasks |-> task'[x]] /\ \A x \in Tasks : TaskOK(task'[x], used.moves)
      /\ \A x \in Tasks : /\ task'[x].pc = task[x].pc /\ task'[x].node = task[x].node
                          /\ task'[x].got = task[x].got
  BY DisturbedTasks DEF ClusterInv
<1>2. m \in Nat /\ used.moves \in Nat /\ used'.moves = m /\ DOMAIN used' = {"moves", "lost"}
  BY UseMoves DEF ClusterInv, ClusterShape
<1>3. \A x \in Tasks : TaskOK(task'[x], m) BY <1>1, <1>2, LaterTask
<1>4. IsView(snapshot', m) /\ Known(addresses', m) BY <1>2, LaterView, LaterKnown DEF ClusterInv, ClusterShape
<1>5. a \in 0..(1 + m) /\ 0..(1 + used.moves) \subseteq 0..(1 + m) BY <1>2
<1>6. a = 0 \/ \A y \in 0..(1 + used.moves) : y # a BY <1>2
<1>7. DOMAIN world' = {"at", "leader", "controller", "coordinator"} BY DEF ClusterInv, ClusterShape
<1> HIDE DEF m
<1>8. /\ world'.at \in [Nodes -> 0..(1 + m)]
      /\ world'.at[n] = a /\ \A x \in Nodes \ {n} : world'.at[x] = world.at[x]
  BY <1>5 DEF ClusterInv, ClusterShape
<1>9. slots' \in [Nodes -> [conn : 0..(1 + m), backoff : BOOLEAN, holder : SUBSET Tasks]]
  BY <1>5 DEF ClusterInv, ClusterShape
<1>10. /\ sockets' \in [Nodes -> [open : Int, dropped : Nat]]
       /\ sockets'[n].open = 0 /\ sockets'[n].dropped = 0
       /\ \A x \in Nodes \ {n} : sockets'[x] = sockets[x]
  BY DEF ClusterInv, ClusterShape
<1>11. ClusterShape' BY <1>1, <1>2, <1>3, <1>4, <1>7, <1>8, <1>9, <1>10, ShapeAfter
<1>12. ASSUME NEW x \in Nodes \ {n} PROVE Balanced(x)'
  <2>1. Abandoned(x)' \subseteq Abandoned(x) BY <1>1, <1>8 DEF Abandoned
  <2> QED BY <1>8, <1>10, <2>1, NodeKept
<1>13. Balanced(n)'
  <2>1. CASE a = 0 BY <1>8, <1>10, <2>1 DEF Balanced
  <2>2. CASE a # 0
    <3>1. \A x \in Tasks : task[x].pc = "dial" => \E y \in 1..(1 + used.moves) : task[x].got = {y}
      BY DEF ClusterInv, ClusterShape, TaskOK
    <3>2. \A x \in Tasks : task[x].pc = "dial" => task[x].got # {a} BY <1>2, <1>6, <2>2, <3>1
    <3>3. Abandoned(n)' = {} BY <1>1, <1>8, <3>2 DEF Abandoned
    <3>4. Cardinality({}) = 0 BY FS_EmptySet
    <3> QED BY <1>8, <1>10, <3>3, <3>4 DEF Balanced
  <2> QED BY <2>1, <2>2
<1> QED BY <1>11, <1>12, <1>13 DEF ClusterInv, DialsWhenEmpty

LEMMA WorldStep ==
  ASSUME ClusterInv, Elect \/ MoveRole \/ \E n \in Nodes : Crash(n) \/ Start(n)
  PROVE  ClusterInv'
<1>1. DOMAIN world = {"at", "leader", "controller", "coordinator"} /\ world.at \in [Nodes -> 0..(1 + used.moves)]
  BY DEF ClusterInv, ClusterShape
<1>2. CASE Elect
  <2>1. world'.at = world.at /\ DOMAIN world' = DOMAIN world BY <1>1, <1>2 DEF Elect
  <2>2. task' = Disturbed(task) /\ UNCHANGED <<snapshot, addresses, slots, sockets>> /\ UNCHANGED used
    BY <1>2 DEF Elect, shared
  <2> QED BY <2>1, <2>2, SameUsed, RolesChange
<1>3. CASE MoveRole
  <2>1. world'.at = world.at /\ DOMAIN world' = DOMAIN world BY <1>1, <1>3 DEF MoveRole
  <2>2. /\ task' = Disturbed(task) /\ UNCHANGED <<snapshot, addresses, slots, sockets>>
        /\ Use("moves", MaxMoves)
    BY <1>3 DEF MoveRole, shared
  <2> QED BY <2>1, <2>2, UseMoves, RolesChange DEF ClusterInv
<1>4. ASSUME NEW n \in Nodes, Crash(n) PROVE ClusterInv'
  <2>1. world'.at = [world.at EXCEPT ![n] = 0] /\ DOMAIN world' = DOMAIN world BY <1>1, <1>4 DEF Crash
  <2> QED BY <1>4, <2>1, NodeMoves DEF Crash
<1>5. ASSUME NEW n \in Nodes, Start(n) PROVE ClusterInv'
  <2>1. world'.at = [world.at EXCEPT ![n] = 2 + used.moves] /\ DOMAIN world' = DOMAIN world
    BY <1>1, <1>5 DEF Start
  <2> QED BY <1>5, <2>1, NodeMoves DEF Start
<1> QED BY <1>2, <1>3, <1>4, <1>5

-----------------------------------------------------------------------------
(* The theorem.                                                            *)

LEMMA ClusterInvInit == ClusterInit => ClusterInv
<1> SUFFICES ASSUME ClusterInit
             PROVE  ClusterInv
  OBVIOUS
<1>1. PICK up \in SUBSET Nodes :
        /\ world = [at |-> [m \in Nodes |-> IF m \in up THEN 1 ELSE 0], leader |-> FirstLeader,
                    controller |-> FirstLeader, coordinator |-> FirstLeader]
        /\ snapshot = decode_metadata
        /\ addresses = [m \in up |-> 1]
        /\ slots = [m \in Nodes |-> FreshSlot]
        /\ task = [t \in Tasks |-> Idle]
        /\ sockets = [m \in Nodes |-> [open |-> 0, dropped |-> 0]]
        /\ used = [moves |-> 0, lost |-> 0]
  BY DEF ClusterInit
<1>2. DOMAIN used = {"moves", "lost"} /\ used.moves = 0 BY <1>1
<1>3. world.at \in [Nodes -> {0, 1}] /\ DOMAIN world = {"at", "leader", "controller", "coordinator"} BY <1>1
<1>4. IsView(snapshot, 0)
  <2>1. \A n \in Alive : n \in Nodes /\ world.at[n] \in 1..(1 + 0) BY <1>3 DEF Alive
  <2> QED BY <1>1, <2>1 DEF IsView, Known, decode_metadata
<1>5. Known(addresses, 0) BY <1>1 DEF Known
<1>6. /\ slots \in [Nodes -> [conn : 0..(1 + 0), backoff : BOOLEAN, holder : SUBSET Tasks]]
      /\ \A n \in Nodes : slots[n].conn = 0 /\ slots[n].holder = {}
  BY <1>1 DEF FreshSlot
<1>7. /\ sockets \in [Nodes -> [open : Int, dropped : Nat]]
      /\ \A n \in Nodes : sockets[n].open = 0 /\ sockets[n].dropped = 0
  BY <1>1
<1>8. task = [t \in Tasks |-> task[t]] /\ \A t \in Tasks : TaskOK(task[t], 0) /\ task[t].pc = "idle"
  BY <1>1, IdleSane DEF Idle
<1>9. ClusterShape BY <1>2, <1>3, <1>4, <1>5, <1>6, <1>7, <1>8 DEF ClusterShape
<1>10. ASSUME NEW n \in Nodes PROVE Balanced(n)
  <2>1. Abandoned(n) = {} BY <1>8 DEF Abandoned
  <2>2. Cardinality({}) = 0 BY FS_EmptySet
  <2> QED BY <1>6, <1>7, <2>1, <2>2 DEF Balanced
<1> QED BY <1>6, <1>9, <1>10 DEF ClusterInv, DialsWhenEmpty

LEMMA ClusterInvStutter ==
  ASSUME ClusterInv, UNCHANGED clusterVars
  PROVE  ClusterInv'
<1>1. UNCHANGED <<world, snapshot, addresses, slots, task, sockets, used>> BY DEF clusterVars
<1>2. ClusterShape' BY <1>1, ShapeAfter DEF ClusterInv, ClusterShape
<1>3. ASSUME NEW n \in Nodes PROVE Balanced(n)'
  <2>1. Abandoned(n)' \subseteq Abandoned(n) BY <1>1 DEF Abandoned
  <2> QED BY <1>1, <2>1, NodeKept
<1> QED BY <1>1, <1>2, <1>3 DEF ClusterInv, DialsWhenEmpty

LEMMA ClusterInvStep == ClusterInv /\ [ClusterNext]_clusterVars => ClusterInv'
<1> SUFFICES ASSUME ClusterInv, [ClusterNext]_clusterVars
             PROVE  ClusterInv'
  OBVIOUS
<1>1. ASSUME NEW t \in Tasks, TaskStep(t) PROVE ClusterInv'
  BY <1>1, ResolveStep, AskStep, MergeStep, StoreStep, FindStep, FoundStep,
     GetStep, ReachStep, DialStep, SentStep, FailedStep DEF TaskStep
<1>2. ASSUME NEW n \in Nodes, NodeStep(n) PROVE ClusterInv' BY <1>2, BackoffStep, ClosesStep DEF NodeStep
<1> QED BY <1>1, <1>2, BeginStep, TickStep, InvalidateStep, WorldStep, EvictStep, ClusterInvStutter
        DEF ClusterNext

(* One socket per broker.                                                  *)
(* Callers that want the same broker at the same time open one socket      *)
(* (BrokerPool::get holds the slot's mutex while it dials), except that    *)
(* learn_addresses may drop a slot that is in use or being dialled.        *)
THEOREM OneSocketEach == ClusterSpecification => []OneSocket
<1>1. ClusterInv => OneSocket
  <2> SUFFICES ASSUME ClusterInv, NEW n \in Nodes
               PROVE  sockets[n].open <= 1 + sockets[n].dropped
    BY DEF OneSocket
  <2>1. sockets[n].open \in Int /\ sockets[n].dropped \in Nat /\ Balanced(n) BY DEF ClusterInv, ClusterShape
  <2>2. Cardinality(Abandoned(n)) \in Nat BY AbandonedFinite
  <2> QED BY <2>1, <2>2 DEF Balanced
<1> QED BY <1>1, ClusterInvInit, ClusterInvStep, PTL DEF ClusterSpecification

-----------------------------------------------------------------------------
(* The handshake. Its invariant is about one connection at a time.         *)

ConnFields == {"stage", "due", "sent", "lost", "re", "table", "token", "until", "wake", "error", "started",
               "version", "key", "hurt", "refused", "blip", "exposed", "extended"}
TokenFields == {"minted", "life", "refresh_after", "expires_at"}

Exchanges == {"plain", "first", "final", "bearer", "dummy"}
Settled == {"handshake", "token", "up", "call"} \cup Exchanges
ConnStages == {"down", "open", "failed", "versions", "versions0"} \cup Settled

(* What the clocks hold are numbers.                                       *)
IsToken(t) == /\ DOMAIN t = TokenFields
              /\ t.minted \in Int /\ t.life \in Nat /\ t.refresh_after \in Int /\ t.expires_at \in Int
ConnShape(r) == /\ DOMAIN r = ConnFields /\ r.stage \in ConnStages /\ IsToken(r.token)
                /\ r.due \in Int /\ r.sent \in Int /\ r.started \in Int
                /\ r.until \in Int /\ r.wake \in Int /\ r.version \in Int

(* Credentials.  From its first request on, a connection has passed        *)
(* check_encryption and, under TLS, the certificate check; each stage of   *)
(* the exchange belongs to a mechanism; an exchange that is past its first *)
(* message has sent the extensions.                                        *)
Trusted == /\ check_encryption(encrypted)
           /\ encrypted => peer.issuer \in root_store
Guarded(r) ==
  /\ r.exposed => conf.clear
  /\ r.stage \notin {"down", "open", "failed"} => Trusted
  /\ r.stage = "plain" => conf.sasl = "PLAIN"
  /\ r.stage \in {"token", "bearer", "dummy"} => conf.sasl = "OAUTHBEARER"
  /\ r.stage \in {"handshake", "token"} \cup Exchanges => ~(conf.sasl = "PLAIN" /\ conf.ext)
  /\ r.stage \in Exchanges /\ conf.ext => r.extended
  /\ r.stage \in {"up", "call"} /\ conf.sasl = "SCRAM" => peer.knows
  /\ r.stage \in {"up", "call"} /\ conf.sasl # "none" /\ conf.ext => r.extended

(* The error a connection ended with, and what leads to it: only a         *)
(* challenge to a token leaves a refused connection open, and only a fault *)
(* loses an answer.                                                        *)
Telling(r) ==
  /\ r.lost => r.hurt
  /\ r.refused => r.stage \in {"dummy", "failed"}
  /\ r.stage = "dummy" => r.refused
  /\ r.stage = "failed" =>
       /\ r.refused /\ ~r.hurt => r.error \in {"Authentication", "Authorization", "Expired"}
       /\ r.error = "Authorization" => peer.takes = "scope"
       /\ r.error \in {"Authentication", "Authorization"} =>
            r.refused \/ ~peer.knows \/ (sends_reusable_credential /\ ~encrypted /\ ~conf.clear)
       /\ r.error = "Unsupported" => 1 \notin peer.serves["SaslHandshake"]

(* The versions a request may go out in.                                   *)
Agreed(k) == peer.serves[k] \cap RequestVersions[k] \cap ResponseVersions[k] \cap 0..ClientMax(k)
Versioned(r) ==
  /\ r.stage \in Settled => r.table = peer.serves
  /\ r.stage \in Exchanges => r.key = "SaslAuthenticate"
  /\ r.stage \in {"handshake", "token"} \cup Exchanges => 1 \in peer.serves["SaslHandshake"]
  /\ r.stage \in AwaitsReply \ {"open", "versions"} => r.version \in Agreed(r.key)

(* A connect that is in its k-th step is due k timeouts after it started,  *)
(* and time has not passed what is due; a session to be renewed has had    *)
(* its exchange.                                                           *)
InTime(r) ==
  /\ r.wake > 0 => r.re
  /\ ~r.re /\ r.stage \in (AwaitsReply \ {"call"}) \cup {"token"} =>
       /\ now <= r.due
       /\ r.stage = "open" => r.due <= r.started + Timeout
       /\ r.stage = "versions" => r.due <= r.started + 2 * Timeout
       /\ r.stage = "versions0" => r.due <= r.started + 3 * Timeout
       /\ r.stage = "handshake" => r.due <= r.started + 4 * Timeout
       /\ r.stage \in {"token", "plain", "first"} => r.due <= r.started + 5 * Timeout
       /\ r.stage \in {"final", "bearer"} => r.due <= r.started + 6 * Timeout
       /\ r.stage = "dummy" => r.due <= r.started + 7 * Timeout

Clocks == now \in Int /\ IsToken(cached) /\ DOMAIN fetch = {"by", "since", "answer", "stuck"} /\ IsToken(fetch.answer)
Chosen == /\ peer.lifetime \in Nat
          /\ 0 \in peer.serves["ApiVersions"]
          /\ DOMAIN peer.serves = Keys
          /\ 1 \in peer.serves["SaslHandshake"] => peer.serves["SaslAuthenticate"] \cap 0..2 # {}
          /\ conf.names \in {"none", "OffsetFetch", "AddPartitionsToTxn"}
ConnInv(r) == ConnShape(r) /\ Guarded(r) /\ Telling(r) /\ Versioned(r) /\ InTime(r)
(* The inductive invariant.                                                *)
HandshakeInv == /\ Clocks /\ Chosen /\ DOMAIN conn = Conns
                /\ \A c \in Conns : ConnInv(conn[c])

-----------------------------------------------------------------------------
(* Versions.                                                               *)

(* A range of versions has a largest one.                                  *)
LEMMA Largest ==
  ASSUME NEW S \in SUBSET (0..9), S # {}
  PROVE  \E v \in S : \A w \in S : w <= v
<1> DEFINE below == {9 - v : v \in S}
<1>1. below \subseteq Nat /\ below # {}
  <2>1. PICK v \in S : TRUE OBVIOUS
  <2> QED BY <2>1
<1>2. PICK x \in below : \A y \in below : ~(<<y, x>> \in OpToRel(<, Nat))
  BY <1>1, WFMin, NatLessThanWellFounded
<1>3. \A y \in below : x <= y
  <2> SUFFICES ASSUME NEW y \in below, y < x
               PROVE  FALSE
    BY <1>1
  <2>1. <<y, x>> \in OpToRel(<, Nat) BY <1>1 DEF OpToRel
  <2> QED BY <2>1, <1>2
<1> QED BY <1>3

(* What negotiate_with returns is a version both sides know, and it        *)
(* returns none only if there is none.                                     *)
LEMMA Negotiated ==
  ASSUME Chosen, NEW k \in Keys \ {"ApiVersions"},
         NEW v, v = negotiate_with(peer.serves, k, typed_range(k))
  PROVE  /\ v \in Int
         /\ v >= 0 => v \in Agreed(k)
         /\ \A w \in peer.serves[k] \cap typed_range(k) : w <= v
<1> DEFINE overlap == peer.serves[k] \cap typed_range(k)
<1>1. typed_range(k) \subseteq 0..9 BY DEF typed_range, RequestVersions, ResponseVersions, Keys
<1>2. typed_range(k) \subseteq RequestVersions[k] \cap ResponseVersions[k] \cap 0..ClientMax(k)
  BY <1>1 DEF typed_range, ClientMax
<1>3. v = IF overlap = {} THEN -1 ELSE CHOOSE x \in overlap : \A w \in overlap : w <= x
  BY DEF negotiate_with, Chosen
<1>4. CASE overlap = {} BY <1>3, <1>4
<1>5. CASE overlap # {}
  <2>1. v \in overlap /\ \A w \in overlap : w <= v BY <1>1, <1>3, <1>5, Largest
  <2> QED BY <2>1, <1>1, <1>2 DEF Agreed
<1> QED BY <1>4, <1>5
-----------------------------------------------------------------------------
(* What the steps of a connection make of its record.                      *)

(* A request goes out: its deadline, and the rest as it was (Conn::call).  *)
SendsFacts(s, r, phase, key, version) ==
  /\ ConnShape(s)
  /\ s.stage = phase /\ s.key = key /\ s.version = version /\ s.due = now + Timeout /\ s.lost = FALSE
  /\ s.re = r.re /\ s.table = r.table /\ s.wake = r.wake /\ s.started = r.started /\ s.hurt = r.hurt
  /\ s.refused = r.refused /\ s.exposed = r.exposed /\ s.extended = r.extended
  /\ s.sent = now /\ s.until = r.until /\ s.error = r.error
LEMMA SendsFields ==
  ASSUME Clocks, NEW r, ConnShape(r), NEW phase \in ConnStages, NEW key, NEW version \in Int
  PROVE  SendsFacts(Sends(r, phase, key, version), r, phase, key, version)
BY HandshakeAssumption DEF Sends, SendsFacts, ConnShape, ConnFields, Clocks

(* Nothing is under way any more.                                          *)
IdleFacts(s, r) ==
  /\ ConnShape(s)
  /\ s.stage = r.stage /\ s.lost = FALSE /\ s.due = 0 /\ s.started = 0
  /\ s.re = r.re /\ s.table = r.table /\ s.wake = r.wake /\ s.until = r.until /\ s.hurt = r.hurt
  /\ s.refused = r.refused /\ s.exposed = r.exposed /\ s.extended = r.extended
  /\ s.sent = 0 /\ s.error = r.error
LEMMA IdleFields ==
  ASSUME NEW r, ConnShape(r)
  PROVE  IdleFacts(AtRest(r), r)
<1>1. IsToken(NoToken) BY DEF IsToken, NoToken, TokenFields
<1> QED BY <1>1 DEF AtRest, IdleFacts, ConnShape, ConnFields

(* A connection that has failed.                                           *)
FailsFacts(s, r, error) ==
  /\ ConnShape(s)
  /\ s.stage = "failed" /\ s.error = error /\ s.lost = FALSE /\ s.wake = 0
  /\ s.hurt = r.hurt /\ s.refused = r.refused /\ s.exposed = r.exposed
  /\ s.sent = 0 /\ s.until = 0
LEMMA FailsFields ==
  ASSUME NEW r, ConnShape(r), NEW error
  PROVE  FailsFacts(Fails(r, error), r, error)
<1> DEFINE i == AtRest(r)
<1>1. IdleFacts(i, r) BY IdleFields
<1>2. Fails(r, error) = [i EXCEPT !.stage = "failed", !.error = error, !.wake = 0, !.until = 0, !.table = <<>>]
  BY DEF Fails
<1> HIDE DEF i
<1> QED BY <1>1, <1>2 DEF IdleFacts, FailsFacts, ConnShape, ConnFields, ConnStages

(* Failing keeps the invariant if the error tells whose the problem is.    *)
LEMMA FailedInv ==
  ASSUME NEW s, ConnShape(s), s.stage = "failed", s.lost = FALSE, s.wake = 0, s.exposed => conf.clear,
         s.refused /\ ~s.hurt => s.error \in {"Authentication", "Authorization", "Expired"},
         s.error = "Authorization" => peer.takes = "scope",
         s.error \in {"Authentication", "Authorization"} =>
            s.refused \/ ~peer.knows \/ (sends_reusable_credential /\ ~encrypted /\ ~conf.clear),
         s.error = "Unsupported" => 1 \notin peer.serves["SaslHandshake"]
  PROVE  ConnInv(s)
BY DEF ConnInv, Guarded, Telling, Versioned, InTime, Exchanges, Settled, AwaitsReply

(* The first message of a mechanism goes out (authenticate).               *)
PresentsFacts(s, r, phase, version) ==
  /\ ConnShape(s)
  /\ s.stage = phase /\ s.key = "SaslAuthenticate" /\ s.version = version
  /\ s.due = now + Timeout /\ s.lost = FALSE
  /\ s.re = r.re /\ s.table = r.table /\ s.wake = r.wake /\ s.started = r.started /\ s.hurt = r.hurt
  /\ s.refused = r.refused
  /\ s.exposed = (r.exposed \/ (sends_reusable_credential /\ ~encrypted))
  /\ s.extended = (conf.ext /\ conf.sasl # "PLAIN")
  /\ s.sent = now /\ s.until = r.until /\ s.error = r.error
LEMMA PresentsFields ==
  ASSUME Clocks, NEW r, ConnShape(r), NEW phase \in ConnStages, NEW version \in Int
  PROVE  PresentsFacts(Presents(r, phase, version), r, phase, version)
<1> DEFINE i == Sends(r, phase, "SaslAuthenticate", version)
<1>1. SendsFacts(i, r, phase, "SaslAuthenticate", version) BY SendsFields
<1>2. Presents(r, phase, version) =
        [i EXCEPT !.exposed = @ \/ (sends_reusable_credential /\ ~encrypted), !.extended = conf.ext /\ conf.sasl # "PLAIN"]
  BY DEF Presents
<1> HIDE DEF i
<1> QED BY <1>1, <1>2 DEF SendsFacts, PresentsFacts, ConnShape, ConnFields

(* The exchange is over and the connection is up (auth_outcome).           *)
AuthenticatedFacts(s, r, lifetime) ==
  /\ ConnShape(s)
  /\ s.stage = "up" /\ s.lost = FALSE /\ s.re = TRUE /\ s.table = r.table
  /\ s.hurt = r.hurt /\ s.refused = r.refused /\ s.exposed = r.exposed /\ s.extended = r.extended
  /\ s.sent = 0 /\ s.error = r.error
  /\ s.until = IF lifetime = 0 THEN 0 ELSE r.sent + lifetime
  /\ s.wake = IF lifetime = 0 THEN 0 ELSE now + reauth_delay(lifetime)
LEMMA AuthenticatedFields ==
  ASSUME Clocks, NEW r, ConnShape(r), NEW lifetime \in Int
  PROVE  AuthenticatedFacts(Authenticated(r, lifetime), r, lifetime)
<1> DEFINE i == AtRest(r)
           u == IF lifetime = 0 THEN 0 ELSE r.sent + lifetime
           w == IF lifetime = 0 THEN 0 ELSE now + reauth_delay(lifetime)
<1>1. IdleFacts(i, r) BY IdleFields
<1>2. u \in Int /\ w \in Int BY HandshakeAssumption DEF ConnShape, Clocks, reauth_delay, Larger
<1>3. Authenticated(r, lifetime) = [i EXCEPT !.stage = "up", !.re = TRUE, !.until = u, !.wake = w]
  BY DEF Authenticated
<1> HIDE DEF i
<1>4. /\ ConnShape([i EXCEPT !.stage = "up", !.re = TRUE, !.until = u, !.wake = w])
      /\ AuthenticatedFacts([i EXCEPT !.stage = "up", !.re = TRUE, !.until = u, !.wake = w], r, lifetime)
  <2> HIDE DEF u, w
  <2> USE DEF IdleFacts
  <2>1. ConnShape([i EXCEPT !.stage = "up", !.re = TRUE, !.until = u, !.wake = w])
    BY <1>1, <1>2 DEF ConnShape, ConnFields, ConnStages, Settled
  <2> QED BY <1>1, <2>1 DEF AuthenticatedFacts, ConnShape, ConnFields, u, w
<1> QED BY <1>3, <1>4

-----------------------------------------------------------------------------
(* The invariant through the stages of an exchange.                        *)

(* A connection that is still open and fails without having been refused.  *)
LEMMA FailsUnrefused ==
  ASSUME NEW r, ConnInv(r), r.stage \notin {"dummy", "failed"}, NEW error,
         error \notin {"Authorization", "Authentication"},
         error = "Unsupported" => 1 \notin peer.serves["SaslHandshake"]
  PROVE  ConnInv(Fails(r, error))
<1> DEFINE s == Fails(r, error)
<1>1. FailsFacts(s, r, error) BY FailsFields DEF ConnInv
<1>2. ~r.refused /\ (r.exposed => conf.clear) BY DEF ConnInv, Telling, Guarded
<1> HIDE DEF s
<1>3. ConnInv(s) BY <1>1, <1>2, FailedInv DEF FailsFacts
<1> QED BY <1>3 DEF s

(* A connection whose end is hurt by the network, or that expires.         *)
LEMMA FailsHurt ==
  ASSUME NEW r, ConnInv(r), NEW error, error \notin {"Authorization", "Authentication", "Unsupported"}
  PROVE  /\ ConnInv([Fails(r, error) EXCEPT !.hurt = TRUE])
         /\ r.hurt \/ error = "Expired" => ConnInv(Fails(r, error))
<1> DEFINE s == Fails(r, error)
           h == [s EXCEPT !.hurt = TRUE]
<1>1. FailsFacts(s, r, error) BY FailsFields DEF ConnInv
<1>2. r.exposed => conf.clear BY DEF ConnInv, Guarded
<1> HIDE DEF s
<1>3. /\ ConnShape(h) /\ h.stage = "failed" /\ h.error = error /\ h.lost = FALSE /\ h.wake = 0
      /\ h.hurt = TRUE /\ h.exposed = r.exposed
  BY <1>1 DEF FailsFacts, ConnShape, ConnFields
<1> HIDE DEF h
<1>4. ConnInv(h) BY <1>2, <1>3, FailedInv
<1>5. r.hurt \/ error = "Expired" => ConnInv(s) BY <1>1, <1>2, FailedInv DEF FailsFacts
<1> QED BY <1>4, <1>5 DEF s, h

(* A connection that the broker refuses.                                   *)
LEMMA FailsRefused ==
  ASSUME NEW r, ConnInv(r)
  PROVE  ConnInv([Fails(r, "Authentication") EXCEPT !.refused = TRUE])
<1> DEFINE s == Fails(r, "Authentication")
           h == [s EXCEPT !.refused = TRUE]
<1>1. FailsFacts(s, r, "Authentication") BY FailsFields DEF ConnInv
<1>2. r.exposed => conf.clear BY DEF ConnInv, Guarded
<1> HIDE DEF s
<1>3. /\ ConnShape(h) /\ h.stage = "failed" /\ h.error = "Authentication" /\ h.lost = FALSE /\ h.wake = 0
      /\ h.refused = TRUE /\ h.exposed = r.exposed
  BY <1>1 DEF FailsFacts, ConnShape, ConnFields
<1> HIDE DEF h
<1>4. ConnInv(h) BY <1>2, <1>3, FailedInv
<1> QED BY <1>4 DEF s, h

(* The exchange starts: at connect, 3 timeouts in at most, or on a       *)
(* connection that has been authenticated (authenticate).                  *)
LEMMA AuthenticateInv ==
  ASSUME Clocks, Chosen, NEW r, ConnShape(r), Guarded(r), Trusted, ~r.refused, r.lost => r.hurt,
         r.table = peer.serves, r.wake > 0 => r.re,
         ~r.re => now <= r.started + 3 * Timeout
  PROVE  ConnInv(authenticate(r))
<1> DEFINE v == negotiate_with(r.table, "SaslHandshake", typed_range("SaslHandshake"))
           s == Sends(r, "handshake", "SaslHandshake", v)
<1>1. /\ v \in Int /\ (v >= 0 => v \in Agreed("SaslHandshake"))
      /\ \A w \in peer.serves["SaslHandshake"] \cap typed_range("SaslHandshake") : w <= v
  BY Negotiated DEF Keys
<1>2. 1 \in typed_range("SaslHandshake")
  BY DEF typed_range, RequestVersions, ResponseVersions, Keys, ClientMax
<1>3. authenticate(r) = IF conf.sasl = "PLAIN" /\ conf.ext THEN Fails(r, "InvalidRequest")
                        ELSE IF v < 1 THEN Fails(r, "Unsupported") ELSE s
  BY DEF authenticate
<1> HIDE DEF v
<1>4. ASSUME NEW error, error = "InvalidRequest" \/ (error = "Unsupported" /\ v < 1)
      PROVE  ConnInv(Fails(r, error))
  <2> DEFINE f == Fails(r, error)
  <2>1. FailsFacts(f, r, error) BY FailsFields
  <2>2. (r.exposed => conf.clear) /\ (v < 1 => 1 \notin peer.serves["SaslHandshake"])
    BY <1>1, <1>2 DEF Guarded
  <2> HIDE DEF f
  <2>3. ConnInv(f) BY <1>4, <2>1, <2>2, FailedInv DEF FailsFacts
  <2> QED BY <2>3 DEF f
<1>5. CASE ~(conf.sasl = "PLAIN" /\ conf.ext) /\ ~(v < 1)
  <2>1. SendsFacts(s, r, "handshake", "SaslHandshake", v) BY <1>1, SendsFields DEF ConnStages, Settled
  <2> HIDE DEF s
  <2>2. Guarded(s) BY <1>5, <2>1 DEF SendsFacts, Guarded, Exchanges
  <2>3. Telling(s) BY <2>1 DEF SendsFacts, Telling
  <2>4. v = 1 /\ 1 \in peer.serves["SaslHandshake"] BY <1>1, <1>5 DEF Agreed, RequestVersions, Keys
  <2>5. Versioned(s) BY <1>1, <1>5, <2>1, <2>4 DEF SendsFacts, Versioned, Exchanges
  <2>6. InTime(s) BY <2>1, HandshakeAssumption DEF SendsFacts, InTime, Clocks, ConnShape, AwaitsReply
  <2>7. authenticate(r) = s BY <1>3, <1>5
  <2> QED BY <2>1, <2>2, <2>3, <2>5, <2>6, <2>7 DEF SendsFacts, ConnInv
<1> QED BY <1>3, <1>4, <1>5

(* The answer to ApiVersions that holds the table (negotiate_versions).    *)
LEMMA WithTableInv ==
  ASSUME Clocks, Chosen, NEW r, ConnInv(r), r.stage \in {"versions", "versions0"}, now < r.due
  PROVE  ConnInv(WithTable(r, peer.serves))
<1> DEFINE s == [r EXCEPT !.table = peer.serves]
           i == AtRest(s)
           u == [i EXCEPT !.stage = "up"]
<1>1. /\ ConnShape(s) /\ s.stage = r.stage /\ s.lost = r.lost /\ s.re = r.re /\ s.table = peer.serves
      /\ s.wake = r.wake /\ s.started = r.started /\ s.hurt = r.hurt /\ s.due = r.due
      /\ s.refused = r.refused /\ s.exposed = r.exposed /\ s.extended = r.extended
  BY DEF ConnInv, ConnShape, ConnFields
<1>2. WithTable(r, peer.serves) = IF conf.sasl = "none" THEN u ELSE authenticate(s) BY DEF WithTable
<1> HIDE DEF s
<1>3. Guarded(s) /\ Trusted /\ ~s.refused /\ (s.lost => s.hurt) /\ (s.wake > 0 => s.re)
  BY <1>1 DEF ConnInv, Guarded, Telling, InTime, Exchanges
<1>4. ~s.re => now <= s.started + 3 * Timeout
  BY <1>1, HandshakeAssumption DEF ConnInv, InTime, ConnShape, Clocks, AwaitsReply
<1>5. ConnInv(authenticate(s)) BY <1>1, <1>3, <1>4, AuthenticateInv
<1>6. CASE conf.sasl = "none"
  <2>1. IdleFacts(i, s) BY <1>1, IdleFields
  <2> HIDE DEF i
  <2>2. /\ ConnShape(u) /\ u.stage = "up" /\ u.lost = FALSE /\ u.re = s.re /\ u.table = peer.serves
        /\ u.wake = s.wake /\ u.refused = s.refused /\ u.exposed = s.exposed
    BY <1>1, <2>1 DEF IdleFacts, ConnShape, ConnFields, ConnStages, Settled
  <2> HIDE DEF u
  <2>3. ConnInv(u)
    BY <1>3, <1>6, <2>2 DEF ConnInv, Guarded, Telling, Versioned, InTime, Exchanges, Settled, AwaitsReply
  <2> QED BY <1>2, <1>6, <2>3
<1> QED BY <1>2, <1>5, <1>6
(* The broker's alert, a peer that does not speak TLS, an older broker, or *)
(* the table (negotiate_versions).                                         *)
LEMMA NegotiateInv ==
  ASSUME Clocks, Chosen, NEW c, ConnInv(conn[c]), conn[c].stage = "versions", now < conn[c].due
  PROVE  ConnInv(negotiate_versions(c))
<1> DEFINE r == conn[c]
           s == Sends(r, "versions0", "ApiVersions", 0)
<1>1. CASE handshake_error = "Authentication"
  <2>1. negotiate_versions(c) = [Fails(r, "Authentication") EXCEPT !.refused = TRUE]
    BY <1>1 DEF negotiate_versions
  <2> QED BY <2>1, FailsRefused
<1>2. CASE handshake_error # "Authentication" /\ (handshake_error = "Transport" \/ peer.tls # encrypted)
  <2>1. negotiate_versions(c) = Fails(r, "Transport") BY <1>2 DEF negotiate_versions
  <2> QED BY <2>1, FailsUnrefused
<1>3. CASE /\ handshake_error \notin {"Authentication", "Transport"} /\ peer.tls = encrypted
           /\ r.version \notin peer.serves["ApiVersions"]
  <2>1. negotiate_versions(c) = s BY <1>3 DEF negotiate_versions
  <2>2. SendsFacts(s, r, "versions0", "ApiVersions", 0) BY SendsFields DEF ConnInv, ConnStages, Settled
  <2>3. 0 \in Agreed("ApiVersions")
    BY HandshakeAssumption DEF Agreed, Chosen, RequestVersions, ResponseVersions, Keys, ClientMax
  <2> HIDE DEF s
  <2>4. Guarded(s) /\ Telling(s) /\ Versioned(s)
    BY <2>2, <2>3 DEF SendsFacts, ConnInv, Guarded, Telling, Versioned, Exchanges, Settled
  <2>5. InTime(s) BY <2>2, HandshakeAssumption DEF SendsFacts, ConnInv, InTime, Clocks, ConnShape, AwaitsReply
  <2> QED BY <2>1, <2>2, <2>4, <2>5 DEF SendsFacts, ConnInv
<1>4. CASE /\ handshake_error \notin {"Authentication", "Transport"} /\ peer.tls = encrypted
           /\ r.version \in peer.serves["ApiVersions"]
  <2>1. negotiate_versions(c) = WithTable(r, peer.serves) BY <1>4 DEF negotiate_versions
  <2> QED BY <2>1, WithTableInv
<1> QED BY <1>1, <1>2, <1>3, <1>4

(* A message of the exchange goes out: what the records of its stages have *)
(* in common.                                                              *)
LEMMA ExchangeInv ==
  ASSUME Clocks, NEW r, ConnInv(r), r.stage \in {"handshake", "token", "first", "bearer"}, now < r.due,
         NEW s, ConnShape(s), s.stage \in Exchanges, s.stage # "dummy" => ~s.refused,
         s.stage = "dummy" => s.refused,
         s.key = "SaslAuthenticate", s.version \in Agreed("SaslAuthenticate"),
         1 \in peer.serves["SaslHandshake"],
         s.due = now + Timeout, s.lost = FALSE, s.re = r.re, s.table = peer.serves, s.wake = r.wake,
         s.started = r.started,
         s.exposed => conf.clear, conf.ext => s.extended, ~(conf.sasl = "PLAIN" /\ conf.ext),
         s.stage = "plain" => conf.sasl = "PLAIN",
         s.stage \in {"bearer", "dummy"} => conf.sasl = "OAUTHBEARER",
         r.stage = "handshake" => s.stage \in {"plain", "first"},
         r.stage = "token" => s.stage = "bearer",
         r.stage = "first" => s.stage = "final",
         r.stage = "bearer" => s.stage = "dummy"
  PROVE  ConnInv(s)
<1>1. Guarded(s) /\ Telling(s) BY DEF ConnInv, Guarded, Telling, Exchanges
<1>2. Versioned(s) BY DEF Versioned, Exchanges
<1>3. r.due \in Int /\ r.started \in Int /\ now \in Int /\ Timeout \in Nat
  BY HandshakeAssumption DEF ConnInv, ConnShape, Clocks
<1>4. s.wake > 0 => s.re BY DEF ConnInv, InTime
<1>5. ~s.re => now < r.started + 4 * Timeout \/ r.stage # "handshake" BY <1>3 DEF ConnInv, InTime, AwaitsReply
<1>6. ~s.re => now < r.started + 5 * Timeout \/ r.stage \notin {"token", "first"}
  BY <1>3 DEF ConnInv, InTime, AwaitsReply
<1>7. ~s.re => now < r.started + 6 * Timeout \/ r.stage # "bearer" BY <1>3 DEF ConnInv, InTime, AwaitsReply
<1>8. InTime(s) BY <1>3, <1>4, <1>5, <1>6, <1>7 DEF InTime, Exchanges
<1> QED BY <1>1, <1>2, <1>8 DEF ConnInv

(* The first message, of a mechanism that may be used here.                *)
LEMMA PresentsInv ==
  ASSUME Clocks, Chosen, NEW r, ConnInv(r), now < r.due,
         NEW phase, \/ r.stage = "handshake" /\ conf.sasl = "PLAIN" /\ phase = "plain"
                    \/ r.stage = "handshake" /\ phase = "first"
                    \/ r.stage = "token" /\ phase = "bearer",
         NEW version, version \in Int, version \in Agreed("SaslAuthenticate"),
         1 \in peer.serves["SaslHandshake"]
  PROVE  /\ ConnInv(Presents(r, phase, version))
         /\ \A token, blip : IsToken(token) =>
              ConnInv([Presents(r, phase, version) EXCEPT !.token = token, !.blip = blip])
<1> DEFINE s == Presents(r, phase, version)
<1>1. phase \in ConnStages /\ phase \in Exchanges /\ ConnShape(r)
  BY DEF ConnStages, Settled, Exchanges, ConnInv
<1>2. PresentsFacts(s, r, phase, version) BY <1>1, PresentsFields
<1> HIDE DEF s
<1>3. r.table = peer.serves /\ ~r.refused /\ ~(conf.sasl = "PLAIN" /\ conf.ext)
  BY DEF ConnInv, Versioned, Telling, Settled, Guarded
<1>4. s.exposed => conf.clear
  <2>1. s.exposed = (r.exposed \/ (sends_reusable_credential /\ ~encrypted)) BY <1>2 DEF PresentsFacts
  <2>2. (r.exposed => conf.clear) /\ Trusted BY DEF ConnInv, Guarded
  <2>3. sends_reusable_credential /\ ~encrypted => conf.clear
    BY <2>2 DEF Trusted, check_encryption, encrypted, sends_reusable_credential
  <2> QED BY <2>1, <2>2, <2>3, Zenon
<1>5. phase = "bearer" => conf.sasl = "OAUTHBEARER" BY DEF ConnInv, Guarded
<1>6. ConnInv(s) BY <1>1, <1>2, <1>3, <1>4, <1>5, ExchangeInv DEF PresentsFacts
<1>7. ASSUME NEW token, NEW blip, IsToken(token)
      PROVE  ConnInv([s EXCEPT !.token = token, !.blip = blip])
  <2> DEFINE u == [s EXCEPT !.token = token, !.blip = blip]
  <2>1. /\ ConnShape(u)
        /\ u.stage = s.stage /\ u.key = s.key /\ u.version = s.version
        /\ u.due = s.due /\ u.lost = s.lost
        /\ u.re = s.re /\ u.table = s.table /\ u.wake = s.wake /\ u.started = s.started
        /\ u.refused = s.refused /\ u.exposed = s.exposed /\ u.extended = s.extended
    BY <1>2, <1>7 DEF PresentsFacts, ConnShape, ConnFields
  <2> HIDE DEF u
  <2>2. ConnInv(u) BY <1>1, <1>2, <1>3, <1>4, <1>5, <2>1, ExchangeInv DEF PresentsFacts
  <2> QED BY <2>2 DEF u
<1> QED BY <1>6, <1>7 DEF s
(* SaslAuthenticate has a version where SaslHandshake has version 1.       *)
LEMMA AuthenticateVersion ==
  ASSUME Chosen, 1 \in peer.serves["SaslHandshake"],
         NEW v, v = negotiate_with(peer.serves, "SaslAuthenticate", typed_range("SaslAuthenticate"))
  PROVE  v \in Int /\ v >= 0 /\ v \in Agreed("SaslAuthenticate")
<1>1. typed_range("SaslAuthenticate") = 0..2
  BY DEF typed_range, RequestVersions, ResponseVersions, Keys, ClientMax
<1>2. PICK w \in peer.serves["SaslAuthenticate"] \cap 0..2 : TRUE BY DEF Chosen
<1>3. /\ v \in Int /\ (v >= 0 => v \in Agreed("SaslAuthenticate"))
      /\ \A x \in peer.serves["SaslAuthenticate"] \cap typed_range("SaslAuthenticate") : x <= v
  BY Negotiated DEF Keys
<1>4. w <= v BY <1>1, <1>2, <1>3
<1> QED BY <1>2, <1>3, <1>4

(* The mechanisms the broker enables (authenticate).                       *)
LEMMA OfferedInv ==
  ASSUME Clocks, Chosen, NEW c, ConnInv(conn[c]), conn[c].stage = "handshake", now < conn[c].due
  PROVE  ConnInv(Offered(c))
<1> DEFINE r == conn[c]
           v == version_for(c, "SaslAuthenticate")
           s == [r EXCEPT !.stage = "token", !.due = now + Timeout, !.sent = now]
           phase == IF conf.sasl = "PLAIN" THEN "plain" ELSE "first"
<1>1. r.table = peer.serves /\ 1 \in peer.serves["SaslHandshake"] /\ ConnShape(r)
  BY DEF ConnInv, Versioned, Settled
<1>2. v \in Int /\ v >= 0 /\ v \in Agreed("SaslAuthenticate") BY <1>1, AuthenticateVersion DEF version_for
<1>3. CASE peer.enabled # {} /\ conf.sasl \notin peer.enabled
  <2>1. Offered(c) = [Fails(r, "Authentication") EXCEPT !.refused = TRUE] BY <1>3 DEF Offered
  <2> QED BY <2>1, FailsRefused
<1>4. CASE ~(peer.enabled # {} /\ conf.sasl \notin peer.enabled) /\ conf.sasl = "OAUTHBEARER"
  <2>1. Offered(c) = s BY <1>4 DEF Offered
  <2>2. /\ ConnShape(s)
        /\ s.stage = "token" /\ s.due = now + Timeout /\ s.lost = r.lost /\ s.table = r.table
        /\ s.re = r.re /\ s.wake = r.wake /\ s.started = r.started /\ s.hurt = r.hurt
        /\ s.refused = r.refused /\ s.exposed = r.exposed
    BY <1>1, HandshakeAssumption DEF ConnShape, ConnFields, Clocks, ConnStages, Settled
  <2> HIDE DEF s
  <2>3. Guarded(s) /\ Telling(s) BY <1>4, <2>2 DEF ConnInv, Guarded, Telling, Exchanges
  <2>4. Versioned(s) BY <1>1, <2>2 DEF Versioned, Exchanges, AwaitsReply
  <2>5. InTime(s) BY <2>2, HandshakeAssumption DEF ConnInv, InTime, Clocks, ConnShape, AwaitsReply
  <2> QED BY <2>1, <2>2, <2>3, <2>4, <2>5 DEF ConnInv
<1>5. CASE ~(peer.enabled # {} /\ conf.sasl \notin peer.enabled) /\ conf.sasl # "OAUTHBEARER"
  <2>1. Offered(c) = Presents(r, phase, v) BY <1>2, <1>5 DEF Offered
  <2>2. ConnInv(Presents(r, phase, v))
    <3> HIDE DEF v
    <3> QED BY <1>1, <1>2, PresentsInv
  <2> QED BY <2>1, <2>2
<1> QED BY <1>3, <1>4, <1>5

(* The exchange is over: the connection is up, with what it has shown of   *)
(* the peer and of us.                                                     *)
LEMMA AuthenticatedInv ==
  ASSUME Clocks, NEW r, ConnInv(r), r.stage \in Exchanges \ {"dummy"}, NEW lifetime \in Int,
         conf.sasl = "SCRAM" => peer.knows
  PROVE  ConnInv(Authenticated(r, lifetime))
<1> DEFINE s == Authenticated(r, lifetime)
<1>1. AuthenticatedFacts(s, r, lifetime) BY AuthenticatedFields DEF ConnInv
<1> HIDE DEF s
<1>2. Guarded(s) BY <1>1 DEF AuthenticatedFacts, ConnInv, Guarded, Exchanges
<1>3. Telling(s) /\ InTime(s) BY <1>1 DEF AuthenticatedFacts, ConnInv, Telling, InTime, Exchanges, AwaitsReply
<1>4. Versioned(s) BY <1>1 DEF AuthenticatedFacts, ConnInv, Versioned, Exchanges, Settled, AwaitsReply
<1>5. ConnInv(s) BY <1>1, <1>2, <1>3, <1>4 DEF AuthenticatedFacts, ConnInv
<1> QED BY <1>5 DEF s

(* The broker's verdict (auth_outcome, verify_server_final): under SCRAM   *)
(* the connection comes up only past a signature that proves the password. *)
LEMMA OutcomeInv ==
  ASSUME Clocks, Chosen, NEW c, ConnInv(conn[c]),
         conn[c].stage = "plain" \/ (conn[c].stage = "final" /\ peer.knows)
  PROVE  ConnInv(auth_outcome(c))
<1> DEFINE r == conn[c]
<1>1. CASE peer.takes = "yes"
  <2>1. auth_outcome(c) = Authenticated(r, peer.lifetime) BY <1>1 DEF auth_outcome
  <2>2. conf.sasl = "SCRAM" => peer.knows BY DEF ConnInv, Guarded
  <2>3. peer.lifetime \in Int /\ r.stage \in Exchanges \ {"dummy"} BY DEF Chosen, Exchanges
  <2> QED BY <2>1, <2>2, <2>3, AuthenticatedInv
<1>2. CASE peer.takes # "yes"
  <2>1. auth_outcome(c) = [Fails(r, "Authentication") EXCEPT !.refused = TRUE] BY <1>2 DEF auth_outcome
  <2> QED BY <2>1, FailsRefused
<1> QED BY <1>1, <1>2

(* A peer that does not know the password.                                 *)
LEMMA FailsUnproved ==
  ASSUME NEW r, ConnInv(r), r.stage \in {"first", "final"}, ~peer.knows
  PROVE  ConnInv(Fails(r, "Authentication"))
<1> DEFINE s == Fails(r, "Authentication")
<1>1. FailsFacts(s, r, "Authentication") BY FailsFields DEF ConnInv
<1>2. ~r.refused /\ (r.exposed => conf.clear) BY DEF ConnInv, Telling, Guarded
<1> HIDE DEF s
<1>3. ConnInv(s) BY <1>1, <1>2, FailedInv DEF FailsFacts
<1> QED BY <1>3 DEF s

(* Server-first (client_final).                                            *)
LEMMA ClientFinalInv ==
  ASSUME Clocks, NEW c, ConnInv(conn[c]), conn[c].stage = "first", now < conn[c].due,
         NEW first, peer.knows => first.extends /\ first.iterations = "bounded"
  PROVE  ConnInv(client_final(c, first))
<1> DEFINE r == conn[c]
           s == Sends(r, "final", "SaslAuthenticate", r.version)
<1>1. CASE first.extends /\ first.iterations = "bounded"
  <2>1. client_final(c, first) = s BY <1>1 DEF client_final
  <2>2. ConnShape(r) /\ r.version \in Int BY DEF ConnInv, ConnShape
  <2>3. SendsFacts(s, r, "final", "SaslAuthenticate", r.version)
    BY <2>2, SendsFields DEF ConnStages, Settled, Exchanges
  <2> HIDE DEF s
  <2>4. /\ r.version \in Agreed("SaslAuthenticate") /\ r.table = peer.serves
        /\ 1 \in peer.serves["SaslHandshake"]
    BY DEF ConnInv, Versioned, Exchanges, Settled, AwaitsReply
  <2>5. ~r.refused /\ (r.exposed => conf.clear) /\ (conf.ext => r.extended) /\ ~(conf.sasl = "PLAIN" /\ conf.ext)
    BY DEF ConnInv, Telling, Guarded, Exchanges
  <2>6. ConnInv(s) BY <2>3, <2>4, <2>5, ExchangeInv DEF SendsFacts, Exchanges
  <2> QED BY <2>1, <2>6
<1>2. CASE ~(first.extends /\ first.iterations = "bounded")
  <2>1. client_final(c, first) = Fails(r, "Authentication") BY <1>2 DEF client_final
  <2> QED BY <1>2, <2>1, FailsUnproved
<1> QED BY <1>1, <1>2
(* The token is taken, or one more message answers the challenge.          *)
LEMMA BearerInv ==
  ASSUME Clocks, Chosen, NEW c, ConnInv(conn[c]), conn[c].stage = "bearer", now < conn[c].due
  PROVE  ConnInv(Bearer(c))
<1> DEFINE r == conn[c]
           d == Sends(r, "dummy", "SaslAuthenticate", r.version)
           s == [d EXCEPT !.refused = TRUE]
<1>1. conf.sasl = "OAUTHBEARER" /\ ConnShape(r) /\ r.version \in Int BY DEF ConnInv, Guarded, ConnShape
<1>2. CASE TokenTaken(c)
  <2>1. Bearer(c) = Authenticated(r, SessionOf(c)) BY <1>2 DEF Bearer
  <2>2. Expiry(r.token) \in Int BY <1>1, TokenAssumption DEF ConnShape, IsToken, Expiry
  <2>3. SessionOf(c) \in Int BY <1>1, <2>2 DEF SessionOf, Smaller, ConnShape, Chosen
  <2>4. r.stage \in Exchanges \ {"dummy"} BY DEF Exchanges
  <2> QED BY <1>1, <2>1, <2>3, <2>4, AuthenticatedInv
<1>3. CASE ~TokenTaken(c)
  <2>1. Bearer(c) = s BY <1>3 DEF Bearer
  <2>2. SendsFacts(d, r, "dummy", "SaslAuthenticate", r.version)
    BY <1>1, SendsFields DEF ConnStages, Settled, Exchanges
  <2> HIDE DEF d
  <2>3. /\ ConnShape(s)
        /\ s.stage = "dummy" /\ s.key = "SaslAuthenticate" /\ s.version = r.version
        /\ s.due = now + Timeout /\ s.lost = FALSE /\ s.refused = TRUE
        /\ s.re = r.re /\ s.table = r.table /\ s.wake = r.wake /\ s.started = r.started
        /\ s.exposed = r.exposed /\ s.extended = r.extended
    BY <2>2 DEF SendsFacts, ConnShape, ConnFields
  <2> HIDE DEF s
  <2>4. /\ r.version \in Agreed("SaslAuthenticate") /\ r.table = peer.serves
        /\ 1 \in peer.serves["SaslHandshake"]
    BY DEF ConnInv, Versioned, Exchanges, Settled, AwaitsReply
  <2>5. (r.exposed => conf.clear) /\ (conf.ext => r.extended) /\ ~(conf.sasl = "PLAIN" /\ conf.ext)
    BY DEF ConnInv, Guarded, Exchanges
  <2>6. ConnInv(s) BY <1>1, <2>3, <2>4, <2>5, ExchangeInv DEF Exchanges
  <2> QED BY <2>1, <2>6
<1> QED BY <1>2, <1>3

(* The refusal that follows a challenge.                                   *)
LEMMA RejectionInv ==
  ASSUME NEW c, ConnInv(conn[c]), conn[c].stage = "dummy"
  PROVE  ConnInv(Rejection(c))
<1> DEFINE r == conn[c]
           error == IF is_insufficient_scope THEN "Authorization" ELSE "Authentication"
           s == Fails(r, error)
<1>1. FailsFacts(s, r, error) BY FailsFields DEF ConnInv
<1>2. r.refused /\ (r.exposed => conf.clear) BY DEF ConnInv, Telling, Guarded
<1>3. s.error \in {"Authentication", "Authorization"} /\ (s.error = "Authorization" => peer.takes = "scope")
  BY <1>1 DEF FailsFacts, is_insufficient_scope
<1>4. Rejection(c) = s BY DEF Rejection
<1> HIDE DEF s
<1>5. ConnInv(s) BY <1>1, <1>2, <1>3, FailedInv DEF FailsFacts
<1> QED BY <1>4, <1>5

(* A call of the connection that is up has ended.                          *)
LEMMA CalledInv ==
  ASSUME NEW c, ConnInv(conn[c]), conn[c].stage = "call"
  PROVE  ConnInv(Called(c))
<1> DEFINE r == conn[c]
           i == AtRest(r)
           s == [i EXCEPT !.stage = "up"]
<1>1. IdleFacts(i, r) BY IdleFields DEF ConnInv
<1>2. Called(c) = s BY DEF Called
<1> HIDE DEF i
<1>3. /\ ConnShape(s) /\ s.stage = "up" /\ s.lost = FALSE /\ s.re = r.re /\ s.table = r.table
      /\ s.wake = r.wake /\ s.refused = r.refused /\ s.exposed = r.exposed /\ s.extended = r.extended
  BY <1>1 DEF IdleFacts, ConnShape, ConnFields, ConnStages, Settled
<1> HIDE DEF s
<1>4. ConnInv(s) BY <1>3 DEF ConnInv, Guarded, Telling, Versioned, InTime, Exchanges, Settled, AwaitsReply
<1> QED BY <1>2, <1>4

(* The provider's token goes out (initial_client_response).                *)
LEMMA InitialResponseInv ==
  ASSUME Clocks, Chosen, NEW c, ConnInv(conn[c]), conn[c].stage = "token", now < conn[c].due,
         NEW token, IsToken(token), NEW blip
  PROVE  ConnInv(initial_client_response(c, token, blip))
<1> DEFINE r == conn[c]
           v == version_for(c, "SaslAuthenticate")
<1>1. r.table = peer.serves /\ 1 \in peer.serves["SaslHandshake"] BY DEF ConnInv, Versioned, Settled
<1>2. v \in Int /\ v >= 0 /\ v \in Agreed("SaslAuthenticate") BY <1>1, AuthenticateVersion DEF version_for
<1>3. initial_client_response(c, token, blip) = [Presents(r, "bearer", v) EXCEPT !.token = token, !.blip = blip]
  BY <1>2 DEF initial_client_response
<1> HIDE DEF v
<1>4. \A x, y : IsToken(x) => ConnInv([Presents(r, "bearer", v) EXCEPT !.token = x, !.blip = y])
  BY <1>1, <1>2, PresentsInv
<1> DEFINE s == [Presents(r, "bearer", v) EXCEPT !.token = token, !.blip = blip]
<1>5. ConnInv(s) BY <1>4, Zenon
<1>6. initial_client_response(c, token, blip) = s BY <1>3
<1> HIDE DEF s
<1> QED BY <1>5, <1>6

(* The handshake is through, and the check (open).                         *)
LEMMA OpenedInv ==
  ASSUME Clocks, NEW c, ConnInv(conn[c]), conn[c].stage = "open", now < conn[c].due
  PROVE  ConnInv(Opened(c))
<1> DEFINE r == conn[c]
           bad == encrypted /\ (~peer.tls \/ peer.issuer \notin root_store)
           s == Sends(r, "versions", "ApiVersions", OnMax)
           f == Fails(r, "Authentication")
<1>1. Opened(c) = IF bad THEN Fails(r, "Transport") ELSE IF ~check_encryption(encrypted) THEN f ELSE s
  BY DEF Opened
<1>2. CASE bad
  <2>1. ConnInv(Fails(r, "Transport")) BY FailsUnrefused
  <2> QED BY <1>1, <1>2, <2>1
<1>3. CASE ~bad /\ ~check_encryption(encrypted)
  <2>1. FailsFacts(f, r, "Authentication") /\ ~r.refused /\ (r.exposed => conf.clear)
    BY FailsFields DEF ConnInv, Telling, Guarded
  <2>2. sends_reusable_credential /\ ~encrypted /\ ~conf.clear BY <1>3 DEF check_encryption
  <2> HIDE DEF f
  <2>3. ConnInv(f) BY <2>1, <2>2, FailedInv DEF FailsFacts
  <2> QED BY <1>1, <1>3, <2>3
<1>4. CASE ~bad /\ check_encryption(encrypted)
  <2>1. "versions" \in ConnStages /\ OnMax \in Int BY HandshakeAssumption DEF ConnStages
  <2>2. SendsFacts(s, r, "versions", "ApiVersions", OnMax) BY <2>1, SendsFields DEF ConnInv
  <2> HIDE DEF s
  <2>3. Guarded(s) /\ Telling(s) BY <1>4, <2>2 DEF SendsFacts, ConnInv, Guarded, Telling, Trusted, Exchanges
  <2>4. Versioned(s) /\ InTime(s)
    BY <2>2, HandshakeAssumption
       DEF SendsFacts, ConnInv, ConnShape, Versioned, Exchanges, Settled, InTime, Clocks, AwaitsReply
  <2>5. ConnInv(s) BY <2>2, <2>3, <2>4 DEF SendsFacts, ConnInv
  <2> QED BY <1>1, <1>4, <2>5
<1> QED BY <1>2, <1>3, <1>4

(* Every answer of the broker.                                             *)
LEMMA AnsweredInv ==
  ASSUME HandshakeInv, NEW c \in Conns, Answered(c)
  PROVE  \E s : ConnInv(s) /\ Set(c, s)
<1>1. ConnInv(conn[c]) /\ Clocks /\ Chosen /\ now < conn[c].due BY DEF HandshakeInv, Answered
<1>11. CASE conn[c].stage = "open" /\ Set(c, Opened(c)) BY <1>1, <1>11, OpenedInv
<1>2. CASE conn[c].stage = "versions" /\ Set(c, negotiate_versions(c)) BY <1>1, <1>2, NegotiateInv
<1>3. CASE conn[c].stage = "versions0" /\ Set(c, WithTable(conn[c], peer.serves)) BY <1>1, <1>3, WithTableInv
<1>4. CASE conn[c].stage = "handshake" /\ Set(c, Offered(c)) BY <1>1, <1>4, OfferedInv
<1>5. CASE conn[c].stage = "plain" /\ Set(c, auth_outcome(c)) BY <1>1, <1>5, OutcomeInv
<1>6. CASE /\ conn[c].stage = "first"
           /\ \E first \in [extends : {TRUE, peer.knows},
                            iterations : {"bounded", IF peer.knows THEN "bounded" ELSE "high"}] :
                Set(c, client_final(c, first))
  <2>1. PICK first \in [extends : {TRUE, peer.knows},
                        iterations : {"bounded", IF peer.knows THEN "bounded" ELSE "high"}] :
               Set(c, client_final(c, first))
    BY <1>6
  <2>2. peer.knows => first.extends /\ first.iterations = "bounded" BY <2>1
  <2> QED BY <1>1, <1>6, <2>1, <2>2, ClientFinalInv
<1>7. CASE conn[c].stage = "final" /\ Set(c, verify_server_final(c))
  <2>1. ConnInv(verify_server_final(c)) BY <1>1, <1>7, OutcomeInv, FailsUnproved DEF verify_server_final
  <2> QED BY <1>7, <2>1
<1>8. CASE conn[c].stage = "bearer" /\ Set(c, Bearer(c)) BY <1>1, <1>8, BearerInv
<1>9. CASE conn[c].stage = "dummy" /\ Set(c, Rejection(c)) BY <1>1, <1>9, RejectionInv
<1>10. CASE conn[c].stage = "call" /\ Set(c, Called(c)) BY <1>1, <1>10, CalledInv
<1> QED BY <1>2, <1>3, <1>4, <1>5, <1>6, <1>7, <1>8, <1>9, <1>10, <1>11 DEF Answered
-----------------------------------------------------------------------------
(* The steps.                                                              *)

(* A step of one connection, in no time, keeps the invariant.              *)
LEMMA StepKeeps ==
  ASSUME HandshakeInv, NEW c \in Conns, NEW s, ConnInv(s), Set(c, s), UNCHANGED <<now, conf, peer>>, Clocks'
  PROVE  HandshakeInv'
<1>1. Chosen' BY DEF HandshakeInv, Chosen
<1>2. DOMAIN conn' = Conns BY DEF HandshakeInv, Set
<1>3. ASSUME NEW d \in Conns
      PROVE  ConnInv(conn[d])'
  <2>1. PICK r : r = conn'[d] /\ ConnInv(r) BY DEF HandshakeInv, Set
  <2>2. ConnShape(conn[d])' BY <2>1 DEF ConnInv, ConnShape
  <2>3. Guarded(conn[d])'
    BY <2>1 DEF ConnInv, Guarded, Trusted, check_encryption, sends_reusable_credential, encrypted, root_store
  <2>4. Telling(conn[d])' BY <2>1 DEF ConnInv, Telling, sends_reusable_credential, encrypted
  <2>5. Versioned(conn[d])' BY <2>1 DEF ConnInv, Versioned, Agreed
  <2>6. InTime(conn[d])' BY <2>1 DEF ConnInv, InTime
  <2> QED BY <2>2, <2>3, <2>4, <2>5, <2>6 DEF ConnInv
<1> QED BY <1>1, <1>2, <1>3 DEF HandshakeInv

(* So does one that leaves the connections alone.                          *)
LEMMA StillKeeps ==
  ASSUME HandshakeInv, UNCHANGED <<now, conf, peer, conn>>, Clocks'
  PROVE  HandshakeInv'
<1>1. Chosen' /\ DOMAIN conn' = Conns BY DEF HandshakeInv, Chosen
<1>2. ASSUME NEW d \in Conns
      PROVE  ConnInv(conn[d])'
  <2>1. ConnInv(conn[d]) BY DEF HandshakeInv
  <2> QED BY <2>1 DEF ConnInv, ConnShape, IsToken, Guarded, Trusted, check_encryption, sends_reusable_credential,
             encrypted, root_store, Telling, Versioned, Agreed, InTime
<1> QED BY <1>1, <1>2 DEF HandshakeInv

(* The socket is dialled (connect_as).                                     *)
LEMMA OpenInv ==
  ASSUME HandshakeInv, NEW c \in Conns, Open(c)
  PROVE  \E s : ConnInv(s) /\ Set(c, s)
<1> DEFINE r == [conn[c] EXCEPT !.started = now]
           s == Sends(r, "open", "none", -1)
<1>1. Clocks /\ ConnInv(conn[c]) /\ conn[c].stage = "down" /\ Set(c, s) BY DEF HandshakeInv, Open
<1>2. /\ ConnShape(r) /\ r.stage = "down" /\ r.started = now /\ r.wake = conn[c].wake /\ r.re = conn[c].re
      /\ r.lost = conn[c].lost /\ r.hurt = conn[c].hurt /\ r.refused = conn[c].refused
      /\ r.exposed = conn[c].exposed
  BY <1>1 DEF ConnInv, ConnShape, ConnFields, Clocks
<1> HIDE DEF r
<1>3. SendsFacts(s, r, "open", "none", -1) BY <1>1, <1>2, SendsFields DEF ConnStages
<1> HIDE DEF s
<1>4. Guarded(s) /\ Telling(s) BY <1>1, <1>2, <1>3 DEF SendsFacts, ConnInv, Guarded, Telling, Exchanges
<1>5. Versioned(s) /\ InTime(s)
  BY <1>1, <1>2, <1>3, HandshakeAssumption
     DEF SendsFacts, ConnInv, Versioned, Exchanges, Settled, InTime, Clocks, AwaitsReply
<1>6. ConnInv(s) BY <1>3, <1>4, <1>5 DEF SendsFacts, ConnInv
<1> QED BY <1>1, <1>6

(* A request of the connection that is up.                                 *)
LEMMA CallInv ==
  ASSUME HandshakeInv, NEW c \in Conns, Call(c)
  PROVE  \E s : ConnInv(s) /\ Set(c, s)
<1> DEFINE r == conn[c]
           v == version_for(c, conf.names)
           s == Sends(r, "call", conf.names, v)
<1>1. Clocks /\ Chosen /\ ConnInv(r) /\ r.stage = "up" /\ v >= 0 /\ Set(c, s) BY DEF HandshakeInv, Call
<1>2. r.table = peer.serves BY <1>1 DEF ConnInv, Versioned, Settled
<1>3. conf.names \in Keys \ {"ApiVersions"} BY DEF HandshakeInv, Chosen, Call, Keys
<1>4. v \in Int /\ v \in Agreed(conf.names) BY <1>1, <1>2, <1>3, Negotiated DEF version_for
<1> HIDE DEF v
<1>5. SendsFacts(s, r, "call", conf.names, v) BY <1>1, <1>4, SendsFields DEF ConnInv, ConnStages, Settled
<1> HIDE DEF s
<1>6. ConnInv(s)
  BY <1>1, <1>2, <1>4, <1>5 DEF SendsFacts, ConnInv, Guarded, Telling, Versioned, InTime, Exchanges, Settled, AwaitsReply
<1> QED BY <1>1, <1>6

(* The exchange again, on a connection that has had one (spawn_reauth).    *)
LEMMA ReauthInv ==
  ASSUME HandshakeInv, NEW c \in Conns, Reauth(c)
  PROVE  \E s : ConnInv(s) /\ Set(c, s)
<1> DEFINE r == conn[c]
<1>1. Clocks /\ Chosen /\ ConnInv(r) /\ r.stage = "up" /\ r.wake > 0 /\ Set(c, authenticate(r))
  BY DEF HandshakeInv, Reauth
<1>2. ConnShape(r) /\ Guarded(r) /\ Trusted /\ ~r.refused /\ (r.lost => r.hurt) /\ r.table = peer.serves /\ r.re
  BY <1>1 DEF ConnInv, Guarded, Telling, Versioned, InTime, Settled
<1>3. ConnInv(authenticate(r)) BY <1>1, <1>2, AuthenticateInv
<1> QED BY <1>1, <1>3
(* What the token source does keeps the clocks' numbers (current_token).   *)
LEMMA TokenClocks ==
  ASSUME Clocks, NEW c, now' = now,
         \/ UNCHANGED tvars \/ StartFetch(c) \/ Fetched(c) \/ FetchFails(c) \/ Abandon(c)
         \/ \E claim \in Claims : Mint(claim)
         \/ Stuck
  PROVE  Clocks'
<1> DEFINE FetchShape(f) == DOMAIN f = {"by", "since", "answer", "stuck"} /\ IsToken(f.answer)
<1>1. IsToken(NoToken) /\ FetchShape(NoFetch) /\ FetchShape(fetch) /\ IsToken(cached) /\ now \in Int
  BY DEF IsToken, NoToken, TokenFields, NoFetch, Clocks
<1>2. CASE UNCHANGED tvars BY <1>2 DEF Clocks, tvars, IsToken
<1>3. CASE StartFetch(c) \/ FetchFails(c) \/ Abandon(c) \/ Stuck
  <2>1. cached' = cached BY <1>3 DEF StartFetch, FetchFails, Abandon, Stuck
  <2>2. FetchShape(fetch') BY <1>1, <1>3 DEF StartFetch, FetchFails, Abandon, Stuck
  <2> QED BY <1>1, <2>1, <2>2 DEF Clocks, IsToken
<1>4. CASE \E claim \in Claims : Mint(claim)
  <2>1. PICK claim \in Claims : Mint(claim) BY <1>4
  <2>2. claim \in Nat BY TokenAssumption
  <2> DEFINE t == [NoToken EXCEPT !.minted = now, !.life = claim]
  <2>3. IsToken(t) BY <1>1, <2>2 DEF IsToken, TokenFields
  <2>4. cached' = cached /\ fetch' = [fetch EXCEPT !.answer = t] BY <2>1 DEF Mint
  <2> HIDE DEF t
  <2>5. FetchShape(fetch') BY <1>1, <2>3, <2>4
  <2> QED BY <1>1, <2>4, <2>5 DEF Clocks, IsToken
<1>5. CASE Fetched(c)
  <2> DEFINE lifetime == parse_token_response(fetch.answer.life)
             usable == usable_lifetime(lifetime)
  <2>1. lifetime \in Nat BY <1>1, TokenAssumption DEF parse_token_response, Smaller, IsToken
  <2> HIDE DEF lifetime
  <2>2. usable \in Int BY <2>1, TokenAssumption DEF usable_lifetime, Larger, Smaller
  <2>3. /\ fetch' = NoFetch
        /\ cached' = [fetch.answer EXCEPT !.refresh_after = now + usable, !.expires_at = now + lifetime]
    BY <1>5 DEF Fetched, lifetime
  <2> HIDE DEF usable
  <2>4. IsToken(cached') BY <1>1, <2>1, <2>2, <2>3 DEF IsToken, TokenFields
  <2> QED BY <1>1, <2>3, <2>4 DEF Clocks, IsToken
<1> QED BY <1>2, <1>3, <1>4, <1>5

(* The token step of an exchange.                                          *)
LEMMA TokenInv ==
  ASSUME HandshakeInv, NEW c \in Conns, Token(c)
  PROVE  HandshakeInv'
<1>1. Clocks /\ Chosen /\ ConnInv(conn[c]) /\ conn[c].stage = "token" /\ now < conn[c].due
  BY DEF HandshakeInv, Token
<1>2. UNCHANGED <<now, conf, peer>> BY DEF Token
<1>3. Clocks' BY <1>1, <1>2, TokenClocks DEF Token, UseCached
<1>4. IsToken(cached) /\ IsToken(cached') BY <1>1, <1>3 DEF Clocks, IsToken
<1>5. CASE \E token, blip : IsToken(token) /\ Set(c, initial_client_response(c, token, blip))
  <2>1. PICK token, blip : IsToken(token) /\ Set(c, initial_client_response(c, token, blip)) BY <1>5
  <2>2. ConnInv(initial_client_response(c, token, blip)) BY <1>1, <2>1, InitialResponseInv
  <2> QED BY <1>2, <1>3, <2>1, <2>2, StepKeeps
<1>6. CASE StartFetch(c) /\ UNCHANGED conn BY <1>2, <1>3, <1>6, StillKeeps
<1>7. CASE Set(c, [Fails(conn[c], "TokenEndpoint") EXCEPT !.hurt = TRUE])
  <2>1. ConnInv([Fails(conn[c], "TokenEndpoint") EXCEPT !.hurt = TRUE]) BY <1>1, FailsHurt
  <2> QED BY <1>2, <1>3, <1>7, <2>1, StepKeeps
<1> QED BY <1>4, <1>5, <1>6, <1>7 DEF Token

(* An answer that is lost, a socket that closes, a deadline, the end of a  *)
(* session.                                                                *)
LEMMA FaultInv ==
  ASSUME HandshakeInv, NEW c \in Conns,
         Lost(c) \/ Closed(c) \/ with_deadline(c) \/ TokenTimeout(c) \/ SessionEnds(c)
  PROVE  \E s : ConnInv(s) /\ Set(c, s)
<1> DEFINE r == conn[c]
<1>1. ConnInv(r) BY DEF HandshakeInv
<1>2. CASE Lost(c)
  <2> DEFINE s == [r EXCEPT !.lost = TRUE, !.hurt = TRUE]
  <2>1. /\ ConnShape(s) /\ s.stage = r.stage /\ s.lost = TRUE /\ s.hurt = TRUE /\ s.due = r.due
        /\ s.started = r.started /\ s.version = r.version /\ s.key = r.key
        /\ s.re = r.re /\ s.table = r.table /\ s.wake = r.wake
        /\ s.refused = r.refused /\ s.exposed = r.exposed /\ s.extended = r.extended
    BY <1>1 DEF ConnInv, ConnShape, ConnFields
  <2>2. Set(c, s) /\ r.stage # "failed" BY <1>2 DEF Lost, AwaitsReply
  <2> HIDE DEF s
  <2>3. Guarded(s) /\ Telling(s) BY <1>1, <2>1, <2>2 DEF ConnInv, Guarded, Telling
  <2>4. Versioned(s) /\ InTime(s) BY <1>1, <2>1 DEF ConnInv, Versioned, InTime
  <2>5. ConnInv(s) BY <2>1, <2>3, <2>4 DEF ConnInv
  <2> QED BY <2>2, <2>5
<1>3. CASE Closed(c)
  <2>1. ConnInv([Fails(r, "Closed") EXCEPT !.hurt = TRUE]) BY <1>1, FailsHurt
  <2> QED BY <1>3, <2>1 DEF Closed
<1>4. CASE with_deadline(c)
  <2>1. r.hurt BY <1>1, <1>4 DEF with_deadline, ConnInv, Telling
  <2>2. ConnInv(Fails(r, "Timeout")) BY <1>1, <2>1, FailsHurt
  <2>3. r.stage = "call" => ConnInv(Called(c)) BY <1>1, CalledInv
  <2> QED BY <1>4, <2>2, <2>3 DEF with_deadline
<1>5. CASE TokenTimeout(c)
  <2>1. ConnInv([Fails(r, "Timeout") EXCEPT !.hurt = TRUE]) BY <1>1, FailsHurt
  <2> QED BY <1>5, <2>1 DEF TokenTimeout
<1>6. CASE SessionEnds(c)
  <2>1. ConnInv(Fails(r, "Expired")) BY <1>1, FailsHurt
  <2> QED BY <1>6, <2>1 DEF SessionEnds
<1> QED BY <1>2, <1>3, <1>4, <1>5, <1>6

(* Time passes, to a moment that is due and no further.                    *)
LEMMA TickInv ==
  ASSUME HandshakeInv, TimePasses
  PROVE  HandshakeInv'
<1>1. PICK t \in (IF \E c \in Conns : Busy(c) THEN {now + 1} ELSE Moments) :
        /\ \A c \in Conns : Busy(c) => t <= conn[c].due
        /\ now' = t
        /\ UNCHANGED <<cached, fetch, conf, peer, conn, faults>>
  BY DEF TimePasses
<1>2. t \in Int
  <2>1. now \in Int /\ cached.refresh_after \in Int /\ cached.expires_at \in Int
    BY DEF HandshakeInv, Clocks, IsToken
  <2>2. \A c \in Conns : conn[c].wake \in Int /\ conn[c].until \in Int BY DEF HandshakeInv, ConnInv, ConnShape
  <2> QED BY <1>1, <2>1, <2>2 DEF Moments
<1>3. Clocks' /\ Chosen' /\ DOMAIN conn' = Conns BY <1>1, <1>2 DEF HandshakeInv, Clocks, Chosen, IsToken
<1>4. ASSUME NEW c \in Conns
      PROVE  ConnInv(conn[c])'
  <2>1. ConnInv(conn[c]) /\ conn'[c] = conn[c] BY <1>1 DEF HandshakeInv
  <2>2. ConnShape(conn[c])' BY <2>1 DEF ConnInv, ConnShape
  <2>3. Guarded(conn[c])'
    BY <1>1, <2>1 DEF ConnInv, Guarded, Trusted, check_encryption, sends_reusable_credential, encrypted, root_store
  <2>4. Telling(conn[c])' BY <1>1, <2>1 DEF ConnInv, Telling, sends_reusable_credential, encrypted
  <2>5. Versioned(conn[c])' BY <1>1, <2>1 DEF ConnInv, Versioned, Agreed
  <2>6. InTime(conn[c])' BY <1>1, <2>1 DEF ConnInv, InTime, Busy
  <2> QED BY <2>2, <2>3, <2>4, <2>5, <2>6 DEF ConnInv
<1> QED BY <1>3, <1>4 DEF HandshakeInv

LEMMA HandshakeInitInv == HandshakeInit => HandshakeInv
<1> SUFFICES ASSUME HandshakeInit
             PROVE  HandshakeInv
  OBVIOUS
<1>1. PICK w \in Worlds : conf = w.conf /\ peer = w.peer BY DEF HandshakeInit
<1>2. Chosen BY <1>1, WorldsAssumption DEF Chosen
<1>3. IsToken(NoToken) BY DEF IsToken, NoToken, TokenFields
<1>4. Clocks BY <1>3 DEF HandshakeInit, Clocks, NoFetch
<1>5. ASSUME NEW c \in Conns
      PROVE  ConnInv(conn[c])
  <2>1. conn[c] = Down BY DEF HandshakeInit
  <2>2. ConnShape(Down) BY <1>3 DEF ConnShape, Down, ConnFields, ConnStages
  <2>3. ConnInv(Down)
    BY <2>2 DEF ConnInv, Guarded, Telling, Versioned, InTime, Down, Exchanges, Settled, AwaitsReply
  <2> QED BY <2>1, <2>3
<1> QED BY <1>2, <1>4, <1>5 DEF HandshakeInv, HandshakeInit

LEMMA StepInv == HandshakeInv /\ [HandshakeNext]_hvars => HandshakeInv'
<1> SUFFICES ASSUME HandshakeInv, [HandshakeNext]_hvars
             PROVE  HandshakeInv'
  OBVIOUS
<1>1. ASSUME NEW c \in Conns, UNCHANGED <<now, conf, peer>>, Clocks',
             \E s : ConnInv(s) /\ Set(c, s)
      PROVE  HandshakeInv'
  BY <1>1, StepKeeps
<1>2. CASE UNCHANGED hvars
  <2>1. UNCHANGED <<now, cached, fetch, conf, peer, conn>> BY <1>2 DEF hvars
  <2>2. Clocks' BY <2>1 DEF HandshakeInv, Clocks, IsToken
  <2> QED BY <2>1, <2>2, StillKeeps
<1>3. CASE TimePasses BY <1>3, TickInv
<1>4. CASE Endpoint
  <2>1. UNCHANGED <<now, conf, peer, conn>> BY <1>4 DEF Endpoint
  <2>2. Clocks' BY <1>4, <2>1, TokenClocks DEF Endpoint, HandshakeInv
  <2> QED BY <2>1, <2>2, StillKeeps
<1>5. ASSUME NEW c \in Conns, Token(c)
      PROVE  HandshakeInv'
  BY <1>5, TokenInv
<1>6. ASSUME NEW c \in Conns, Open(c) \/ Answered(c) \/ Lost(c) \/ Closed(c) \/ with_deadline(c)
                              \/ Call(c) \/ Reauth(c)
      PROVE  HandshakeInv'
  <2>1. UNCHANGED <<now, cached, fetch, conf, peer>>
    BY <1>6 DEF Open, Answered, Lost, Closed, with_deadline, Call, Reauth
  <2>2. Clocks' BY <2>1 DEF HandshakeInv, Clocks, IsToken
  <2>3. \E s : ConnInv(s) /\ Set(c, s) BY <1>6, OpenInv, AnsweredInv, FaultInv, CallInv, ReauthInv
  <2> QED BY <1>1, <2>1, <2>2, <2>3
<1>7. ASSUME NEW c \in Conns, TokenTimeout(c) \/ SessionEnds(c)
      PROVE  HandshakeInv'
  <2>1. UNCHANGED <<now, conf, peer>> /\ Abandon(c) BY <1>7 DEF TokenTimeout, SessionEnds
  <2>2. Clocks' BY <2>1, TokenClocks DEF HandshakeInv
  <2>3. \E s : ConnInv(s) /\ Set(c, s) BY <1>7, FaultInv
  <2> QED BY <1>1, <2>1, <2>2, <2>3
<1> QED BY <1>2, <1>3, <1>4, <1>5, <1>6, <1>7 DEF HandshakeNext

(* The invariant holds in every behaviour of the handshake.                *)
THEOREM HandshakeInvariant == HandshakeSpecification => []HandshakeInv
BY HandshakeInitInv, StepInv, PTL DEF HandshakeSpecification

(* A credential goes where it may and nowhere else, in the first exchange  *)
(* and in every later one, whatever the faults (check_encryption,          *)
(* verify_server_final, authenticate).                                     *)
THEOREM CredentialsAreGuarded == HandshakeSpecification => []CredentialsGuarded
<1>1. HandshakeInv => CredentialsGuarded
  <2> SUFFICES ASSUME HandshakeInv, NEW c \in Conns
               PROVE  /\ conn[c].exposed => conf.clear
                      /\ Up(c) /\ conf.sasl = "SCRAM" => peer.knows
                      /\ Up(c) /\ conf.sasl # "none" /\ conf.ext => conn[c].extended
                      /\ Up(c) /\ encrypted => peer.issuer \in root_store
    BY DEF CredentialsGuarded
  <2>1. Guarded(conn[c]) BY DEF HandshakeInv, ConnInv
  <2>2. conn[c].exposed => conf.clear BY <2>1 DEF Guarded
  <2>3. Up(c) => Trusted BY <2>1 DEF Guarded, Up
  <2>4. /\ Up(c) /\ conf.sasl = "SCRAM" => peer.knows
        /\ Up(c) /\ conf.sasl # "none" /\ conf.ext => conn[c].extended
    BY <2>1 DEF Guarded, Up
  <2>5. Up(c) /\ encrypted => peer.issuer \in root_store BY <2>3 DEF Trusted, encrypted
  <2> QED BY <2>2, <2>4, <2>5
<1> QED BY <1>1, HandshakeInvariant, PTL

(* A connect ends within 7 timeouts,   with an error that names the owner  *)
(* of the problem, and has sent only requests in versions both sides know  *)
(* (with_deadline, auth_outcome, negotiate_with).                          *)
THEOREM ConnectIsSound == HandshakeSpecification => []ConnectSound
<1>1. HandshakeInv => EndsInTime
  <2> SUFFICES ASSUME HandshakeInv, NEW c \in Conns, ~conn[c].re,
                      conn[c].stage \in (AwaitsReply \ {"call"}) \cup {"token"}
               PROVE  now <= conn[c].started + 7 * Timeout
    BY DEF EndsInTime
  <2>1. /\ now \in Int /\ conn[c].due \in Int /\ conn[c].started \in Int /\ Timeout \in Nat
        /\ InTime(conn[c])
    BY HandshakeAssumption DEF HandshakeInv, ConnInv, ConnShape, Clocks
  <2>2. now <= conn[c].due /\ conn[c].due <= conn[c].started + 7 * Timeout BY <2>1 DEF InTime, AwaitsReply
  <2> QED BY <2>1, <2>2
<1>2. HandshakeInv => ErrorsTell BY DEF HandshakeInv, ConnInv, Telling, ErrorsTell
<1>3. HandshakeInv => VersionsAgree BY DEF HandshakeInv, ConnInv, Versioned, VersionsAgree, Agreed
<1> QED BY <1>1, <1>2, <1>3, HandshakeInvariant, PTL DEF ConnectSound

-----------------------------------------------------------------------------
(* Sessions and tokens.                                                    *)

(* A token that the client has taken in: it arrived after it was made and  *)
(* within the timeout of the fetch, and its life is counted from there.    *)
LifeOf(t) == parse_token_response(t.life)
ArrivedAt(t) == t.expires_at - LifeOf(t)
Taken(t) ==
  /\ IsToken(t) /\ t.life \in Claims
  /\ t.refresh_after = ArrivedAt(t) + usable_lifetime(LifeOf(t))
  /\ t.minted <= ArrivedAt(t) /\ ArrivedAt(t) <= t.minted + FetchTimeout

(* The token source.                                                       *)
SourceOK ==
  /\ now \in Nat /\ faults \in Nat
  /\ cached = NoToken \/ Taken(cached)
  /\ fetch.since \in Nat /\ fetch.since <= now
  /\ fetch.by # 0 /\ ~fetch.stuck => now <= fetch.since + FetchTimeout
  /\ fetch.stuck => faults > 0
  /\ fetch.answer # NoToken =>
       /\ ~fetch.stuck /\ fetch.by # 0 /\ fetch.answer.life \in Claims
       /\ fetch.since <= fetch.answer.minted /\ fetch.answer.minted <= now

(* What excuses a session that ends.                                       *)
Excused(r) == faults > 0 \/ r.refused \/ peer.lifetime \in 1..ReauthFloor

(* Time does not pass an answer or a deadline.                             *)
Punctual(r) ==
  /\ r.sent \in Nat /\ r.sent <= now /\ (r.lost => faults > 0)
  /\ r.stage \in AwaitsReply \cup {"token"} => r.due = r.sent + Timeout /\ now <= r.due
  /\ r.stage \in AwaitsReply /\ ~r.lost => now <= r.sent + Latency

(* A session is renewed one answer after another, each no later than these *)
(* after the timer, and the end of the session is later than the last.     *)
Renewed(r) ==
  /\ r.until \in Nat /\ r.wake \in Nat
  /\ r.stage \in {"down", "open", "failed", "versions", "versions0"} => r.until = 0
  /\ r.until > 0 /\ ~Excused(r) =>
       /\ r.wake > 0 /\ r.wake + 3 * Latency + Timeout < r.until
       /\ r.stage = "up" => now <= r.wake + Latency
       /\ r.stage = "call" => r.sent <= r.wake
       /\ r.stage = "handshake" => r.sent <= r.wake + Latency
       /\ r.stage \in {"token", "plain", "first"} => r.sent <= r.wake + 2 * Latency
       /\ r.stage = "final" => r.sent <= r.wake + 3 * Latency
       /\ r.stage = "bearer" => r.sent <= r.wake + 2 * Latency + Timeout

(* The token presented was good when it was sent.                          *)
Presented(r) ==
  r.stage = "bearer" =>
    /\ Taken(r.token)
    /\ IF r.blip THEN faults > 0 /\ r.sent < r.token.expires_at ELSE r.sent < r.token.refresh_after

SessionOK(r) == Punctual(r) /\ Renewed(r) /\ Presented(r) /\ (r.error = "Expired" => Excused(r))
Room == peer.lifetime \in 0..ReauthFloor \/ Roomy(peer.lifetime)
SessionInv == HandshakeInv /\ SourceOK /\ Room /\ \A c \in Conns : SessionOK(conn[c])

(* A longer session leaves more room.                                      *)
LEMMA RoomGrows ==
  ASSUME NEW x \in Int, NEW y \in Int, x <= y, Roomy(x)
  PROVE  Roomy(y)
<1> DEFINE p == (x * 8) \div 10
           q == (y * 8) \div 10
<1>1. p \in Int /\ q \in Int /\ 10 * p <= 8 * x /\ 8 * x < 10 * p + 10 /\ 10 * q <= 8 * y OBVIOUS
<1>2. x - p <= y - q BY <1>1
<1>3. x - p > 4 * Latency + Timeout /\ x - ReauthFloor > 4 * Latency + Timeout BY DEF Roomy
<1>4. {Latency, Timeout, ReauthFloor} \subseteq Nat BY HandshakeAssumption
<1>5. y - q > 4 * Latency + Timeout /\ y - ReauthFloor > 4 * Latency + Timeout
  <2> HIDE DEF p, q
  <2> QED BY <1>1, <1>2, <1>3, <1>4
<1> QED BY <1>5 DEF Roomy

LEMMA DelayIs ==
  ASSUME NEW lifetime \in Nat
  PROVE  reauth_delay(lifetime) \in Nat /\ reauth_delay(lifetime) >= ReauthFloor
<1>1. (lifetime * 8) \div 10 \in Nat /\ ReauthFloor \in Nat BY HandshakeAssumption
<1> QED BY <1>1 DEF reauth_delay, Larger

(* A message goes out in time.                                             *)
Goes(s, r) ==
  /\ s.sent = now /\ s.due = now + Timeout /\ ~s.lost /\ s.until = r.until /\ s.wake = r.wake
  /\ s.error = r.error /\ (r.refused => s.refused)
Follows(phase, r) ==
  \/ r.stage = "down" /\ phase = "open"
  \/ r.stage = "open" /\ phase = "versions"
  \/ r.stage = "versions" /\ phase = "versions0"
  \/ r.stage \in {"versions", "versions0"} /\ phase = "handshake"
  \/ r.stage = "up" /\ phase = "handshake"
  \/ r.stage = "up" /\ phase = "call" /\ (r.wake = 0 \/ now < r.wake)
  \/ r.stage = "handshake" /\ phase \in {"token", "plain", "first"}
  \/ r.stage = "token" /\ phase = "bearer"
  \/ r.stage = "first" /\ phase = "final"
  \/ r.stage = "bearer" /\ phase = "dummy"

LEMMA GoesOn ==
  ASSUME SourceOK, NEW r, SessionOK(r), NEW s, Goes(s, r), Follows(s.stage, r), Presented(s)
  PROVE  SessionOK(s)
<1>0. now \in Nat /\ Timeout \in Nat /\ Latency \in Nat /\ r.until \in Nat /\ r.wake \in Nat /\ r.sent \in Nat
  BY HandshakeAssumption DEF SourceOK, SessionOK, Punctual, Renewed
<1>1. Punctual(s) BY <1>0 DEF Goes, Punctual
<1>2. ~Excused(s) => ~Excused(r) /\ ~r.lost BY DEF Goes, Excused, SessionOK, Punctual
<1>3. s.error = "Expired" => Excused(s) BY <1>2 DEF SessionOK, Goes
<1>4. s.stage \in {"down", "open", "failed", "versions", "versions0"} => s.until = 0
  BY DEF Goes, Follows, SessionOK, Renewed
<1>5. ASSUME s.until > 0, ~Excused(s)
      PROVE  /\ s.wake > 0 /\ s.wake + 3 * Latency + Timeout < s.until
             /\ s.stage = "up" => now <= s.wake + Latency
             /\ s.stage = "call" => s.sent <= s.wake
             /\ s.stage = "handshake" => s.sent <= s.wake + Latency
             /\ s.stage \in {"token", "plain", "first"} => s.sent <= s.wake + 2 * Latency
             /\ s.stage = "final" => s.sent <= s.wake + 3 * Latency
             /\ s.stage = "bearer" => s.sent <= s.wake + 2 * Latency + Timeout
  <2>1. r.until > 0 /\ ~Excused(r) /\ ~r.lost BY <1>2, <1>5 DEF Goes
  <2>2. Renewed(r) /\ Punctual(r) BY DEF SessionOK
  <2>3. /\ r.wake > 0 /\ r.wake + 3 * Latency + Timeout < r.until
        /\ r.stage = "up" => now <= r.wake + Latency
        /\ r.stage = "handshake" => r.sent <= r.wake + Latency
        /\ r.stage = "first" => r.sent <= r.wake + 2 * Latency
        /\ r.stage = "token" => r.sent <= r.wake + 2 * Latency
    BY <2>1, <2>2 DEF Renewed
  <2>4. /\ r.stage \in {"handshake", "first"} => now <= r.sent + Latency
        /\ r.stage = "token" => now <= r.sent + Timeout
    BY <2>1, <2>2 DEF Punctual, AwaitsReply
  <2>5. s.sent = now /\ s.wake = r.wake /\ s.until = r.until BY DEF Goes
  <2>6. r.stage \notin {"down", "open", "versions", "versions0"} BY <2>1, <2>2 DEF Renewed
  <2>7. s.stage # "up" /\ (s.stage = "call" => r.stage = "up" /\ now < r.wake) BY <2>3 DEF Follows
  <2>8. s.stage = "handshake" => r.stage = "up" BY <2>6 DEF Follows
  <2>9. s.stage \in {"token", "plain", "first"} => r.stage = "handshake" BY DEF Follows
  <2>10. (s.stage = "final" => r.stage = "first") /\ (s.stage = "bearer" => r.stage = "token") BY DEF Follows
  <2>11. /\ s.stage = "call" => now <= r.wake
         /\ s.stage = "handshake" => now <= r.wake + Latency
    BY <1>0, <2>3, <2>7, <2>8
  <2>12. s.stage \in {"token", "plain", "first"} => now <= r.wake + 2 * Latency BY <1>0, <2>3, <2>4, <2>9
  <2>13. /\ s.stage = "final" => now <= r.wake + 3 * Latency
         /\ s.stage = "bearer" => now <= r.wake + 2 * Latency + Timeout
    BY <1>0, <2>3, <2>4, <2>10
  <2> QED BY <2>3, <2>5, <2>7, <2>11, <2>12, <2>13
<1>6. Renewed(s) BY <1>0, <1>4, <1>5 DEF Renewed, Goes
<1> QED BY <1>1, <1>3, <1>6 DEF SessionOK

(* Nothing is under way.                                                   *)
LEMMA GoesUp ==
  ASSUME SourceOK, NEW r, SessionOK(r), r.stage \in {"versions", "versions0", "call"},
         NEW s, s.stage = "up", s.sent = 0, s.lost = FALSE, s.until = r.until, s.wake = r.wake,
         s.error = r.error, s.refused = r.refused
  PROVE  SessionOK(s)
<1>0. now \in Nat /\ Timeout \in Nat /\ Latency \in Nat /\ r.until \in Nat /\ r.wake \in Nat /\ r.sent \in Nat
  BY HandshakeAssumption DEF SourceOK, SessionOK, Punctual, Renewed
<1>1. Punctual(s) /\ Presented(s) BY <1>0 DEF Punctual, Presented, AwaitsReply
<1>2. Excused(s) <=> Excused(r) BY DEF Excused
<1>3. ASSUME r.until > 0, ~Excused(r)
      PROVE  r.wake > 0 /\ r.wake + 3 * Latency + Timeout < r.until /\ now <= r.wake + Latency
  <2>1. Renewed(r) /\ Punctual(r) BY DEF SessionOK
  <2>2. r.stage = "call" /\ ~r.lost BY <1>3, <2>1 DEF Renewed, Punctual, Excused
  <2>3. r.wake > 0 /\ r.wake + 3 * Latency + Timeout < r.until /\ r.sent <= r.wake
    BY <1>3, <2>1, <2>2 DEF Renewed
  <2>4. now <= r.sent + Latency BY <2>1, <2>2 DEF Punctual, AwaitsReply
  <2> QED BY <1>0, <2>3, <2>4
<1>4. Renewed(s) BY <1>0, <1>2, <1>3 DEF Renewed
<1> QED BY <1>1, <1>2, <1>4 DEF SessionOK

(* A connection that has failed.                                           *)
LEMMA GoesDown ==
  ASSUME SourceOK, NEW s, s.stage = "failed", s.sent = 0, s.lost = FALSE, s.until = 0, s.wake = 0,
         s.error = "Expired" => Excused(s)
  PROVE  SessionOK(s)
BY HandshakeAssumption DEF SourceOK, SessionOK, Punctual, Renewed, Presented, AwaitsReply

LEMMA FailsSession ==
  ASSUME SourceOK, NEW r, ConnShape(r), NEW error, error = "Expired" => Excused(r)
  PROVE  /\ SessionOK(Fails(r, error))
         /\ SessionOK([Fails(r, error) EXCEPT !.refused = TRUE])
         /\ SessionOK([Fails(r, error) EXCEPT !.hurt = TRUE])
<1> DEFINE f == Fails(r, error)
<1>1. FailsFacts(f, r, error) BY FailsFields
<1> HIDE DEF f
<1>2. SessionOK(f)
  <2>1. f.error = "Expired" => Excused(f) BY <1>1 DEF FailsFacts, Excused
  <2> QED BY <1>1, <2>1, GoesDown DEF FailsFacts
<1>3. SessionOK([f EXCEPT !.refused = TRUE])
  <2> DEFINE s == [f EXCEPT !.refused = TRUE]
  <2>1. s.stage = "failed" /\ s.sent = 0 /\ s.lost = FALSE /\ s.until = 0 /\ s.wake = 0 /\ s.refused
    BY <1>1 DEF FailsFacts, ConnShape, ConnFields
  <2> HIDE DEF s
  <2>2. SessionOK(s) BY <2>1, GoesDown DEF Excused
  <2> QED BY <2>2 DEF s
<1>4. SessionOK([f EXCEPT !.hurt = TRUE])
  <2> DEFINE s == [f EXCEPT !.hurt = TRUE]
  <2>1. /\ s.stage = "failed" /\ s.sent = 0 /\ s.lost = FALSE /\ s.until = 0 /\ s.wake = 0
        /\ s.refused = r.refused /\ s.error = error
    BY <1>1 DEF FailsFacts, ConnShape, ConnFields
  <2> HIDE DEF s
  <2>2. SessionOK(s) BY <2>1, GoesDown DEF Excused
  <2> QED BY <2>2 DEF s
<1> QED BY <1>2, <1>3, <1>4 DEF f

(* A record that differs in nothing a session depends on.                  *)
Alike(s, r) ==
  /\ s.stage = r.stage /\ s.due = r.due /\ s.sent = r.sent /\ s.lost = r.lost /\ s.token = r.token
  /\ s.until = r.until /\ s.wake = r.wake /\ s.error = r.error /\ s.refused = r.refused /\ s.blip = r.blip
LEMMA AlikeSession ==
  ASSUME NEW r, SessionOK(r), NEW s, Alike(s, r)
  PROVE  SessionOK(s)
<1>1. Excused(s) <=> Excused(r) BY DEF Alike, Excused
<1>2. Punctual(s) BY DEF Alike, SessionOK, Punctual
<1>3. Renewed(s) BY <1>1 DEF Alike, SessionOK, Renewed
<1>4. Presented(s) BY DEF Alike, SessionOK, Presented
<1> QED BY <1>1, <1>2, <1>3, <1>4 DEF Alike, SessionOK

LEMMA SendsSession ==
  ASSUME Clocks, SourceOK, NEW r, ConnShape(r), SessionOK(r), NEW phase \in ConnStages, phase # "bearer",
         Follows(phase, r), NEW key, NEW version \in Int
  PROVE  /\ SessionOK(Sends(r, phase, key, version))
         /\ SessionOK([Sends(r, phase, key, version) EXCEPT !.refused = TRUE])
<1> DEFINE s == Sends(r, phase, key, version)
           d == [s EXCEPT !.refused = TRUE]
<1>1. SendsFacts(s, r, phase, key, version) BY SendsFields
<1> HIDE DEF s
<1>2. d.stage = phase /\ Goes(d, r) BY <1>1 DEF SendsFacts, Goes, ConnShape, ConnFields
<1> HIDE DEF d
<1>3. SessionOK(d) BY <1>2, GoesOn DEF Presented
<1>4. Goes(s, r) /\ s.stage = phase BY <1>1 DEF SendsFacts, Goes
<1>5. SessionOK(s) BY <1>4, GoesOn DEF Presented
<1> QED BY <1>3, <1>5 DEF s, d

LEMMA PresentsSession ==
  ASSUME Clocks, SourceOK, NEW r, ConnShape(r), SessionOK(r), NEW phase \in {"plain", "first"},
         r.stage = "handshake", NEW version \in Int
  PROVE  SessionOK(Presents(r, phase, version))
<1> DEFINE s == Presents(r, phase, version)
<1>1. PresentsFacts(s, r, phase, version) BY PresentsFields DEF ConnStages, Settled, Exchanges
<1> HIDE DEF s
<1>2. Goes(s, r) /\ s.stage = phase /\ Follows(s.stage, r) BY <1>1 DEF PresentsFacts, Goes, Follows
<1>3. SessionOK(s) BY <1>2, GoesOn DEF Presented
<1> QED BY <1>3 DEF s

(* The exchange begins, at connect and again.                              *)
LEMMA AuthenticateSession ==
  ASSUME Clocks, Chosen, SourceOK, NEW r, ConnShape(r), SessionOK(r), r.table = peer.serves,
         r.stage \in {"versions", "versions0", "up"}
  PROVE  SessionOK(authenticate(r))
<1> DEFINE v == negotiate_with(r.table, "SaslHandshake", typed_range("SaslHandshake"))
<1>1. v \in Int BY Negotiated DEF Keys
<1>2. authenticate(r) = IF conf.sasl = "PLAIN" /\ conf.ext THEN Fails(r, "InvalidRequest")
                        ELSE IF v < 1 THEN Fails(r, "Unsupported")
                        ELSE Sends(r, "handshake", "SaslHandshake", v)
  BY DEF authenticate
<1> HIDE DEF v
<1>3. SessionOK(Fails(r, "InvalidRequest")) /\ SessionOK(Fails(r, "Unsupported")) BY FailsSession
<1>4. Follows("handshake", r) /\ "handshake" \in ConnStages BY DEF Follows, ConnStages, Settled
<1>5. SessionOK(Sends(r, "handshake", "SaslHandshake", v)) BY <1>1, <1>4, SendsSession
<1> QED BY <1>2, <1>3, <1>5

LEMMA IdleSession ==
  ASSUME SourceOK, NEW r, ConnShape(r), SessionOK(r), r.stage \in {"versions", "versions0", "call"}
  PROVE  SessionOK([AtRest(r) EXCEPT !.stage = "up"])
<1> DEFINE i == AtRest(r)
           u == [i EXCEPT !.stage = "up"]
<1>1. IdleFacts(i, r) BY IdleFields
<1> HIDE DEF i
<1>2. /\ u.stage = "up" /\ u.sent = 0 /\ u.lost = FALSE /\ u.until = r.until /\ u.wake = r.wake
      /\ u.error = r.error /\ u.refused = r.refused
  BY <1>1 DEF IdleFacts, ConnShape, ConnFields
<1> HIDE DEF u
<1>3. SessionOK(u) BY <1>2, GoesUp
<1> QED BY <1>3 DEF u, i

LEMMA WithTableSession ==
  ASSUME Clocks, Chosen, SourceOK, NEW r, ConnShape(r), SessionOK(r), r.stage \in {"versions", "versions0"}
  PROVE  SessionOK(WithTable(r, peer.serves))
<1> DEFINE s == [r EXCEPT !.table = peer.serves]
<1>1. ConnShape(s) /\ Alike(s, r) /\ s.table = peer.serves BY DEF ConnShape, ConnFields, Alike
<1>2. WithTable(r, peer.serves) = IF conf.sasl = "none" THEN [AtRest(s) EXCEPT !.stage = "up"] ELSE authenticate(s)
  BY DEF WithTable
<1> HIDE DEF s
<1>3. SessionOK(s) /\ s.stage = r.stage BY <1>1, AlikeSession DEF Alike
<1>4. SessionOK([AtRest(s) EXCEPT !.stage = "up"]) /\ SessionOK(authenticate(s))
  BY <1>1, <1>3, IdleSession, AuthenticateSession
<1> QED BY <1>2, <1>4

(* The exchange is over: a session that is long enough is renewed before   *)
(* its end, though the client's timer starts when the answer arrives and   *)
(* the broker's when it was sent (reauth_delay).                           *)
LEMMA AuthenticatedSession ==
  ASSUME Clocks, SourceOK, ReauthFloor > 0, NEW r, ConnShape(r), SessionOK(r), ~r.lost,
         r.stage \in AwaitsReply, NEW lifetime \in Nat, lifetime = 0 \/ Excused(r) \/ Roomy(lifetime)
  PROVE  SessionOK(Authenticated(r, lifetime))
<1> DEFINE s == Authenticated(r, lifetime)
           delay == reauth_delay(lifetime)
<1>1. AuthenticatedFacts(s, r, lifetime) BY AuthenticatedFields
<1> HIDE DEF s
<1>2. delay \in Nat /\ delay > 0 BY DelayIs, HandshakeAssumption
<1>3. /\ s.until = IF lifetime = 0 THEN 0 ELSE r.sent + lifetime
      /\ s.wake = IF lifetime = 0 THEN 0 ELSE now + delay
      /\ s.stage = "up" /\ s.sent = 0 /\ s.lost = FALSE /\ s.error = r.error /\ s.refused = r.refused
  BY <1>1 DEF AuthenticatedFacts
<1>4. lifetime = 0 \/ Excused(r) \/ lifetime - delay > 4 * Latency + Timeout
  BY DEF Roomy, reauth_delay, Larger
<1> HIDE DEF delay
<1>5. /\ now \in Nat /\ r.sent \in Nat /\ Latency \in Nat /\ Timeout \in Nat
      /\ now <= r.sent + Latency /\ r.sent <= now
  BY HandshakeAssumption DEF SourceOK, SessionOK, Punctual
<1>6. Excused(s) <=> Excused(r) BY <1>3 DEF Excused
<1>7. Punctual(s) /\ Presented(s) BY <1>3, <1>5 DEF Punctual, Presented, AwaitsReply
<1>8. s.until \in Nat /\ s.wake \in Nat BY <1>2, <1>3, <1>5
<1>9. ASSUME s.until > 0, ~Excused(s)
      PROVE  s.wake > 0 /\ s.wake + 3 * Latency + Timeout < s.until /\ now <= s.wake + Latency
  <2>1. lifetime # 0 /\ lifetime - delay > 4 * Latency + Timeout BY <1>3, <1>4, <1>6, <1>9
  <2>2. s.until = r.sent + lifetime /\ s.wake = now + delay BY <1>3, <2>1
  <2> QED BY <1>2, <1>5, <2>1, <2>2
<1>10. Renewed(s) BY <1>3, <1>8, <1>9 DEF Renewed
<1>11. SessionOK(s) BY <1>3, <1>6, <1>7, <1>10 DEF SessionOK
<1> QED BY <1>11 DEF s

LEMMA OutcomeSession ==
  ASSUME Clocks, Chosen, SourceOK, Room, ReauthFloor > 0, NEW c, ConnShape(conn[c]), SessionOK(conn[c]),
         ~conn[c].lost, conn[c].stage \in AwaitsReply
  PROVE  SessionOK(auth_outcome(c))
<1> DEFINE r == conn[c]
<1>1. peer.lifetime \in Nat /\ (peer.lifetime = 0 \/ Excused(r) \/ Roomy(peer.lifetime))
  BY HandshakeAssumption DEF Room, Chosen, Excused
<1>2. SessionOK(Authenticated(r, peer.lifetime)) BY <1>1, AuthenticatedSession
<1>3. SessionOK([Fails(r, "Authentication") EXCEPT !.refused = TRUE]) BY FailsSession
<1> QED BY <1>2, <1>3 DEF auth_outcome

(* A token is taken in early enough to leave room in the session it bounds *)
(* (usable_lifetime).                                                      *)
LEMMA BearerSession ==
  ASSUME Clocks, Chosen, SourceOK, Room, RoomForRenewal, NEW c, ConnShape(conn[c]), SessionOK(conn[c]),
         ~conn[c].lost, conn[c].stage = "bearer"
  PROVE  SessionOK(Bearer(c))
<1> DEFINE r == conn[c]
           t == r.token
           left == Expiry(t) - r.sent
<1>0. r.stage \in AwaitsReply /\ ReauthFloor > 0 /\ ReauthFloor \in Nat
  BY HandshakeAssumption DEF AwaitsReply, RoomForRenewal
<1>1. CASE TokenTaken(c)
  <2>1. Bearer(c) = Authenticated(r, SessionOf(c)) BY <1>1 DEF Bearer
  <2>2. Taken(t) /\ r.sent \in Nat BY DEF SessionOK, Presented, Punctual
  <2>3. /\ t.minted \in Int /\ t.life \in Nat /\ t.expires_at \in Int /\ t.refresh_after \in Int
        /\ t.life \in Claims
    BY <2>2 DEF Taken, IsToken
  <2>4. LifeOf(t) \in Nat /\ Expiry(t) \in Int /\ Expiry(t) >= t.minted + LifeOf(t)
    BY <2>3, TokenAssumption DEF LifeOf, parse_token_response, Expiry, Smaller
  <2>5. left \in Nat /\ left > 0 /\ peer.lifetime \in Nat BY <1>1, <2>2, <2>4 DEF TokenTaken, Chosen
  <2>6. SessionOf(c) = IF peer.lifetime = 0 THEN 0 ELSE IF peer.lifetime < left THEN peer.lifetime ELSE left
    BY DEF SessionOf, Smaller
  <2>7. ASSUME ~Excused(r)
        PROVE  Roomy(left)
    <3> DEFINE u == usable_lifetime(LifeOf(t))
    <3>1. r.sent < t.refresh_after BY <2>7 DEF SessionOK, Presented, Excused
    <3>2. Roomy(LifeOf(t) - u - FetchTimeout) BY <2>3 DEF RoomForRenewal, LifeOf
    <3>3. u \in Int /\ FetchTimeout \in Int BY <2>4, TokenAssumption DEF usable_lifetime, Larger, Smaller
    <3> HIDE DEF u
    <3>4. /\ t.refresh_after = t.expires_at - LifeOf(t) + u
          /\ t.expires_at - LifeOf(t) <= t.minted + FetchTimeout
      BY <2>2 DEF Taken, ArrivedAt, u
    <3>5. LifeOf(t) - u - FetchTimeout <= left /\ LifeOf(t) - u - FetchTimeout \in Int
      BY <2>2, <2>3, <2>4, <3>1, <3>3, <3>4
    <3> QED BY <2>5, <3>2, <3>5, RoomGrows
  <2> HIDE DEF left
  <2>8. Excused(r) \/ peer.lifetime = 0 \/ Roomy(peer.lifetime) BY <1>0, <2>5 DEF Room, Excused
  <2>9. SessionOf(c) \in Nat /\ (SessionOf(c) = 0 \/ Excused(r) \/ Roomy(SessionOf(c)))
    BY <2>5, <2>6, <2>7, <2>8
  <2>10. SessionOK(Authenticated(r, SessionOf(c))) BY <1>0, <2>9, AuthenticatedSession
  <2> QED BY <2>1, <2>10
<1>2. CASE ~TokenTaken(c)
  <2>1. Bearer(c) = [Sends(r, "dummy", "SaslAuthenticate", r.version) EXCEPT !.refused = TRUE]
    BY <1>2 DEF Bearer
  <2>2. r.version \in Int /\ Follows("dummy", r) /\ "dummy" \in ConnStages
    BY DEF ConnShape, Follows, ConnStages, Settled, Exchanges
  <2> QED BY <2>1, <2>2, SendsSession
<1> QED BY <1>1, <1>2

LEMMA OfferedSession ==
  ASSUME Clocks, Chosen, SourceOK, NEW c, ConnInv(conn[c]), SessionOK(conn[c]), ~conn[c].lost,
         conn[c].stage = "handshake"
  PROVE  SessionOK(Offered(c))
<1> DEFINE r == conn[c]
           v == version_for(c, "SaslAuthenticate")
           s == [r EXCEPT !.stage = "token", !.due = now + Timeout, !.sent = now]
           phase == IF conf.sasl = "PLAIN" THEN "plain" ELSE "first"
<1>1. r.table = peer.serves /\ 1 \in peer.serves["SaslHandshake"] /\ ConnShape(r)
  BY DEF ConnInv, Versioned, Settled
<1>2. v \in Int /\ v >= 0 BY <1>1, AuthenticateVersion DEF version_for
<1>3. Offered(c) = IF peer.enabled # {} /\ conf.sasl \notin peer.enabled
                   THEN [Fails(r, "Authentication") EXCEPT !.refused = TRUE]
                   ELSE IF conf.sasl = "OAUTHBEARER" THEN s ELSE Presents(r, phase, v)
  BY <1>2 DEF Offered
<1> HIDE DEF v
<1>4. SessionOK([Fails(r, "Authentication") EXCEPT !.refused = TRUE]) BY <1>1, FailsSession
<1>5. s.stage = "token" /\ Goes(s, r) BY <1>1 DEF ConnShape, ConnFields, Goes
<1> HIDE DEF s
<1>6. SessionOK(s) BY <1>5, GoesOn DEF Presented, Follows
<1>7. SessionOK(Presents(r, phase, v)) BY <1>1, <1>2, PresentsSession
<1> QED BY <1>3, <1>4, <1>6, <1>7

LEMMA NegotiateSession ==
  ASSUME Clocks, Chosen, SourceOK, NEW c, ConnShape(conn[c]), SessionOK(conn[c]), conn[c].stage = "versions"
  PROVE  SessionOK(negotiate_versions(c))
<1> DEFINE r == conn[c]
<1>1. SessionOK([Fails(r, "Authentication") EXCEPT !.refused = TRUE]) /\ SessionOK(Fails(r, "Transport"))
  BY FailsSession
<1>2. Follows("versions0", r) /\ "versions0" \in ConnStages /\ 0 \in Int BY DEF Follows, ConnStages
<1>3. SessionOK(Sends(r, "versions0", "ApiVersions", 0)) BY <1>2, SendsSession
<1>4. SessionOK(WithTable(r, peer.serves)) BY WithTableSession
<1> QED BY <1>1, <1>3, <1>4 DEF negotiate_versions

LEMMA ClientFinalSession ==
  ASSUME Clocks, SourceOK, NEW c, ConnShape(conn[c]), SessionOK(conn[c]), conn[c].stage = "first", NEW first
  PROVE  SessionOK(client_final(c, first))
<1>1. Follows("final", conn[c]) /\ "final" \in ConnStages /\ conn[c].version \in Int
  BY DEF Follows, ConnStages, Settled, Exchanges, ConnShape
<1>2. SessionOK(Sends(conn[c], "final", "SaslAuthenticate", conn[c].version)) BY <1>1, SendsSession
<1>3. SessionOK(Fails(conn[c], "Authentication")) BY FailsSession
<1> QED BY <1>2, <1>3 DEF client_final

LEMMA AnsweredSession ==
  ASSUME SessionInv, RoomForRenewal, NEW c \in Conns, Answered(c)
  PROVE  \E s : SessionOK(s) /\ Set(c, s)
<1>1. /\ Clocks /\ Chosen /\ SourceOK /\ Room /\ ConnInv(conn[c]) /\ ConnShape(conn[c]) /\ SessionOK(conn[c])
      /\ ~conn[c].lost /\ conn[c].stage \in AwaitsReply /\ ReauthFloor > 0
  BY DEF SessionInv, HandshakeInv, ConnInv, Answered, RoomForRenewal
<1>11. CASE conn[c].stage = "open" /\ Set(c, Opened(c))
  <2>1. Follows("versions", conn[c]) /\ "versions" \in ConnStages /\ OnMax \in Int
    BY <1>11, HandshakeAssumption DEF Follows, ConnStages
  <2>2. SessionOK(Fails(conn[c], "Transport")) /\ SessionOK(Fails(conn[c], "Authentication"))
    BY <1>1, FailsSession
  <2>3. SessionOK(Sends(conn[c], "versions", "ApiVersions", OnMax)) BY <1>1, <2>1, SendsSession
  <2>4. SessionOK(Opened(c)) BY <2>2, <2>3 DEF Opened
  <2> QED BY <1>11, <2>4
<1>2. CASE conn[c].stage = "versions" /\ Set(c, negotiate_versions(c)) BY <1>1, <1>2, NegotiateSession
<1>3. CASE conn[c].stage = "versions0" /\ Set(c, WithTable(conn[c], peer.serves))
  <2>1. SessionOK(WithTable(conn[c], peer.serves)) BY <1>1, <1>3, WithTableSession
  <2> QED BY <1>3, <2>1
<1>4. CASE conn[c].stage = "handshake" /\ Set(c, Offered(c)) BY <1>1, <1>4, OfferedSession
<1>5. CASE conn[c].stage = "plain" /\ Set(c, auth_outcome(c)) BY <1>1, <1>5, OutcomeSession
<1>6. CASE conn[c].stage = "first" /\ \E first : Set(c, client_final(c, first))
  BY <1>1, <1>6, ClientFinalSession
<1>7. CASE conn[c].stage = "final" /\ Set(c, verify_server_final(c))
  <2>1. SessionOK(Fails(conn[c], "Authentication")) BY <1>1, FailsSession
  <2>2. SessionOK(verify_server_final(c)) BY <1>1, <2>1, OutcomeSession DEF verify_server_final
  <2> QED BY <1>7, <2>2
<1>8. CASE conn[c].stage = "bearer" /\ Set(c, Bearer(c)) BY <1>1, <1>8, BearerSession
<1>9. CASE conn[c].stage = "dummy" /\ Set(c, Rejection(c))
  <2>1. SessionOK(Fails(conn[c], "Authorization")) /\ SessionOK(Fails(conn[c], "Authentication"))
    BY <1>1, FailsSession
  <2>2. SessionOK(Rejection(c)) BY <2>1 DEF Rejection
  <2> QED BY <1>9, <2>2
<1>10. CASE conn[c].stage = "call" /\ Set(c, Called(c))
  <2>1. SessionOK(Called(c)) BY <1>1, <1>10, IdleSession DEF Called
  <2> QED BY <1>10, <2>1
<1> QED BY <1>2, <1>3, <1>4, <1>5, <1>6, <1>7, <1>8, <1>9, <1>10, <1>11 DEF Answered

(* The broker ends no session that was renewed in time: every stage of a   *)
(* renewal is over before the end.                                         *)
LEMMA EndIsExcused ==
  ASSUME SessionInv, NEW c \in Conns, conn[c].until > 0, now >= conn[c].until
  PROVE  Excused(conn[c])
<1> DEFINE r == conn[c]
<1> SUFFICES ASSUME ~Excused(r)
             PROVE  FALSE
  OBVIOUS
<1>1. ConnInv(r) /\ Punctual(r) /\ Renewed(r) /\ now \in Nat /\ Latency \in Nat /\ Timeout \in Nat
  BY HandshakeAssumption DEF SessionInv, HandshakeInv, SessionOK, SourceOK
<1>2. r.stage \in ConnStages /\ r.stage # "dummy" /\ ~r.lost
  BY <1>1 DEF ConnInv, ConnShape, Telling, Punctual, Excused
<1>3. r.sent \in Nat /\ r.wake \in Nat /\ r.until \in Nat BY <1>1 DEF Punctual, Renewed
<1>4. /\ r.wake + 3 * Latency + Timeout < r.until
      /\ r.stage = "up" => now <= r.wake + Latency
      /\ r.stage = "call" => r.sent <= r.wake
      /\ r.stage = "handshake" => r.sent <= r.wake + Latency
      /\ r.stage \in {"token", "plain", "first"} => r.sent <= r.wake + 2 * Latency
      /\ r.stage = "final" => r.sent <= r.wake + 3 * Latency
      /\ r.stage = "bearer" => r.sent <= r.wake + 2 * Latency + Timeout
  BY <1>1 DEF Renewed
<1>5. r.stage \notin {"down", "open", "failed", "versions", "versions0"} BY <1>1 DEF Renewed
<1>6. /\ r.stage \in AwaitsReply \cup {"token"} => now <= r.sent + Timeout
      /\ r.stage \in AwaitsReply => now <= r.sent + Latency
  BY <1>1, <1>2 DEF Punctual
<1>7. r.stage \in {"up", "call", "handshake", "token", "plain", "first", "final", "bearer"}
  BY <1>2, <1>5 DEF ConnStages, Settled, Exchanges
<1>8. CASE r.stage \in {"up", "call", "handshake"} BY <1>1, <1>3, <1>4, <1>6, <1>8 DEF AwaitsReply
<1>9. CASE r.stage \in {"token", "plain", "first"} BY <1>1, <1>3, <1>4, <1>6, <1>9 DEF AwaitsReply
<1>10. CASE r.stage \in {"final", "bearer"} BY <1>1, <1>3, <1>4, <1>6, <1>10 DEF AwaitsReply
<1> QED BY <1>7, <1>8, <1>9, <1>10

(* A connect, a call, a renewal, a deadline, the end of a session.         *)
LEMMA OwnSession ==
  ASSUME SessionInv, NEW c \in Conns,
         Open(c) \/ Call(c) \/ Reauth(c) \/ with_deadline(c) \/ TokenTimeout(c) \/ SessionEnds(c)
  PROVE  \E s : SessionOK(s) /\ Set(c, s)
<1> DEFINE r == conn[c]
<1>1. /\ Clocks /\ Chosen /\ SourceOK /\ ConnInv(r) /\ ConnShape(r) /\ SessionOK(r)
  BY DEF SessionInv, HandshakeInv, ConnInv
<1>2. CASE Open(c)
  <2> DEFINE o == [r EXCEPT !.started = now]
  <2>1. ConnShape(o) /\ Alike(o, r) /\ r.stage = "down"
    BY <1>1, <1>2 DEF Open, ConnShape, ConnFields, Alike, Clocks
  <2>2. Set(c, Sends(o, "open", "none", -1)) BY <1>2 DEF Open
  <2> HIDE DEF o
  <2>3. SessionOK(o) /\ Follows("open", o) /\ "open" \in ConnStages /\ "open" # "bearer" /\ -1 \in Int
    BY <1>1, <2>1, AlikeSession DEF Alike, Follows, ConnStages
  <2>4. SessionOK(Sends(o, "open", "none", -1)) BY <1>1, <2>1, <2>3, SendsSession
  <2> QED BY <2>2, <2>4
<1>3. CASE Call(c)
  <2> DEFINE v == version_for(c, conf.names)
  <2>1. r.table = peer.serves /\ r.stage = "up" /\ (r.wake = 0 \/ now < r.wake)
        /\ conf.names \in Keys \ {"ApiVersions"}
    BY <1>1, <1>3 DEF Call, ConnInv, Versioned, Settled, Chosen, Keys
  <2>2. v \in Int BY <1>1, <2>1, Negotiated DEF version_for
  <2>3. Set(c, Sends(r, "call", conf.names, v)) BY <1>3 DEF Call
  <2> HIDE DEF v
  <2>4. Follows("call", r) /\ "call" \in ConnStages BY <2>1 DEF Follows, ConnStages, Settled
  <2>5. SessionOK(Sends(r, "call", conf.names, v)) BY <1>1, <2>2, <2>4, SendsSession
  <2> QED BY <2>3, <2>5
<1>4. CASE Reauth(c)
  <2>1. r.stage = "up" /\ r.table = peer.serves BY <1>1, <1>4 DEF Reauth, ConnInv, Versioned, Settled
  <2>2. SessionOK(authenticate(r)) BY <1>1, <2>1, AuthenticateSession
  <2> QED BY <1>4, <2>2 DEF Reauth
<1>5. CASE with_deadline(c)
  <2>1. SessionOK(Fails(r, "Timeout")) BY <1>1, FailsSession
  <2>2. r.stage = "call" => SessionOK(Called(c)) BY <1>1, IdleSession DEF Called
  <2> QED BY <1>5, <2>1, <2>2 DEF with_deadline
<1>6. CASE TokenTimeout(c)
  <2>1. SessionOK([Fails(r, "Timeout") EXCEPT !.hurt = TRUE]) BY <1>1, FailsSession
  <2> QED BY <1>6, <2>1 DEF TokenTimeout
<1>7. CASE SessionEnds(c)
  <2>1. Excused(r) BY <1>7, EndIsExcused DEF SessionEnds
  <2>2. SessionOK(Fails(r, "Expired")) BY <1>1, <2>1, FailsSession
  <2> QED BY <1>7, <2>2 DEF SessionEnds
<1> QED BY <1>2, <1>3, <1>4, <1>5, <1>6, <1>7

(* The token that goes out is one to go out with (current_token).          *)
Good(token, blip) ==
  Taken(token) /\ IF blip THEN faults > 0 /\ now < token.expires_at ELSE now < token.refresh_after
LEMMA InitialResponseSession ==
  ASSUME Clocks, Chosen, SourceOK, NEW c, ConnInv(conn[c]), SessionOK(conn[c]), conn[c].stage = "token",
         NEW token, NEW blip, Good(token, blip)
  PROVE  SessionOK(initial_client_response(c, token, blip))
<1> DEFINE r == conn[c]
           v == version_for(c, "SaslAuthenticate")
           p == Presents(r, "bearer", v)
           s == [p EXCEPT !.token = token, !.blip = blip]
<1>1. r.table = peer.serves /\ 1 \in peer.serves["SaslHandshake"] /\ ConnShape(r)
  BY DEF ConnInv, Versioned, Settled
<1>2. v \in Int /\ v >= 0 BY <1>1, AuthenticateVersion DEF version_for
<1>3. initial_client_response(c, token, blip) = s BY <1>2 DEF initial_client_response
<1> HIDE DEF v
<1>4. PresentsFacts(p, r, "bearer", v) BY <1>1, <1>2, PresentsFields DEF ConnStages, Settled, Exchanges
<1> HIDE DEF p
<1>5. s.stage = "bearer" /\ s.token = token /\ s.blip = blip /\ s.sent = now
  BY <1>4 DEF PresentsFacts, ConnShape, ConnFields
<1>6. Goes(s, r) BY <1>4 DEF PresentsFacts, ConnShape, ConnFields, Goes
<1> HIDE DEF s
<1>7. Presented(s) BY <1>5 DEF Presented, Good
<1>8. SessionOK(s) BY <1>5, <1>6, <1>7, GoesOn DEF Follows
<1> QED BY <1>3, <1>8

-----------------------------------------------------------------------------
(* The steps.                                                              *)

(* A step in no time and without a fault.                                  *)
LEMMA SessionStays ==
  ASSUME UNCHANGED <<now, peer, faults>>, \A d \in Conns : SessionOK(conn'[d])
  PROVE  \A d \in Conns : SessionOK(conn[d])'
<1> SUFFICES ASSUME NEW d \in Conns
             PROVE  SessionOK(conn[d])'
  OBVIOUS
<1>1. PICK r : r = conn'[d] /\ SessionOK(r) OBVIOUS
<1>2. Excused(conn[d])' <=> Excused(r) BY <1>1 DEF Excused
<1>3. Punctual(conn[d])' BY <1>1 DEF SessionOK, Punctual
<1>4. Renewed(conn[d])' BY <1>1, <1>2 DEF SessionOK, Renewed
<1>5. Presented(conn[d])' BY <1>1 DEF SessionOK, Presented, Taken, IsToken, ArrivedAt, LifeOf
<1> QED BY <1>1, <1>2, <1>3, <1>4, <1>5 DEF SessionOK

LEMMA SessionKeeps ==
  ASSUME SessionInv, UNCHANGED <<now, peer, faults>>,
         conn' = conn \/ \E c \in Conns : \E s : SessionOK(s) /\ Set(c, s)
  PROVE  \A d \in Conns : SessionOK(conn[d])'
<1>1. ASSUME NEW d \in Conns
      PROVE  SessionOK(conn'[d])
  BY DEF SessionInv, HandshakeInv, Set
<1> QED BY <1>1, SessionStays

(* A fault excuses every session.                                          *)
Loose(r) ==
  /\ r.sent \in Nat /\ r.sent <= now
  /\ r.stage \in AwaitsReply \cup {"token"} => r.due = r.sent + Timeout /\ now <= r.due
  /\ r.stage \in AwaitsReply /\ ~r.lost => now <= r.sent + Latency
  /\ r.until \in Nat /\ r.wake \in Nat
  /\ r.stage \in {"down", "open", "failed", "versions", "versions0"} => r.until = 0
  /\ Presented(r)
LEMMA SessionFault ==
  ASSUME SessionInv, faults' = faults + 1, UNCHANGED <<now, peer>>,
         \A d \in Conns : Loose(conn'[d])
  PROVE  \A d \in Conns : SessionOK(conn[d])'
<1> SUFFICES ASSUME NEW d \in Conns
             PROVE  SessionOK(conn[d])'
  OBVIOUS
<1>0. faults' > 0 BY DEF SessionInv, SourceOK
<1>1. PICK r : r = conn'[d] /\ Loose(r) OBVIOUS
<1>2. Excused(conn[d])' BY <1>0 DEF Excused
<1>3. Punctual(conn[d])' BY <1>0, <1>1 DEF Loose, Punctual
<1>4. Renewed(conn[d])' BY <1>1, <1>2 DEF Loose, Renewed
<1>5. Presented(conn[d])' BY <1>0, <1>1 DEF Loose, Presented, Taken, IsToken, ArrivedAt, LifeOf
<1> QED BY <1>2, <1>3, <1>4, <1>5 DEF SessionOK

LEMMA SessionLoose ==
  ASSUME NEW r, SessionOK(r)
  PROVE  Loose(r)
BY DEF SessionOK, Punctual, Renewed, Loose

LEMMA FaultSession ==
  ASSUME SessionInv, NEW c \in Conns, Lost(c) \/ Closed(c)
  PROVE  \A d \in Conns : SessionOK(conn[d])'
<1>1. faults' = faults + 1 /\ UNCHANGED <<now, peer>> /\ DOMAIN conn = Conns
  BY DEF Lost, Closed, SessionInv, HandshakeInv
<1>2. ConnShape(conn[c]) /\ SessionOK(conn[c]) /\ SourceOK BY DEF SessionInv, HandshakeInv, ConnInv
<1>3. \E s : Loose(s) /\ Set(c, s)
  <2>1. CASE Lost(c)
    <3> DEFINE s == [conn[c] EXCEPT !.lost = TRUE, !.hurt = TRUE]
    <3>1. /\ s.stage = conn[c].stage /\ s.due = conn[c].due /\ s.sent = conn[c].sent /\ s.lost = TRUE
          /\ s.until = conn[c].until /\ s.wake = conn[c].wake /\ s.token = conn[c].token
          /\ s.blip = conn[c].blip
      BY <1>2 DEF ConnShape, ConnFields
    <3>2. Set(c, s) BY <2>1 DEF Lost
    <3> HIDE DEF s
    <3>3. Loose(s) BY <1>2, <3>1, SessionLoose DEF Loose, Presented
    <3> QED BY <3>2, <3>3
  <2>2. CASE Closed(c)
    <3>1. SessionOK([Fails(conn[c], "Closed") EXCEPT !.hurt = TRUE]) BY <1>2, FailsSession
    <3> QED BY <2>2, <3>1, SessionLoose DEF Closed
  <2> QED BY <2>1, <2>2
<1>4. ASSUME NEW d \in Conns
      PROVE  Loose(conn'[d])
  <2>1. Loose(conn[d]) BY SessionLoose DEF SessionInv
  <2> QED BY <1>1, <1>3, <2>1 DEF Set
<1> QED BY <1>1, <1>4, SessionFault

(* What the token source does (current_token).                             *)
LEMMA SourceKeeps ==
  ASSUME SourceOK, Clocks, NEW c, now' = now, faults' \in Nat, faults' >= faults,
         \/ UNCHANGED tvars \/ StartFetch(c) \/ Fetched(c) \/ FetchFails(c) \/ Abandon(c)
         \/ \E claim \in Claims : Mint(claim)
         \/ Stuck /\ faults' > 0
  PROVE  SourceOK'
<1> DEFINE FetchOK(f) ==
             /\ f.since \in Nat /\ f.since <= now
             /\ f.by # 0 /\ ~f.stuck => now <= f.since + FetchTimeout
             /\ f.stuck => faults' > 0
             /\ f.answer # NoToken =>
                  /\ ~f.stuck /\ f.by # 0 /\ f.answer.life \in Claims
                  /\ f.since <= f.answer.minted /\ f.answer.minted <= now
<1>0. now \in Nat /\ faults \in Nat /\ FetchTimeout \in Nat BY TokenAssumption DEF SourceOK
<1>1. FetchOK(fetch) /\ DOMAIN fetch = {"by", "since", "answer", "stuck"} /\ IsToken(fetch.answer)
  BY <1>0 DEF SourceOK, Clocks
<1>2. FetchOK(NoFetch) BY <1>0 DEF NoFetch
<1>3. SUFFICES FetchOK(fetch') /\ (cached' = NoToken \/ Taken(cached'))
  BY <1>0 DEF SourceOK, Taken, IsToken, ArrivedAt, LifeOf
<1>4. CASE UNCHANGED tvars \/ FetchFails(c) \/ Abandon(c)
  <2>1. cached' = cached /\ (fetch' = fetch \/ fetch' = NoFetch) BY <1>4 DEF tvars, FetchFails, Abandon
  <2> QED BY <1>1, <1>2, <2>1 DEF SourceOK
<1>5. CASE StartFetch(c)
  <2>1. cached' = cached /\ fetch' = [NoFetch EXCEPT !.by = c, !.since = now] BY <1>5 DEF StartFetch
  <2>2. fetch'.since = now /\ fetch'.stuck = FALSE /\ fetch'.answer = NoToken BY <2>1 DEF NoFetch
  <2>3. FetchOK(fetch') BY <1>0, <2>2
  <2> QED BY <2>1, <2>3 DEF SourceOK
<1>6. CASE Stuck /\ faults' > 0
  <2>1. cached' = cached /\ fetch' = [fetch EXCEPT !.stuck = TRUE] /\ fetch.answer = NoToken BY <1>6 DEF Stuck
  <2>2. fetch'.since = fetch.since /\ fetch'.stuck = TRUE /\ fetch'.answer = NoToken BY <1>1, <2>1
  <2>3. FetchOK(fetch') BY <1>1, <1>6, <2>2
  <2> QED BY <2>1, <2>3 DEF SourceOK
<1>7. CASE \E claim \in Claims : Mint(claim)
  <2>1. PICK claim \in Claims : Mint(claim) BY <1>7
  <2> DEFINE t == [NoToken EXCEPT !.minted = now, !.life = claim]
  <2>2. t.minted = now /\ t.life = claim BY DEF NoToken
  <2>3. cached' = cached /\ fetch' = [fetch EXCEPT !.answer = t] /\ fetch.by # 0 /\ ~fetch.stuck
    BY <2>1 DEF Mint
  <2> HIDE DEF t
  <2>4. fetch'.since = fetch.since /\ fetch'.stuck = fetch.stuck /\ fetch'.answer = t /\ fetch'.by = fetch.by
    BY <1>1, <2>3
  <2>5. FetchOK(fetch') BY <1>0, <1>1, <2>2, <2>3, <2>4
  <2> QED BY <2>3, <2>5 DEF SourceOK
<1>8. CASE Fetched(c)
  <2> DEFINE a == fetch.answer
             lifetime == parse_token_response(a.life)
             usable == usable_lifetime(lifetime)
  <2>1. lifetime \in Nat BY <1>1, TokenAssumption DEF parse_token_response, Smaller, IsToken
  <2> HIDE DEF lifetime
  <2>2. usable \in Int BY <2>1, TokenAssumption DEF usable_lifetime, Larger, Smaller
  <2>3. /\ fetch' = NoFetch /\ a # NoToken
        /\ cached' = [a EXCEPT !.refresh_after = now + usable, !.expires_at = now + lifetime]
    BY <1>8 DEF Fetched, lifetime
  <2>4. /\ a.life \in Claims /\ a.minted \in Int /\ a.minted <= now /\ now <= a.minted + FetchTimeout
    <3>1. /\ ~fetch.stuck /\ fetch.by # 0 /\ a.life \in Claims /\ fetch.since <= a.minted /\ a.minted <= now
      BY <1>1, <2>3
    <3>2. now <= fetch.since + FetchTimeout /\ fetch.since \in Nat /\ a.minted \in Int
      BY <1>1, <3>1 DEF IsToken
    <3> QED BY <1>0, <3>1, <3>2
  <2> HIDE DEF usable
  <2>5. /\ IsToken(cached') /\ cached'.life = a.life /\ cached'.minted = a.minted
        /\ cached'.refresh_after = now + usable /\ cached'.expires_at = now + lifetime
    BY <1>0, <1>1, <2>1, <2>2, <2>3 DEF IsToken, TokenFields
  <2>6. LifeOf(cached') = lifetime BY <2>5 DEF LifeOf, lifetime
  <2>7. ArrivedAt(cached') = now BY <1>0, <2>1, <2>5, <2>6 DEF ArrivedAt
  <2>8. Taken(cached') BY <2>4, <2>5, <2>6, <2>7 DEF Taken, usable
  <2> QED BY <1>2, <2>3, <2>8
<1> QED BY <1>4, <1>5, <1>6, <1>7, <1>8

(* The token step of an exchange.                                          *)
LEMMA TokenSession ==
  ASSUME SessionInv, RoomForRenewal, NEW c \in Conns, Token(c)
  PROVE  SourceOK' /\ \A d \in Conns : SessionOK(conn[d])'
<1>1. /\ Clocks /\ Chosen /\ ConnInv(conn[c]) /\ ConnShape(conn[c]) /\ conn[c].stage = "token"
      /\ SourceOK /\ SessionOK(conn[c])
  BY DEF SessionInv, HandshakeInv, ConnInv, Token
<1>2. UNCHANGED <<now, peer, faults>> /\ faults \in Nat BY <1>1 DEF Token, SourceOK
<1>3. SourceOK'
  <2>1. UNCHANGED tvars \/ StartFetch(c) \/ Fetched(c) \/ FetchFails(c) BY DEF Token, UseCached
  <2>2. now' = now /\ faults' \in Nat /\ faults' >= faults BY <1>2
  <2> QED BY <1>1, <2>1, <2>2, SourceKeeps
<1>4. CASE \E token, blip : Good(token, blip) /\ Set(c, initial_client_response(c, token, blip))
  <2>1. PICK token, blip : Good(token, blip) /\ Set(c, initial_client_response(c, token, blip)) BY <1>4
  <2>2. SessionOK(initial_client_response(c, token, blip)) BY <1>1, <2>1, InitialResponseSession
  <2> QED BY <1>2, <1>3, <2>1, <2>2, SessionKeeps
<1>5. CASE UNCHANGED conn BY <1>2, <1>3, <1>5, SessionKeeps
<1>6. CASE Set(c, [Fails(conn[c], "TokenEndpoint") EXCEPT !.hurt = TRUE])
  <2>1. SessionOK([Fails(conn[c], "TokenEndpoint") EXCEPT !.hurt = TRUE]) BY <1>1, FailsSession
  <2> QED BY <1>2, <1>3, <1>6, <2>1, SessionKeeps
<1>7. IsFresh => Good(cached, FALSE) BY <1>1 DEF IsFresh, SourceOK, Good
<1>8. FetchFails(c) /\ StillGood => Good(cached, TRUE) BY <1>1 DEF FetchFails, StillGood, SourceOK, Good
<1>9. Fetched(c) => Good(cached', FALSE)
  <2> SUFFICES ASSUME Fetched(c)
               PROVE  Good(cached', FALSE)
    OBVIOUS
  <2> DEFINE a == fetch.answer
             lifetime == parse_token_response(a.life)
             usable == usable_lifetime(lifetime)
  <2>1. cached' = [a EXCEPT !.refresh_after = now + usable, !.expires_at = now + lifetime] BY DEF Fetched
  <2>2. usable > 0 /\ a.life \in Claims BY <1>1 DEF RoomForRenewal, SourceOK, Fetched
  <2>3. IsToken(a) /\ now \in Nat /\ lifetime \in Nat
    BY <1>1, TokenAssumption DEF Clocks, SourceOK, parse_token_response, Smaller, IsToken
  <2> HIDE DEF lifetime
  <2>4. usable \in Int BY <2>3, TokenAssumption DEF usable_lifetime, Larger, Smaller
  <2> HIDE DEF usable
  <2>5. cached'.refresh_after = now + usable /\ cached'.minted = a.minted
    BY <2>1, <2>3 DEF IsToken, TokenFields
  <2>6. Taken(cached')
    <3>1. cached' # NoToken
      <4>1. fetch.since \in Nat /\ fetch.since <= a.minted /\ a.minted \in Int
        BY <1>1, <2>3 DEF SourceOK, Fetched, IsToken
      <4>2. NoToken.minted = -1 BY DEF NoToken
      <4> QED BY <2>5, <4>1, <4>2
    <3>2. cached' = NoToken \/ Taken(cached') BY <1>3 DEF SourceOK, Taken, IsToken, ArrivedAt, LifeOf
    <3> QED BY <3>1, <3>2
  <2> QED BY <2>2, <2>3, <2>4, <2>5, <2>6 DEF Good
<1> QED BY <1>4, <1>5, <1>6, <1>7, <1>8, <1>9 DEF Token, UseCached

(* Time passes, to a moment that is due and no further.                    *)
LEMMA TickSession ==
  ASSUME SessionInv, TimePasses
  PROVE  SourceOK' /\ \A d \in Conns : SessionOK(conn[d])'
<1>1. PICK t \in (IF \E c \in Conns : Busy(c) THEN {now + 1} ELSE Moments) :
        /\ now < t
        /\ \A c \in Conns :
             /\ conn[c].stage \in AwaitsReply /\ ~conn[c].lost => t <= conn[c].sent + Latency
             /\ Busy(c) => t <= conn[c].due
             /\ conn[c].stage = "up" /\ conn[c].wake > 0 => t <= conn[c].wake
        /\ fetch.by # 0 /\ ~fetch.stuck => t <= fetch.since + FetchTimeout
        /\ now' = t
        /\ UNCHANGED <<cached, fetch, conf, peer, conn, faults>>
  BY DEF TimePasses
<1>2. t \in Int
  <2>1. now \in Int /\ cached.refresh_after \in Int /\ cached.expires_at \in Int
    BY DEF SessionInv, HandshakeInv, Clocks, IsToken
  <2>2. \A c \in Conns : conn[c].wake \in Int /\ conn[c].until \in Int
    BY DEF SessionInv, HandshakeInv, ConnInv, ConnShape
  <2> QED BY <1>1, <2>1, <2>2 DEF Moments
<1>3. now \in Nat /\ t \in Nat /\ Latency \in Nat BY <1>1, <1>2, HandshakeAssumption DEF SessionInv, SourceOK
<1>4. SourceOK'
  <2>1. /\ faults \in Nat /\ (cached = NoToken \/ Taken(cached)) /\ fetch.since \in Nat /\ fetch.since <= now
        /\ fetch.stuck => faults > 0
        /\ fetch.answer # NoToken =>
             /\ ~fetch.stuck /\ fetch.by # 0 /\ fetch.answer.life \in Claims
             /\ fetch.since <= fetch.answer.minted /\ fetch.answer.minted <= now
    BY DEF SessionInv, SourceOK
  <2>2. cached' = NoToken \/ Taken(cached)' BY <1>1, <2>1 DEF Taken, IsToken, ArrivedAt, LifeOf
  <2>3. fetch.answer.minted \in Int BY DEF SessionInv, HandshakeInv, Clocks, IsToken
  <2>4. fetch.since <= t /\ (fetch.answer # NoToken => fetch.answer.minted <= t) BY <1>1, <1>3, <2>1, <2>3
  <2> QED BY <1>1, <1>3, <2>1, <2>2, <2>4 DEF SourceOK
<1>5. ASSUME NEW d \in Conns
      PROVE  SessionOK(conn[d])'
  <2> DEFINE r == conn[d]
  <2>1. SessionOK(r) /\ conn'[d] = r BY <1>1 DEF SessionInv
  <2>2. Excused(conn[d])' <=> Excused(r) BY <1>1, <2>1 DEF Excused
  <2>3. Presented(conn[d])' BY <1>1, <2>1 DEF SessionOK, Presented, Taken, IsToken, ArrivedAt, LifeOf
  <2>4. Punctual(conn[d])'
    <3>1. /\ r.sent \in Nat /\ r.sent <= now /\ (r.lost => faults > 0)
          /\ r.stage \in AwaitsReply \cup {"token"} => r.due = r.sent + Timeout
      BY <2>1 DEF SessionOK, Punctual
    <3>2. r.sent <= t BY <1>1, <1>3, <3>1
    <3>3. /\ r.stage \in AwaitsReply \cup {"token"} => t <= r.due
          /\ r.stage \in AwaitsReply /\ ~r.lost => t <= r.sent + Latency
      BY <1>1 DEF Busy
    <3> QED BY <1>1, <2>1, <3>1, <3>2, <3>3 DEF Punctual
  <2>5. Renewed(conn[d])'
    <3>1. r.until \in Nat /\ r.wake \in Nat
          /\ (r.stage \in {"down", "open", "failed", "versions", "versions0"} => r.until = 0)
      BY <2>1 DEF SessionOK, Renewed
    <3>2. ASSUME r.until > 0, ~Excused(r)
          PROVE  /\ r.wake > 0 /\ r.wake + 3 * Latency + Timeout < r.until
                 /\ r.stage = "up" => t <= r.wake + Latency
                 /\ r.stage = "call" => r.sent <= r.wake
                 /\ r.stage = "handshake" => r.sent <= r.wake + Latency
                 /\ r.stage \in {"token", "plain", "first"} => r.sent <= r.wake + 2 * Latency
                 /\ r.stage = "final" => r.sent <= r.wake + 3 * Latency
                 /\ r.stage = "bearer" => r.sent <= r.wake + 2 * Latency + Timeout
      <4>1. /\ r.wake > 0 /\ r.wake + 3 * Latency + Timeout < r.until
            /\ r.stage = "call" => r.sent <= r.wake
            /\ r.stage = "handshake" => r.sent <= r.wake + Latency
            /\ r.stage \in {"token", "plain", "first"} => r.sent <= r.wake + 2 * Latency
            /\ r.stage = "final" => r.sent <= r.wake + 3 * Latency
            /\ r.stage = "bearer" => r.sent <= r.wake + 2 * Latency + Timeout
        BY <2>1, <3>2 DEF SessionOK, Renewed
      <4>2. r.stage = "up" => t <= r.wake + Latency
        <5>1. r.stage = "up" => t <= r.wake BY <1>1, <4>1
        <5> QED BY <1>3, <3>1, <5>1
      <4> QED BY <4>1, <4>2
    <3> QED BY <1>1, <2>1, <2>2, <3>1, <3>2 DEF Renewed
  <2>6. conn'[d].error = "Expired" => Excused(conn[d])' BY <2>1, <2>2 DEF SessionOK
  <2> QED BY <2>3, <2>4, <2>5, <2>6 DEF SessionOK
<1> QED BY <1>4, <1>5

LEMMA InitSession == RoomForRenewal /\ HandshakeInit => SessionInv
<1> SUFFICES ASSUME RoomForRenewal, HandshakeInit
             PROVE  SessionInv
  OBVIOUS
<1>1. HandshakeInv BY HandshakeInitInv
<1>2. Room BY DEF RoomForRenewal, HandshakeInit, Room
<1>3. SourceOK BY TokenAssumption DEF SourceOK, HandshakeInit, NoFetch
<1>4. ASSUME NEW c \in Conns
      PROVE  SessionOK(conn[c])
  <2>1. conn[c] = Down BY DEF HandshakeInit
  <2>2. SessionOK(Down)
    BY HandshakeAssumption DEF HandshakeInit, SessionOK, Punctual, Renewed, Presented, Down, AwaitsReply
  <2> QED BY <2>1, <2>2
<1> QED BY <1>1, <1>2, <1>3, <1>4 DEF SessionInv

LEMMA StepSession == RoomForRenewal /\ SessionInv /\ [HandshakeNext]_hvars => SessionInv'
<1> SUFFICES ASSUME RoomForRenewal, SessionInv, [HandshakeNext]_hvars
             PROVE  SessionInv'
  OBVIOUS
<1>1. HandshakeInv' /\ SourceOK /\ Clocks /\ faults \in Nat /\ Room
  BY StepInv DEF SessionInv, HandshakeInv, SourceOK
<1>2. peer' = peer
  BY DEF HandshakeNext, hvars, TimePasses, Endpoint, Open, Answered, Lost, Closed, with_deadline, Token, TokenTimeout,
         Call, Reauth, SessionEnds
<1>3. Room' BY <1>1, <1>2 DEF Room
<1>4. SUFFICES SourceOK' /\ \A d \in Conns : SessionOK(conn[d])' BY <1>1, <1>3 DEF SessionInv
<1>5. ASSUME cached' = cached, fetch' = fetch, now' = now, faults' \in Nat, faults' >= faults
      PROVE  SourceOK'
  BY <1>1, <1>5 DEF SourceOK, Taken, IsToken, ArrivedAt, LifeOf
<1>6. CASE UNCHANGED hvars
  <2>1. UNCHANGED <<now, cached, fetch, peer, conn, faults>> BY <1>6 DEF hvars
  <2>2. SourceOK' BY <1>1, <1>5, <2>1
  <2> QED BY <2>1, <2>2, SessionKeeps
<1>7. CASE TimePasses BY <1>7, TickSession
<1>8. CASE Endpoint
  <2>1. UNCHANGED <<now, peer, conn>> BY <1>8 DEF Endpoint
  <2>2. CASE (\E claim \in Claims : Mint(claim)) /\ UNCHANGED faults
    <3>1. \A d \in Conns : SessionOK(conn[d])' BY <2>1, <2>2, SessionKeeps
    <3>2. SourceOK' BY <1>1, <2>1, <2>2, SourceKeeps
    <3> QED BY <3>1, <3>2
  <2>3. CASE Stuck /\ faults' = faults + 1
    <3>1. \A d \in Conns : Loose(conn'[d]) BY <2>1, SessionLoose DEF SessionInv
    <3>2. \A d \in Conns : SessionOK(conn[d])' BY <2>1, <2>3, <3>1, SessionFault
    <3>3. faults' \in Nat /\ faults' > 0 /\ faults' >= faults BY <1>1, <2>3
    <3>4. SourceOK' BY <1>1, <2>1, <2>3, <3>3, SourceKeeps
    <3> QED BY <3>2, <3>4
  <2> QED BY <1>8, <2>2, <2>3 DEF Endpoint
<1>9. ASSUME NEW c \in Conns, Token(c)
      PROVE  SourceOK' /\ \A d \in Conns : SessionOK(conn[d])'
  BY <1>9, TokenSession
<1>10. ASSUME NEW c \in Conns, Lost(c) \/ Closed(c)
       PROVE  SourceOK' /\ \A d \in Conns : SessionOK(conn[d])'
  <2>1. cached' = cached /\ fetch' = fetch /\ now' = now /\ faults' = faults + 1 BY <1>10 DEF Lost, Closed
  <2>2. SourceOK' BY <1>1, <1>5, <2>1
  <2> QED BY <1>10, <2>2, FaultSession
<1>11. ASSUME NEW c \in Conns, Open(c) \/ Call(c) \/ Reauth(c) \/ with_deadline(c) \/ Answered(c)
       PROVE  SourceOK' /\ \A d \in Conns : SessionOK(conn[d])'
  <2>1. UNCHANGED <<now, cached, fetch, peer, faults>>
    BY <1>11 DEF Open, Call, Reauth, with_deadline, Answered
  <2>2. \E s : SessionOK(s) /\ Set(c, s) BY <1>11, OwnSession, AnsweredSession
  <2>3. SourceOK' BY <1>1, <1>5, <2>1
  <2> QED BY <2>1, <2>2, <2>3, SessionKeeps
<1>12. ASSUME NEW c \in Conns, TokenTimeout(c) \/ SessionEnds(c)
       PROVE  SourceOK' /\ \A d \in Conns : SessionOK(conn[d])'
  <2>1. UNCHANGED <<now, peer, faults>> /\ Abandon(c) BY <1>12 DEF TokenTimeout, SessionEnds
  <2>2. \E s : SessionOK(s) /\ Set(c, s) BY <1>12, OwnSession
  <2>3. SourceOK' BY <1>1, <2>1, SourceKeeps
  <2> QED BY <2>1, <2>2, <2>3, SessionKeeps
<1> QED BY <1>6, <1>7, <1>8, <1>9, <1>10, <1>11, <1>12 DEF HandshakeNext

(* No session ends while the answers come in time, if a fifth of its life  *)
(* is more than its renewal takes, though it may be bounded by a token     *)
(* that is cached and shared; and a token that is handed out is alive at   *)
(* its issuer (reauth_delay, usable_lifetime, current_token).              *)
THEOREM SessionsAreKept ==
  ASSUME RoomForRenewal
  PROVE  HandshakeSpecification => []SessionSound
<1>1. HandshakeInit => SessionInv BY InitSession
<1>2. SessionInv /\ [HandshakeNext]_hvars => SessionInv' BY StepSession
<1>3. SessionInv => SessionSound
  <2> SUFFICES ASSUME SessionInv
               PROVE  SessionSound
    OBVIOUS
  <2>1. SessionKept BY DEF SessionInv, SessionOK, SessionKept, Excused
  <2>2. ASSUME NEW c \in Conns, conn[c].stage = "bearer", conn[c].sent = now
        PROVE  LET t == conn[c].token
                   slow == t.expires_at - Expiry(t)
               IN IF conn[c].blip THEN now < t.expires_at
                  ELSE slow <= t.expires_at - t.refresh_after => now < Expiry(t)
    <3> DEFINE t == conn[c].token
    <3>1. /\ Taken(t) /\ now \in Nat
          /\ IF conn[c].blip THEN now < t.expires_at ELSE now < t.refresh_after
      BY <2>2 DEF SessionInv, SessionOK, Presented, SourceOK
    <3>2. t.expires_at \in Int /\ t.refresh_after \in Int /\ Expiry(t) \in Int
      BY <3>1, TokenAssumption DEF Taken, IsToken, Expiry
    <3> QED BY <3>1, <3>2
  <2> QED BY <2>1, <2>2 DEF SessionSound, TokenFresh
<1> QED BY <1>1, <1>2, <1>3, PTL DEF HandshakeSpecification
=============================================================================

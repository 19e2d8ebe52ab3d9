------------------------- MODULE TransactionsProofs -------------------------
(***************************************************************************)
(* Proofs about a transactional producer, for any number of partitions,    *)
(* records, transactions, rival producers, lost answers and late requests: *)
(* the types, that every write of a transaction is to a partition the      *)
(* coordinator will write a marker to, and that a transaction ends as one. *)
(***************************************************************************)
EXTENDS Transactions, FiniteSetTheorems, TLAPS

(* The types, variable by variable.  They are inductive with two facts     *)
(* more: a batch on its way holds a record, and who is given an identity   *)
(* is given one.                                                           *)
TxnType == [identity : Nat, open : BOOLEAN, enrolled : SUBSET Partitions, fenced : BOOLEAN]
ActorType == [identity : Nat, next : [Partitions -> Nat],
              pending : [Partitions -> Seq(Records)], missing : SUBSET Partitions]
SendCodes == {"ok", "refused", "fenced", "out_of_order", "unknown"}
BatchType == [rec : 0..NumRecords, epoch : Nat, seq : Nat, inTxn : BOOLEAN, lost : BOOLEAN,
              code : SendCodes \cup {"none"}]
CopyType == [at : Partitions, rec : Records, epoch : Nat, seq : Nat, inTxn : BOOLEAN]
AskType == [op : {"none", "init", "add", "offsets", "commit", "abort"},
            epoch : Nat, parts : SUBSET Places, code : Codes, got : Int]
CoordType == [epoch : Nat, parts : SUBSET Places,
              status : {"empty", "ongoing", "committed", "aborted"}, bumps : BOOLEAN]

TxnT == txn \in TxnType
AppT == app \in Calls /\ failed \in BOOLEAN
BegunT == begun \in 0..MaxTxns
ToldT == told \in [1..MaxTxns -> {"nothing", "committed", "aborted"}]
HandT == handed \in 0..NumRecords /\ within \in [Records -> 0..MaxTxns]
CommandsT == commands \in Seq(Records \cup {Flush})
ActorT == actor \in ActorType
PcT == pc \in {"select", "missing", "enrol", "enrolling", "dispatch"}
WaitingT == waiting \in BOOLEAN
FlightT ==
  /\ flight \in [Partitions -> BatchType]
  /\ \A p \in Partitions : flight[p] # NoBatch => flight[p].rec \in Records
OutcomeT == outcome \in [Records -> {"pending", "ok", "failed"}]
AskT ==
  /\ ask \in [{"app", "actor"} -> AskType]
  /\ ask["app"].op = "init" /\ ask["app"].code = "ok" => ask["app"].got \in Nat \ {0}
CoordT == coord \in CoordType
LogT == log \in [Places -> Seq(EntryType)]
FenceT == fence \in [Places -> Nat]
StrayT == stray \subseteq CopyType /\ unsure \subseteq Records
CountT == losses \in 0..MaxLosses /\ rivals \in 0..MaxRivals

TypeInv ==
  /\ TxnT /\ AppT /\ BegunT /\ ToldT /\ HandT /\ CommandsT /\ ActorT /\ PcT /\ WaitingT
  /\ FlightT /\ OutcomeT /\ AskT /\ CoordT /\ LogT /\ FenceT /\ StrayT /\ CountT

-----------------------------------------------------------------------------
(* The inductive invariant.                                                *)

(* What is written to p under epoch e will have a marker, or is refused.   *)
Live(p, e) ==
  \/ coord.status = "ongoing" /\ p \in coord.parts /\ coord.epoch = e
  \/ fence[p] > e

Empty == \A p \in Partitions : flight[p] = NoBatch /\ actor.pending[p] = <<>>
Ending == app \in {"end_commit", "end_abort"}
NoRecords == \A i \in DOMAIN commands : commands[i] = Flush

(* Nothing is on its way, and nothing more will be handed over.            *)
Barren == Empty /\ NoRecords /\ (Ending \/ failed)
Idle == Empty /\ commands = <<>> /\ pc = "select"

(* Who waits for which answer.                                             *)
AsksOK ==
  /\ LET A == ask["actor"]
     IN \/ A.op = "none"
        \/ A.op = "add" /\ pc = "enrolling" /\ A.epoch = txn.identity /\ A.parts = actor.missing
  /\ LET A == ask["app"]
     IN /\ A.op = "init" => app = "init"
        /\ A.op \in {"add", "offsets"} => app = "offsets" /\ A.parts = {Offsets}
        /\ A.op = "commit" => app = "end_commit"
        /\ A.op = "abort" => app = "end_abort"
  /\ app = "init" => txn.identity = NoIdentity
  /\ txn.open => txn.identity # NoIdentity
  /\ app = "offsets" => ~failed

(* A flush is the last command, and the application waits for it.          *)
FlushOK ==
  /\ \A i \in DOMAIN commands :
       commands[i] = Flush => i = Len(commands) /\ app \in {"commit", "abort"} /\ ~waiting
  /\ waiting => app \in {"commit", "abort"} /\ commands = <<>>

(* Before the first transaction, between two, and while one ends, nothing  *)
(* is on its way.                                                          *)
IdleOK == txn.identity = NoIdentity \/ (~txn.open /\ ~txn.fenced) \/ Ending => Idle

ActorOK ==
  /\ pc # "select" => actor.identity = txn.identity
  /\ pc \in {"enrol", "enrolling"} =>
       actor.missing # {} /\ \A p \in actor.missing : actor.pending[p] # <<>>

(* No epoch is newer than the coordinator's.                               *)
EpochsOK ==
  /\ \A p \in Places : fence[p] <= coord.epoch
  /\ \A p \in Partitions : flight[p].epoch <= coord.epoch
  /\ \A a \in {"app", "actor"} : ask[a].epoch <= coord.epoch /\ ask[a].got <= coord.epoch
  /\ txn.identity <= coord.epoch /\ actor.identity <= coord.epoch

(* What was enrolled, what is on its way and what is about to be written.  *)
LiveOK ==
  /\ txn.open => \A p \in txn.enrolled : Live(p, txn.identity) \/ Barren
  /\ \A p \in Partitions :
       flight[p].inTxn /\ flight[p].code = "none" => Live(p, flight[p].epoch)
  /\ ask["actor"].op = "add" /\ ask["actor"].code = "ok" =>
       \A p \in ask["actor"].parts : Live(p, ask["actor"].epoch)
  /\ ask["app"].op = "add" /\ ask["app"].code = "ok" => Live(Offsets, ask["app"].epoch)
  /\ ask["app"].op = "offsets" => Live(Offsets, ask["app"].epoch)

(* A request that is late is under no newer epoch, and one that an EndTxn  *)
(* with a bump leaves behind is refused.                                   *)
StraysLive ==
  \A c \in stray : c.epoch <= coord.epoch /\ (c.inTxn /\ coord.bumps => Live(c.at, c.epoch))

TxnInv ==
  TypeInv /\ AsksOK /\ FlushOK /\ IdleOK /\ ActorOK /\ EpochsOK /\ LiveOK /\ EnrolledFirst

-----------------------------------------------------------------------------
(* The types.                                                              *)

USE DEF appVars, handVars, actorVars, brokerVars

LEMMA TypeInvImplies == TypeInv => TypeOK
BY DEF TypeInv, TypeOK, TxnT, AppT, BegunT, ToldT, HandT, CommandsT, ActorT, PcT, WaitingT, FlightT,
       OutcomeT, AskT, CoordT, LogT, FenceT, StrayT, CountT, TxnType, ActorType, BatchType, SendCodes,
       CopyType, AskType, CoordType

LEMMA TypeKept ==
  ASSUME TypeInv
  PROVE  /\ UNCHANGED txn => TxnT'
         /\ UNCHANGED <<app, failed>> => AppT'
         /\ UNCHANGED begun => BegunT'
         /\ UNCHANGED told => ToldT'
         /\ UNCHANGED handVars => HandT'
         /\ UNCHANGED commands => CommandsT'
         /\ UNCHANGED actor => ActorT'
         /\ UNCHANGED pc => PcT'
         /\ UNCHANGED waiting => WaitingT'
         /\ UNCHANGED flight => FlightT'
         /\ UNCHANGED outcome => OutcomeT'
         /\ UNCHANGED ask => AskT'
         /\ UNCHANGED coord => CoordT'
         /\ UNCHANGED log => LogT'
         /\ UNCHANGED fence => FenceT'
         /\ UNCHANGED <<stray, unsure>> => StrayT'
         /\ UNCHANGED <<losses, rivals>> => CountT'
BY DEF TypeInv, TxnT, AppT, BegunT, ToldT, HandT, CommandsT, ActorT, PcT, WaitingT, FlightT,
       OutcomeT, AskT, CoordT, LogT, FenceT, StrayT, CountT

LEMMA TypeInit == Init => TypeInv
<1> SUFFICES ASSUME Init PROVE TypeInv OBVIOUS
<1>1. BegunT /\ HandT /\ StrayT /\ CountT BY TransactionsAssumption DEF Init, BegunT, HandT, StrayT, CountT
<1>2. FlightT BY TransactionsAssumption DEF Init, NoBatch, BatchType, FlightT
<1>3. AskT BY DEF Init, NoAsk, AskType, Codes, AskT
<1>4. CommandsT /\ LogT /\ FenceT BY DEF Init, CommandsT, LogT, FenceT
<1>5. CoordT BY TransactionsAssumption DEF Init, CoordT, CoordType
<1>6. ActorT BY DEF Init, NoIdentity, ActorT, ActorType
<1>7. TxnT /\ AppT /\ ToldT /\ PcT /\ WaitingT /\ OutcomeT
  BY DEF Init, NoIdentity, TxnT, TxnType, AppT, Calls, ToldT, PcT, WaitingT, OutcomeT
<1> QED BY <1>1, <1>2, <1>3, <1>4, <1>5, <1>6, <1>7 DEF TypeInv

(* A call goes out, its answer is taken, or it is answered.                *)
LEMMA AskOK ==
  ASSUME TypeInv, NEW a \in {"app", "actor"}, NEW op \in {"init", "add", "offsets", "commit", "abort"},
         NEW epoch \in Nat, NEW parts \in SUBSET Places, Ask(a, op, epoch, parts)
  PROVE  /\ AskT'
         /\ ask'[a].op = op /\ ask'[a].epoch = epoch /\ ask'[a].parts = parts
         /\ ask'[a].code = "none" /\ ask'[a].got = 0
         /\ \A b \in {"app", "actor"} : b # a => ask'[b] = ask[b]
<1> DEFINE new == [NoAsk EXCEPT !.op = op, !.epoch = epoch, !.parts = parts]
<1>1. /\ new \in AskType /\ new.op = op /\ new.epoch = epoch /\ new.parts = parts
      /\ new.code = "none" /\ new.got = 0
  <2>1. NoAsk \in AskType /\ NoAsk.code = "none" /\ NoAsk.got = 0 BY DEF NoAsk, AskType, Codes
  <2> QED BY <2>1 DEF AskType
<1>2. ask' = [ask EXCEPT ![a] = new] BY DEF Ask
<1> HIDE DEF new
<1> QED BY <1>1, <1>2 DEF TypeInv, AskT

LEMMA AskTaken ==
  ASSUME TypeInv, NEW a \in {"app", "actor"}, ask' = [ask EXCEPT ![a] = NoAsk]
  PROVE  /\ AskT'
         /\ ask'[a].op = "none" /\ ask'[a].epoch = 0 /\ ask'[a].code = "none" /\ ask'[a].got = 0
         /\ \A b \in {"app", "actor"} : b # a => ask'[b] = ask[b]
<1>1. /\ NoAsk \in AskType /\ NoAsk.op = "none" /\ NoAsk.epoch = 0 /\ NoAsk.code = "none" /\ NoAsk.got = 0
  BY DEF NoAsk, AskType, Codes
<1> QED BY <1>1 DEF TypeInv, AskT

(* The answers to a call: it may stay unanswered.                          *)
LEMMA ReplyOK ==
  ASSUME TypeInv, NEW a \in {"app", "actor"}, NEW code \in Codes \ {"none"}, NEW got \in Int,
         Reply(a, code, got), ask[a].code = "none"
  PROVE  /\ ask' \in [{"app", "actor"} -> AskType]
         /\ ask'[a].op = ask[a].op /\ ask'[a].epoch = ask[a].epoch /\ ask'[a].parts = ask[a].parts
         /\ \/ ask'[a].code = "none" /\ ask'[a].got = ask[a].got
            \/ ask'[a].code \in {code, "failed"} /\ ask'[a].got = got
         /\ \A b \in {"app", "actor"} : b # a => ask'[b] = ask[b]
         /\ losses' \in 0..MaxLosses
<1>1. \/ UNCHANGED ask
      \/ \E c \in {code, "failed"} : ask' = [ask EXCEPT ![a].code = c, ![a].got = got]
  BY DEF Reply
<1>2. losses' \in 0..MaxLosses BY TransactionsAssumption DEF Reply, TypeInv, CountT
<1>3. CASE UNCHANGED ask BY <1>2, <1>3 DEF TypeInv, AskT
<1>4. ASSUME NEW c \in {code, "failed"}, ask' = [ask EXCEPT ![a].code = c, ![a].got = got]
      PROVE  /\ ask' \in [{"app", "actor"} -> AskType]
             /\ ask'[a].op = ask[a].op /\ ask'[a].epoch = ask[a].epoch /\ ask'[a].parts = ask[a].parts
             /\ ask'[a].code = c /\ ask'[a].got = got
             /\ \A b \in {"app", "actor"} : b # a => ask'[b] = ask[b]
  <2> DEFINE old == ask[a]
             new == [old EXCEPT !.code = c, !.got = got]
  <2>1. old \in AskType /\ c \in Codes BY DEF TypeInv, AskT, Codes
  <2>2. ask' = [ask EXCEPT ![a] = new] BY <1>4
  <2> HIDE DEF old
  <2>3. /\ new \in AskType /\ new.op = old.op /\ new.epoch = old.epoch /\ new.parts = old.parts
        /\ new.code = c /\ new.got = got
    BY <2>1 DEF AskType
  <2> HIDE DEF new
  <2> QED BY <2>2, <2>3 DEF TypeInv, AskT, old
<1> QED BY <1>1, <1>2, <1>3, <1>4

LEMMA NotedOK ==
  ASSUME NEW t \in TxnType, NEW code
  PROVE  LET n == Noted(t, code)
         IN /\ n \in TxnType /\ n.identity = t.identity /\ n.enrolled = t.enrolled
            /\ \/ n = t
               \/ n.open = FALSE /\ n.fenced = TRUE
BY DEF Noted, TxnType

LEMMA TypeApp ==
  ASSUME TypeInv, AppNext
  PROVE  TypeInv'
<1>0. /\ txn \in TxnType /\ txn.identity \in Nat /\ {} \in SUBSET Places /\ {Offsets} \in SUBSET Places
      /\ ask["app"].epoch \in Nat
  BY DEF TypeInv, TxnT, TxnType, Places, AskT, AskType
<1>1. CASE StartInit
  <2>1. Ask("app", "init", 0, {}) BY <1>1 DEF StartInit
  <2>2. AskT' BY <1>0, <2>1, AskOK
  <2>3. AppT' BY <1>1 DEF StartInit, TypeInv, AppT, Calls
  <2> QED BY <1>1, <2>2, <2>3, TypeKept DEF StartInit, TypeInv
<1>2. CASE FinishInit
  <2>1. AskT' BY <1>2, AskTaken DEF FinishInit
  <2>2. TxnT'
    <3>1. CASE ask["app"].code = "ok"
      <4>1. ask["app"].got \in Nat BY <1>2, <3>1 DEF TypeInv, AskT, FinishInit, Answered
      <4>2. txn' = [txn EXCEPT !.identity = ask["app"].got, !.open = FALSE, !.enrolled = {}]
        BY <1>2, <3>1 DEF FinishInit
      <4> QED BY <1>0, <4>1, <4>2 DEF TxnT, TxnType
    <3>2. CASE ask["app"].code # "ok" BY <1>0, <1>2, <3>2, NotedOK DEF FinishInit, TxnT
    <3> QED BY <3>1, <3>2
  <2>3. AppT' BY <1>2 DEF FinishInit, TypeInv, AppT, Calls
  <2> QED BY <1>2, <2>1, <2>2, <2>3, TypeKept DEF FinishInit, TypeInv
<1>3. CASE begin
  <2>1. TxnT' BY <1>0, <1>3 DEF begin, TxnT, TxnType
  <2>2. BegunT' BY <1>3, TransactionsAssumption DEF begin, TypeInv, BegunT
  <2>3. AppT' BY <1>3 DEF begin, TypeInv, AppT
  <2> QED BY <1>3, <2>1, <2>2, <2>3, TypeKept DEF begin, TypeInv
<1>4. CASE Enqueue
  <2>1. handed + 1 \in Records BY <1>4, TransactionsAssumption DEF Enqueue, TypeInv, HandT, Records
  <2>2. HandT' BY <1>4, <2>1, TransactionsAssumption DEF Enqueue, TypeInv, HandT, BegunT, Records
  <2>3. CommandsT' BY <1>4, <2>1 DEF Enqueue, TypeInv, CommandsT
  <2> QED BY <1>4, <2>2, <2>3, TypeKept DEF Enqueue, TypeInv
<1>5. CASE SendOffsets
  <2>1. Ask("app", "add", txn.identity, {Offsets}) BY <1>5 DEF SendOffsets
  <2>2. AskT' BY <1>0, <2>1, AskOK
  <2>3. AppT' BY <1>5 DEF SendOffsets, TypeInv, AppT, Calls
  <2> QED BY <1>5, <2>2, <2>3, TypeKept DEF SendOffsets, TypeInv
<1>6. CASE OffsetsAdded
  <2>1. CASE Ask("app", "offsets", ask["app"].epoch, {Offsets}) /\ UNCHANGED <<txn, app, failed>>
    <3>1. AskT' BY <1>0, <2>1, AskOK
    <3> QED BY <1>6, <2>1, <3>1, TypeKept DEF OffsetsAdded, TypeInv
  <2>2. CASE /\ txn' = Noted(txn, ask["app"].code)
             /\ app' = "none" /\ failed' = TRUE /\ ask' = [ask EXCEPT !["app"] = NoAsk]
    <3>1. AskT' /\ TxnT' BY <1>0, <2>2, AskTaken, NotedOK DEF TxnT
    <3>2. AppT' BY <2>2 DEF AppT, Calls
    <3> QED BY <1>6, <3>1, <3>2, TypeKept DEF OffsetsAdded, TypeInv
  <2> QED BY <1>6, <2>1, <2>2 DEF OffsetsAdded
<1>7. CASE OffsetsSent
  <2>1. AskT' /\ TxnT' BY <1>0, <1>7, AskTaken, NotedOK DEF OffsetsSent, TxnT
  <2>2. AppT' BY <1>7 DEF OffsetsSent, AppT, Calls
  <2> QED BY <1>7, <2>1, <2>2, TypeKept DEF OffsetsSent, TypeInv
<1>8. ASSUME NEW op \in {"commit", "abort"}, StartEnd(op) PROVE TypeInv'
  <2>1. AppT' /\ CommandsT' BY <1>8 DEF StartEnd, TypeInv, AppT, CommandsT, Calls
  <2> QED BY <1>8, <2>1, TypeKept DEF StartEnd, TypeInv
<1>9. ASSUME NEW op \in {"commit", "abort"}, SendEnd(op) PROVE TypeInv'
  <2>1. CASE Ask("app", op, txn.identity, {}) /\ UNCHANGED <<app, failed>>
    <3>1. AskT'
      <4>1. op \in {"init", "add", "offsets", "commit", "abort"} BY <1>9
      <4> QED BY <1>0, <2>1, <4>1, AskOK
    <3> QED BY <1>9, <2>1, <3>1, TypeKept DEF SendEnd, TypeInv
  <2>2. CASE app' = "none" /\ failed' = TRUE /\ UNCHANGED ask
    <3>1. AppT' BY <2>2 DEF AppT, Calls
    <3> QED BY <1>9, <2>2, <3>1, TypeKept DEF SendEnd, TypeInv
  <2> QED BY <1>9, <2>1, <2>2 DEF SendEnd
<1>10. ASSUME NEW op \in {"commit", "abort"}, FinishEnd(op) PROVE TypeInv'
  <2>1. AskT' BY <1>10, AskTaken DEF FinishEnd
  <2>2. CASE ask["app"].code = "ok"
    <3>1. (IF ask["app"].got > 0 THEN ask["app"].got ELSE txn.identity) \in Nat
      BY <1>0 DEF TypeInv, AskT, AskType
    <3>2. PICK id \in Nat : txn' = [txn EXCEPT !.identity = id, !.open = FALSE, !.enrolled = {}]
      BY <1>10, <2>2, <3>1 DEF FinishEnd
    <3>3. TxnT' BY <1>0, <3>2 DEF TxnT, TxnType
    <3>4. AppT' /\ ToldT' BY <1>10, <2>2 DEF FinishEnd, TypeInv, AppT, ToldT, Calls, Fate
    <3> QED BY <1>10, <2>1, <3>3, <3>4, TypeKept DEF FinishEnd, TypeInv
  <2>3. CASE ask["app"].code # "ok"
    <3>0. txn' = Noted(txn, ask["app"].code) BY <1>10, <2>3 DEF FinishEnd
    <3>1. TxnT' BY <1>0, <3>0, NotedOK DEF TxnT
    <3>2. AppT' BY <1>10, <2>3 DEF FinishEnd, TypeInv, AppT, Calls
    <3> QED BY <1>10, <2>1, <2>3, <3>1, <3>2, TypeKept DEF FinishEnd, TypeInv
  <2> QED BY <2>2, <2>3
<1> QED BY <1>1, <1>2, <1>3, <1>4, <1>5, <1>6, <1>7, <1>8, <1>9, <1>10 DEF AppNext

LEMMA FailMissingT ==
  ASSUME TypeInv, FailMissing
  PROVE  /\ OutcomeT' /\ PcT' /\ ActorT'
         /\ actor'.identity = actor.identity /\ actor'.next = actor.next /\ actor'.missing = {}
         /\ \A p \in Partitions : actor'.pending[p] = IF p \in actor.missing THEN <<>> ELSE actor.pending[p]
<1>1. OutcomeT' /\ PcT' BY DEF FailMissing, TypeInv, OutcomeT, PcT
<1> DEFINE pending == [p \in Partitions |-> IF p \in actor.missing THEN <<>> ELSE actor.pending[p]]
<1>2. actor' = [actor EXCEPT !.pending = pending, !.missing = {}] BY DEF FailMissing
<1>3. actor \in ActorType /\ actor.pending \in [Partitions -> Seq(Records)] BY DEF TypeInv, ActorT, ActorType
<1>4. pending \in [Partitions -> Seq(Records)]
  <2>1. << >> \in Seq(Records) OBVIOUS
  <2> QED BY <1>3, <2>1
<1>5. \A p \in Partitions : pending[p] = IF p \in actor.missing THEN <<>> ELSE actor.pending[p] OBVIOUS
<1> HIDE DEF pending
<1>6. /\ ActorT' /\ actor'.pending = pending
      /\ actor'.identity = actor.identity /\ actor'.next = actor.next /\ actor'.missing = {}
  BY <1>2, <1>3, <1>4 DEF ActorT, ActorType
<1> QED BY <1>1, <1>5, <1>6

(* An event leaves the actor with the identity of the producer.            *)
LEMMA EventT ==
  ASSUME TypeInv, NEW A \in ActorType, Event(A)
  PROVE  /\ ActorT' /\ PcT' /\ pc' = "missing"
         /\ actor'.identity = txn.identity /\ actor'.pending = A.pending /\ actor'.missing = A.missing
<1>1. actor' = ensure_identity(A) /\ pc' = "missing" BY DEF Event
<1>2. txn.identity \in Nat BY DEF TypeInv, TxnT, TxnType
<1>3. CASE A.identity = txn.identity BY <1>1, <1>3 DEF ensure_identity, ActorT, PcT
<1>4. CASE A.identity # txn.identity
  <2>1. actor' = [A EXCEPT !.identity = txn.identity, !.next = [p \in Partitions |-> 0]]
    BY <1>1, <1>4 DEF ensure_identity
  <2>2. [p \in Partitions |-> 0] \in [Partitions -> Nat] OBVIOUS
  <2> QED BY <1>1, <1>2, <2>1, <2>2 DEF ActorT, PcT, ActorType
<1> QED BY <1>3, <1>4

LEMMA BatchMade ==
  ASSUME NEW rec \in Records, NEW epoch \in Nat, NEW seq \in Nat, NEW inTxn \in BOOLEAN
  PROVE  LET b == [rec |-> rec, epoch |-> epoch, seq |-> seq, inTxn |-> inTxn, lost |-> FALSE, code |-> "none"]
         IN b \in BatchType /\ b.rec = rec
<1>1. Records \subseteq 0..NumRecords BY TransactionsAssumption DEF Records
<1> QED BY <1>1 DEF BatchType

LEMMA TypeActor ==
  ASSUME TypeInv, ActorNext
  PROVE  TypeInv'
<1>0. /\ actor \in ActorType /\ txn \in TxnType /\ actor.pending \in [Partitions -> Seq(Records)]
      /\ actor.next \in [Partitions -> Nat]
  BY DEF TypeInv, ActorT, TxnT, ActorType
<1>1. CASE HandleAppend
  <2> DEFINE r == Head(commands)
             A == [actor EXCEPT !.pending[PartitionOf[r]] = Append(@, r)]
  <2>1. CommandsT' /\ r \in Records BY <1>1 DEF HandleAppend, TypeInv, CommandsT
  <2>2. PartitionOf[r] \in Partitions BY <2>1, TransactionsAssumption
  <2>3. Event(A) BY <1>1 DEF HandleAppend
  <2> HIDE DEF r
  <2>4. A \in ActorType
    <3> DEFINE pending == [actor.pending EXCEPT ![PartitionOf[r]] = Append(@, r)]
    <3>1. pending \in [Partitions -> Seq(Records)] BY <1>0, <2>1, <2>2
    <3>2. A = [actor EXCEPT !.pending = pending] OBVIOUS
    <3> HIDE DEF pending, A
    <3> QED BY <1>0, <3>1, <3>2 DEF ActorType
  <2> HIDE DEF A
  <2>5. ActorT' /\ PcT' BY <2>3, <2>4, EventT
  <2> QED BY <1>1, <2>1, <2>5, TypeKept DEF HandleAppend, TypeInv
<1>2. CASE HandleFlush
  <2>1. CommandsT' /\ WaitingT' BY <1>2 DEF HandleFlush, TypeInv, CommandsT, WaitingT
  <2>2. ActorT' /\ PcT' BY <1>0, <1>2, EventT DEF HandleFlush
  <2> QED BY <1>2, <2>1, <2>2, TypeKept DEF HandleFlush, TypeInv
<1>3. CASE FindMissing
  <2> DEFINE missing == IF txn.open THEN {p \in Partitions : Free(p)} \ txn.enrolled ELSE {}
  <2>1. actor' = [actor EXCEPT !.missing = missing] /\ PcT' BY <1>3 DEF FindMissing, PcT
  <2>2. missing \in SUBSET Partitions OBVIOUS
  <2> HIDE DEF missing
  <2>3. ActorT' BY <1>0, <2>1, <2>2 DEF ActorT, ActorType
  <2> QED BY <1>3, <2>1, <2>3, TypeKept DEF FindMissing, TypeInv
<1>4. CASE StartEnrol
  <2>1. CASE Ask("actor", "add", txn.identity, actor.missing) /\ pc' = "enrolling" /\ UNCHANGED <<actor, outcome>>
    <3>1. actor.missing \in SUBSET Places /\ txn.identity \in Nat BY <1>0 DEF ActorType, TxnType, Places
    <3>2. AskT' /\ PcT' BY <2>1, <3>1, AskOK DEF PcT
    <3> QED BY <1>4, <2>1, <3>2, TypeKept DEF StartEnrol, TypeInv
  <2>2. CASE FailMissing /\ UNCHANGED ask BY <1>4, <2>2, FailMissingT, TypeKept DEF StartEnrol, TypeInv
  <2> QED BY <1>4, <2>1, <2>2 DEF StartEnrol
<1>5. CASE FinishEnrol
  <2>1. AskT' BY <1>5, AskTaken DEF FinishEnrol
  <2>2. CASE /\ txn' = [txn EXCEPT !.enrolled = @ \cup actor.missing]
             /\ actor' = [actor EXCEPT !.missing = {}]
             /\ pc' = "dispatch" /\ UNCHANGED outcome
    <3>1. actor.missing \in SUBSET Partitions BY <1>0 DEF ActorType
    <3>2. TxnT' /\ ActorT' /\ PcT' BY <1>0, <2>2, <3>1 DEF TxnT, TxnType, ActorT, ActorType, PcT
    <3> QED BY <1>5, <2>1, <2>2, <3>2, TypeKept DEF FinishEnrol, TypeInv
  <2>3. CASE txn' = Noted(txn, ask["actor"].code) /\ FailMissing
    <3>1. TxnT' BY <1>0, <2>3, NotedOK DEF TxnT
    <3> QED BY <1>5, <2>1, <2>3, <3>1, FailMissingT, TypeKept DEF FinishEnrol, TypeInv
  <2> QED BY <1>5, <2>2, <2>3 DEF FinishEnrol
<1>6. CASE Dispatch
  <2> DEFINE pending == [p \in Partitions |-> IF p \in Ready THEN Tail(actor.pending[p]) ELSE actor.pending[p]]
             next == [p \in Partitions |-> IF p \in Ready THEN actor.next[p] + 1 ELSE actor.next[p]]
  <2>1. \A p \in Ready : p \in Partitions /\ actor.pending[p] # <<>> BY DEF Ready, Free
  <2>2. actor' = [actor EXCEPT !.pending = pending, !.next = next] BY <1>6 DEF Dispatch
  <2>3. pending \in [Partitions -> Seq(Records)] /\ next \in [Partitions -> Nat] BY <1>0, <2>1
  <2> HIDE DEF pending, next
  <2>4. ActorT' BY <1>0, <2>2, <2>3 DEF ActorT, ActorType
  <2>5. FlightT'
    <3>1. flight \in [Partitions -> BatchType]
          /\ \A p \in Partitions : flight[p] # NoBatch => flight[p].rec \in Records
      BY DEF TypeInv, FlightT
    <3>2. ASSUME NEW p \in Partitions
          PROVE  flight'[p] \in BatchType /\ (flight'[p] # NoBatch => flight'[p].rec \in Records)
      <4>1. CASE p \notin Ready BY <1>6, <3>1, <4>1 DEF Dispatch
      <4>2. CASE p \in Ready
        <5> DEFINE rec == Head(actor.pending[p])
                   epoch == actor.identity
                   seq == actor.next[p]
                   inTxn == txn.open
        <5>1. flight'[p] = [rec |-> rec, epoch |-> epoch, seq |-> seq, inTxn |-> inTxn, lost |-> FALSE, code |-> "none"]
          BY <1>6, <4>2 DEF Dispatch
        <5>2. rec \in Records BY <1>0, <2>1, <4>2
        <5>3. epoch \in Nat /\ seq \in Nat /\ inTxn \in BOOLEAN BY <1>0 DEF ActorType, TxnType
        <5> HIDE DEF rec, epoch, seq, inTxn
        <5>4. [rec |-> rec, epoch |-> epoch, seq |-> seq, inTxn |-> inTxn, lost |-> FALSE, code |-> "none"] \in BatchType
          BY <5>2, <5>3, BatchMade
        <5>5. flight'[p].rec = rec BY <5>1
        <5> QED BY <5>1, <5>2, <5>4, <5>5
      <4> QED BY <4>1, <4>2
    <3>3. DOMAIN flight' = Partitions /\ flight' = [p \in Partitions |-> flight'[p]] BY <1>6 DEF Dispatch
    <3> QED BY <3>2, <3>3 DEF FlightT
  <2>6. AppT' /\ PcT' /\ WaitingT' BY <1>6 DEF Dispatch, TypeInv, AppT, PcT, WaitingT, Calls
  <2> QED BY <1>6, <2>4, <2>5, <2>6, TypeKept DEF Dispatch, TypeInv
<1>7. ASSUME NEW p \in Partitions, HandleCompleted(p) PROVE TypeInv'
  <2> DEFINE b == flight[p]
             A == IF b.code = "ok" THEN actor ELSE [actor EXCEPT !.next[p] = b.seq]
             B == IF b.code \in {"fenced", "out_of_order"}
                  THEN [A EXCEPT !.identity = NoIdentity, !.next = [q \in Partitions |-> 0]]
                  ELSE A
  <2>1. b \in BatchType /\ b.seq \in Nat BY DEF TypeInv, FlightT, BatchType
  <2>2. Event(B) BY <1>7 DEF HandleCompleted
  <2> HIDE DEF b
  <2>3. A \in ActorType BY <1>0, <2>1 DEF ActorType
  <2> HIDE DEF A
  <2>4. B \in ActorType BY <2>3 DEF ActorType, NoIdentity
  <2> HIDE DEF B
  <2>5. ActorT' /\ PcT' BY <2>2, <2>4, EventT
  <2>6. FlightT'
    <3>1. NoBatch \in BatchType BY TransactionsAssumption DEF NoBatch, BatchType
    <3>2. flight' = [flight EXCEPT ![p] = NoBatch] BY <1>7 DEF HandleCompleted
    <3> QED BY <3>1, <3>2 DEF TypeInv, FlightT
  <2> QED BY <1>7, <2>5, <2>6, TypeKept DEF HandleCompleted, TypeInv
<1> QED BY <1>1, <1>2, <1>3, <1>4, <1>5, <1>6, <1>7 DEF ActorNext

(* The markers of a transaction that ends.                                 *)
LEMMA MarkersT ==
  ASSUME TypeInv, NEW fate \in {"committed", "aborted"}, NEW e \in Nat, Markers(fate, e)
  PROVE  /\ LogT' /\ FenceT'
         /\ \A p \in Places : fence'[p] = IF p \in coord.parts THEN e ELSE fence[p]
         /\ \A p \in Places : DOMAIN log'[p] = DOMAIN log[p]
         /\ \A p \in Places : \A i \in DOMAIN log[p] :
              /\ log'[p][i].fate = "open" => log[p][i].fate = "open" /\ p \notin coord.parts
              /\ log'[p][i].rec = log[p][i].rec
<1>1. FenceT' /\ \A p \in Places : fence'[p] = IF p \in coord.parts THEN e ELSE fence[p]
  BY DEF Markers, TypeInv, FenceT
<1>2. log' = Marked(fate) /\ log \in [Places -> Seq(EntryType)] BY DEF Markers, TypeInv, LogT
<1>3. ASSUME NEW p \in Places
      PROVE  /\ log'[p] \in Seq(EntryType) /\ DOMAIN log'[p] = DOMAIN log[p]
             /\ \A i \in DOMAIN log[p] :
                  /\ log'[p][i].fate = "open" => log[p][i].fate = "open" /\ p \notin coord.parts
                  /\ log'[p][i].rec = log[p][i].rec
  <2>1. CASE p \notin coord.parts BY <1>2, <2>1 DEF Marked
  <2>2. CASE p \in coord.parts
    <3> DEFINE s == log[p]
               mark(i) == IF s[i].fate = "open" THEN [s[i] EXCEPT !.fate = fate] ELSE s[i]
               t == [i \in DOMAIN s |-> mark(i)]
    <3>1. log'[p] = t BY <1>2, <2>2 DEF Marked
    <3>2. s \in Seq(EntryType) /\ DOMAIN s = 1..Len(s) /\ Len(s) \in Nat BY <1>2
    <3>3. ASSUME NEW i \in DOMAIN s PROVE mark(i) \in EntryType /\ mark(i).fate # "open" /\ mark(i).rec = s[i].rec
      <4>1. s[i] \in EntryType BY <3>2, <3>3
      <4> HIDE DEF s
      <4> QED BY <4>1 DEF EntryType
    <3>4. t \in Seq(EntryType)
      <4> HIDE DEF mark, s
      <4>1. t \in [1..Len(s) -> EntryType] BY <3>2, <3>3
      <4> HIDE DEF t
      <4> QED BY <3>2, <4>1
    <3> HIDE DEF mark
    <3> QED BY <2>2, <3>1, <3>3, <3>4
  <2> QED BY <2>1, <2>2
<1>4. LogT'
  <2>1. log' = [p \in Places |-> log'[p]] BY <1>2 DEF Marked
  <2> QED BY <1>3, <2>1 DEF LogT
<1> QED BY <1>1, <1>3, <1>4

LEMMA ClaimedT ==
  ASSUME TypeInv, Claimed
  PROVE  /\ CoordT' /\ LogT' /\ FenceT'
         /\ coord'.epoch = coord.epoch + 1 /\ coord'.status = "empty"
         /\ coord'.bumps = coord.bumps
         /\ \/ coord.status = "ongoing" /\ Markers("aborted", coord.epoch + 1)
            \/ coord.status # "ongoing" /\ UNCHANGED <<log, fence>>
<1>1. coord \in CoordType BY DEF TypeInv, CoordT
<1>2. coord' = [coord EXCEPT !.epoch = @ + 1, !.parts = {}, !.status = "empty"] BY DEF Claimed
<1>3. CoordT' /\ coord'.epoch = coord.epoch + 1 /\ coord'.status = "empty" /\ coord.epoch + 1 \in Nat
      /\ coord'.bumps = coord.bumps
  <2>1. coord.epoch + 1 \in Nat /\ {} \in SUBSET Places BY <1>1 DEF CoordType
  <2>2. PICK e \in Nat, parts \in SUBSET Places :
          e = coord.epoch + 1 /\ coord' = [coord EXCEPT !.epoch = e, !.parts = parts, !.status = "empty"]
    BY <1>2, <2>1
  <2>3. coord' \in CoordType /\ coord'.epoch = e /\ coord'.status = "empty" /\ coord'.bumps = coord.bumps
    BY <1>1, <2>2 DEF CoordType
  <2> QED BY <2>1, <2>2, <2>3 DEF CoordT
<1>4. \/ coord.status = "ongoing" /\ Markers("aborted", coord.epoch + 1)
      \/ coord.status # "ongoing" /\ UNCHANGED <<log, fence>>
  BY DEF Claimed
<1>5. LogT' /\ FenceT' BY <1>3, <1>4, MarkersT, TypeKept
<1> QED BY <1>3, <1>4, <1>5

(* Something is written.                                                   *)
LEMMA Written ==
  ASSUME TypeInv, NEW p \in Places, NEW e \in EntryType, log' = [log EXCEPT ![p] = Append(@, e)]
  PROVE  /\ LogT' /\ \A q \in Places : q # p => log'[q] = log[q]
         /\ \A i \in DOMAIN log'[p] : log'[p][i] = e \/ (i \in DOMAIN log[p] /\ log'[p][i] = log[p][i])
<1> DEFINE s == log[p]
<1>1. log \in [Places -> Seq(EntryType)] /\ s \in Seq(EntryType) BY DEF TypeInv, LogT
<1>2. log'[p] = Append(s, e) /\ \A q \in Places : q # p => log'[q] = log[q] BY <1>1
<1> HIDE DEF s
<1>3. Append(s, e) \in Seq(EntryType) BY <1>1
<1>4. \A i \in DOMAIN Append(s, e) : Append(s, e)[i] = e \/ (i \in DOMAIN s /\ Append(s, e)[i] = s[i]) BY <1>1
<1>5. LogT' BY <1>1, <1>2, <1>3 DEF LogT
<1> QED BY <1>2, <1>4, <1>5 DEF s

(* The numbers that a partition expects. *)
(* The numbers of the entries of an epoch.                                 *)
Of(s, e) == {i \in DOMAIN s : s[i].epoch = e}
LEMMA OfFinite ==
  ASSUME NEW s \in Seq(EntryType), NEW e
  PROVE  IsFiniteSet(Of(s, e)) /\ Cardinality(Of(s, e)) \in Nat
<1>1. IsFiniteSet(1..Len(s)) BY FS_Interval
<1>2. Of(s, e) \in SUBSET (1..Len(s)) BY DEF Of
<1>3. IsFiniteSet(Of(s, e)) BY <1>1, <1>2, FS_Subset
<1> QED BY <1>3, FS_CardinalityType

LEMMA CountIsNat ==
  ASSUME TypeInv, NEW p \in Partitions, NEW e
  PROVE  Expected(p, e) \in Nat
<1>1. log[p] \in Seq(EntryType) BY DEF TypeInv, LogT, Places
<1>2. Expected(p, e) = Cardinality(Of(log[p], e)) BY DEF Expected, Of
<1> QED BY <1>1, <1>2, OfFinite

(* The logs have the same entries, but for their fates.                    *)
LogsSame ==
  \A p \in Partitions :
    /\ DOMAIN log'[p] = DOMAIN log[p]
    /\ \A i \in DOMAIN log[p] : log'[p][i].epoch = log[p][i].epoch /\ log'[p][i].rec = log[p][i].rec
LEMMA CountSame ==
  ASSUME NEW p \in Partitions, NEW e, LogsSame
  PROVE  Expected(p, e)' = Expected(p, e)
<1>1. {i \in DOMAIN log'[p] : log'[p][i].epoch = e} = {i \in DOMAIN log[p] : log[p][i].epoch = e}
  BY DEF LogsSame
<1> QED BY <1>1 DEF Expected

LEMMA CountAppend ==
  ASSUME TypeInv, NEW p \in Partitions, NEW x \in EntryType, NEW e, x.epoch = e, log'[p] = Append(log[p], x)
  PROVE  Expected(p, e)' = Expected(p, e) + 1
<1> DEFINE s == log[p]
<1>1. s \in Seq(EntryType) BY DEF TypeInv, LogT, Places
<1>2. Expected(p, e) = Cardinality(Of(s, e)) BY DEF Expected, Of
<1>3. Expected(p, e)' = Cardinality(Of(Append(s, x), e)) BY DEF Expected, Of
<1> HIDE DEF s
<1>4. Of(Append(s, x), e) = Of(s, e) \cup {Len(s) + 1} /\ Len(s) + 1 \notin Of(s, e) BY <1>1 DEF Of
<1>5. Cardinality(Of(s, e) \cup {Len(s) + 1}) = Cardinality(Of(s, e)) + 1
  BY <1>1, <1>4, OfFinite, FS_AddElement
<1> QED BY <1>2, <1>3, <1>4, <1>5

LEMMA MarkersSame ==
  ASSUME TypeInv, NEW fate, NEW e, Markers(fate, e)
  PROVE  LogsSame
<1> SUFFICES ASSUME NEW p \in Partitions
             PROVE  /\ DOMAIN log'[p] = DOMAIN log[p]
                    /\ \A i \in DOMAIN log[p] : log'[p][i].epoch = log[p][i].epoch /\ log'[p][i].rec = log[p][i].rec
  BY DEF LogsSame
<1> DEFINE s == log[p]
           mark(i) == IF s[i].fate = "open" THEN [s[i] EXCEPT !.fate = fate] ELSE s[i]
<1>1. log' = Marked(fate) /\ p \in Places /\ s \in Seq(EntryType) BY DEF Markers, TypeInv, LogT, Places
<1>2. CASE p \notin coord.parts BY <1>1, <1>2 DEF Marked
<1>3. CASE p \in coord.parts
  <2>1. log'[p] = [i \in DOMAIN s |-> mark(i)] BY <1>1, <1>3 DEF Marked
  <2>2. ASSUME NEW i \in DOMAIN s PROVE mark(i).epoch = s[i].epoch /\ mark(i).rec = s[i].rec
    <3>1. s[i] \in EntryType BY <1>1, <2>2
    <3> HIDE DEF s
    <3> QED BY <3>1 DEF EntryType
  <2> HIDE DEF mark
  <2> QED BY <2>1, <2>2
<1> QED BY <1>2, <1>3

(* What becomes of a send: the batch is written or not, and the task tries *)
(* again or ends; a copy of the request may stay on its way.               *)
Sends(p) == ServeProduce(p) \/ LoseProduce(p)
Copy(p) == [at |-> p, rec |-> flight[p].rec, epoch |-> flight[p].epoch, seq |-> flight[p].seq,
            inTxn |-> flight[p].inTxn]
Writes(p, b) ==
  /\ b.epoch >= fence[p] /\ b.seq = Expected(p, b.epoch)
  /\ log' = [log EXCEPT ![p] = Append(@, Entry(within[b.rec], b.rec, b))]
  /\ fence' = [fence EXCEPT ![p] = b.epoch]
Retried(p) == flight' = [flight EXCEPT ![p].lost = TRUE] /\ UNCHANGED <<outcome, unsure>>
Ended(p, code) ==
  /\ Judged(p, code) /\ (code # "unknown" => UNCHANGED stray)
  /\ code = "ok" => Writes(p, flight[p]) \/ flight[p].seq < Expected(p, flight[p].epoch)

LEMMA EntryOK ==
  ASSUME NEW of \in 0..MaxTxns, NEW rec \in 0..NumRecords, NEW b, b.epoch \in Nat, b.inTxn \in BOOLEAN
  PROVE  Entry(of, rec, b) \in EntryType /\ (Entry(of, rec, b).fate = "open" => b.inTxn)
BY DEF Entry, EntryType

LEMMA JudgeEnds ==
  ASSUME TypeInv, NEW p \in Partitions, NEW b, b.epoch \in Nat, b.seq \in Nat, Judge(p, b)
  PROVE  /\ UNCHANGED <<log, fence>> \/ Writes(p, b)
         /\ Verdict(p, b) \in SendCodes \ {"unknown"}
         /\ Verdict(p, b) = "ok" => Writes(p, b) \/ b.seq < Expected(p, b.epoch)
<1>1. fence[p] \in Nat /\ Expected(p, b.epoch) \in Nat BY CountIsNat DEF TypeInv, FenceT, Places
<1>2. Verdict(p, b) \in {"ok", "refused", "fenced", "out_of_order"} BY DEF Verdict
<1>3. Verdict(p, b) = "ok" => b.epoch >= fence[p] /\ b.seq <= Expected(p, b.epoch) BY <1>1 DEF Verdict
<1>4. CASE Verdict(p, b) = "ok" /\ b.seq = Expected(p, b.epoch)
  BY <1>2, <1>3, <1>4 DEF Judge, Writes, SendCodes
<1>5. CASE ~(Verdict(p, b) = "ok" /\ b.seq = Expected(p, b.epoch))
  <2>1. UNCHANGED <<log, fence>> BY <1>5 DEF Judge
  <2> QED BY <1>1, <1>2, <1>3, <1>5, <2>1 DEF SendCodes
<1> QED BY <1>4, <1>5

LEMMA SendEnds ==
  ASSUME TypeInv, NEW p \in Partitions, Sends(p)
  PROVE  /\ flight[p] # NoBatch /\ flight[p].code = "none"
         /\ UNCHANGED <<log, fence>> \/ Writes(p, flight[p])
         /\ UNCHANGED stray \/ stray' = stray \cup {Copy(p)}
         /\ Retried(p) \/ \E code \in SendCodes : Ended(p, code)
         /\ losses' \in 0..MaxLosses
         /\ UNCHANGED <<txn, appVars, handVars, commands, actorVars, ask, coord, rivals>>
<1>0. losses \in 0..MaxLosses /\ (losses < MaxLosses => losses + 1 \in 0..MaxLosses)
  BY TransactionsAssumption DEF TypeInv, CountT
<1>1. ASSUME Ambiguous(p)
      PROVE  losses' \in 0..MaxLosses /\ (Retried(p) \/ \E code \in SendCodes : Ended(p, code))
  <2>1. Retried(p) \/ Judged(p, "unknown") BY <1>1 DEF Ambiguous, Retried
  <2>2. Judged(p, "unknown") => Ended(p, "unknown") BY DEF Ended
  <2> QED BY <1>0, <1>1, <2>1, <2>2 DEF Ambiguous, SendCodes
<1>2. CASE ServeProduce(p)
  <2>0. Sending(p) /\ Judge(p, flight[p]) BY <1>2 DEF ServeProduce
  <2>1. flight[p].epoch \in Nat /\ flight[p].seq \in Nat BY DEF TypeInv, FlightT, BatchType
  <2>2. PICK v : v = Verdict(p, flight[p]) OBVIOUS
  <2>3. /\ UNCHANGED <<log, fence>> \/ Writes(p, flight[p])
        /\ v \in SendCodes /\ v # "unknown"
        /\ v = "ok" => Writes(p, flight[p]) \/ flight[p].seq < Expected(p, flight[p].epoch)
    BY <2>0, <2>1, <2>2, JudgeEnds
  <2>4. Ambiguous(p) \/ (Judged(p, v) /\ UNCHANGED losses) BY <1>2, <2>2 DEF ServeProduce
  <2>5. Judged(p, v) => Ended(p, v) BY <1>2, <2>3 DEF Ended, ServeProduce
  <2>6. losses' \in 0..MaxLosses /\ (Retried(p) \/ \E code \in SendCodes : Ended(p, code))
    BY <1>0, <1>1, <2>3, <2>4, <2>5
  <2> QED BY <1>2, <2>0, <2>3, <2>6 DEF Sending, ServeProduce
<1>3. CASE LoseProduce(p)
  <2>1. CASE Ambiguous(p) /\ stray' = stray \cup {Copy(p)} BY <1>1, <1>3, <2>1 DEF LoseProduce, Sending
  <2>2. CASE losses < MaxLosses /\ losses' = losses + 1 /\ Judged(p, "refused") /\ UNCHANGED stray
    <3>1. Ended(p, "refused") /\ "refused" \in SendCodes BY <2>2 DEF Ended, SendCodes
    <3> QED BY <1>0, <1>3, <2>2, <3>1 DEF LoseProduce, Sending
  <2> QED BY <1>3, <2>1, <2>2 DEF LoseProduce, Copy
<1> QED BY <1>2, <1>3 DEF Sends

(* Only the state of a batch changes: it may become unsure.                *)
LEMMA SendMoves ==
  ASSUME TypeInv, NEW p \in Partitions, Sends(p)
  PROVE  /\ FlightT' /\ OutcomeT' /\ StrayT' /\ flight'[p] # NoBatch
         /\ flight'[p].rec = flight[p].rec /\ flight'[p].epoch = flight[p].epoch
         /\ flight'[p].seq = flight[p].seq /\ flight'[p].inTxn = flight[p].inTxn
         /\ \A q \in Partitions : q # p => flight'[q] = flight[q]
         /\ unsure \subseteq unsure' /\ unsure' \subseteq unsure \cup {flight[p].rec}
         /\ \A r \in Records : r # flight[p].rec => outcome'[r] = outcome[r]
         /\ \/ flight'[p].code = "none" /\ flight'[p].lost /\ UNCHANGED <<outcome, unsure>>
            \/ /\ flight'[p].code \in SendCodes /\ flight'[p].lost = flight[p].lost
               /\ flight'[p].code \in {"ok", "refused", "fenced", "out_of_order"} => UNCHANGED stray
               /\ outcome'[flight[p].rec] = IF flight'[p].code = "ok" THEN "ok" ELSE "failed"
               /\ flight'[p].code = "unknown" \/ (flight'[p].code # "ok" /\ flight[p].lost) =>
                    flight[p].rec \in unsure'
               /\ ~flight[p].lost /\ flight'[p].code # "unknown" => UNCHANGED unsure
               /\ flight'[p].code = "ok" =>
                    Writes(p, flight[p]) \/ flight[p].seq < Expected(p, flight[p].epoch)
<1>0. /\ flight[p] # NoBatch /\ (Retried(p) \/ \E code \in SendCodes : Ended(p, code))
      /\ UNCHANGED stray \/ stray' = stray \cup {Copy(p)}
  BY SendEnds
<1> DEFINE b == flight[p]
<1>1. b \in BatchType /\ b.rec \in Records /\ flight \in [Partitions -> BatchType]
  BY <1>0 DEF TypeInv, FlightT
<1>2. Copy(p) \in CopyType BY <1>1 DEF Copy, CopyType, BatchType
<1>3. NoBatch.rec = 0 /\ 0 \notin Records BY TransactionsAssumption DEF NoBatch, Records
<1>4. outcome \in [Records -> {"pending", "ok", "failed"}] /\ stray \subseteq CopyType /\ unsure \subseteq Records
  BY DEF TypeInv, OutcomeT, StrayT
<1>5. stray' \subseteq CopyType BY <1>0, <1>2, <1>4
<1>6. CASE Retried(p)
  <2> DEFINE n == [b EXCEPT !.lost = TRUE]
  <2>1. flight' = [flight EXCEPT ![p] = n] /\ UNCHANGED <<outcome, unsure>> BY <1>6 DEF Retried
  <2> HIDE DEF b
  <2>2. /\ n \in BatchType /\ n.rec = b.rec /\ n.epoch = b.epoch /\ n.seq = b.seq /\ n.inTxn = b.inTxn
        /\ n.lost = TRUE /\ n.code = b.code
    BY <1>1 DEF BatchType
  <2> HIDE DEF n
  <2>3. /\ flight'[p] = n /\ flight' \in [Partitions -> BatchType]
        /\ \A q \in Partitions : q # p => flight'[q] = flight[q]
    BY <1>1, <2>1, <2>2
  <2>4. n # NoBatch /\ FlightT' /\ OutcomeT' /\ StrayT'
    BY <1>1, <1>3, <1>4, <1>5, <2>1, <2>2, <2>3 DEF FlightT, TypeInv, OutcomeT, StrayT
  <2>5. b.code = "none" BY SendEnds DEF b
  <2> QED BY <2>1, <2>2, <2>3, <2>4, <2>5 DEF b
<1>7. ASSUME NEW code \in SendCodes, Ended(p, code)
      PROVE  /\ FlightT' /\ OutcomeT' /\ StrayT' /\ flight'[p] # NoBatch
             /\ flight'[p].rec = b.rec /\ flight'[p].epoch = b.epoch
             /\ flight'[p].seq = b.seq /\ flight'[p].inTxn = b.inTxn
             /\ flight'[p].code = code /\ flight'[p].lost = b.lost
             /\ \A q \in Partitions : q # p => flight'[q] = flight[q]
             /\ unsure \subseteq unsure' /\ unsure' \subseteq unsure \cup {b.rec}
             /\ \A r \in Records : r # b.rec => outcome'[r] = outcome[r]
             /\ outcome'[b.rec] = IF code = "ok" THEN "ok" ELSE "failed"
             /\ code = "unknown" \/ (code # "ok" /\ b.lost) => b.rec \in unsure'
             /\ ~b.lost /\ code # "unknown" => UNCHANGED unsure
  <2> DEFINE n == [b EXCEPT !.code = code]
  <2>1. /\ flight' = [flight EXCEPT ![p] = n]
        /\ outcome' = [outcome EXCEPT ![b.rec] = IF code = "ok" THEN "ok" ELSE "failed"]
        /\ unsure' = IF code = "unknown" \/ (code # "ok" /\ b.lost) THEN unsure \cup {b.rec} ELSE unsure
    BY <1>7 DEF Ended, Judged
  <2> HIDE DEF b
  <2>2. /\ n \in BatchType /\ n.rec = b.rec /\ n.epoch = b.epoch /\ n.seq = b.seq /\ n.inTxn = b.inTxn
        /\ n.lost = b.lost /\ n.code = code
    BY <1>1 DEF BatchType
  <2> HIDE DEF n
  <2>3. /\ flight'[p] = n /\ flight' \in [Partitions -> BatchType]
        /\ \A q \in Partitions : q # p => flight'[q] = flight[q]
    BY <1>1, <2>1, <2>2
  <2>4. n # NoBatch /\ FlightT' BY <1>1, <1>3, <2>2, <2>3 DEF FlightT, TypeInv
  <2>5. OutcomeT' /\ (\A r \in Records : r # b.rec => outcome'[r] = outcome[r])
        /\ outcome'[b.rec] = IF code = "ok" THEN "ok" ELSE "failed"
    BY <1>1, <1>4, <2>1 DEF OutcomeT
  <2>6. StrayT' /\ unsure \subseteq unsure' /\ unsure' \subseteq unsure \cup {b.rec}
    BY <1>1, <1>4, <1>5, <2>1 DEF StrayT
  <2> QED BY <2>1, <2>2, <2>3, <2>4, <2>5, <2>6
<1>8. CASE \E code \in SendCodes : Ended(p, code)
  <2>1. PICK code \in SendCodes : Ended(p, code) BY <1>8
  <2>2. /\ code # "unknown" => UNCHANGED stray
        /\ code = "ok" => Writes(p, flight[p]) \/ flight[p].seq < Expected(p, flight[p].epoch)
    BY <2>1 DEF Ended
  <2> QED BY <1>7, <2>1, <2>2 DEF SendCodes
<1> QED BY <1>0, <1>6, <1>8

(* What is written is an entry.                                            *)
LEMMA WritesT ==
  ASSUME TypeInv, NEW p \in Partitions, NEW b, b.rec \in Records, b.epoch \in Nat, b.inTxn \in BOOLEAN,
         UNCHANGED <<log, fence>> \/ Writes(p, b)
  PROVE  /\ LogT' /\ FenceT' /\ Entry(within[b.rec], b.rec, b) \in EntryType
         /\ Entry(within[b.rec], b.rec, b).fate = "open" => b.inTxn
<1>1. within[b.rec] \in 0..MaxTxns /\ b.rec \in 0..NumRecords /\ p \in Places
  BY DEF TypeInv, HandT, Records, Places
<1>2. Entry(within[b.rec], b.rec, b) \in EntryType /\ (Entry(within[b.rec], b.rec, b).fate = "open" => b.inTxn)
  BY <1>1, EntryOK
<1>3. CASE UNCHANGED <<log, fence>> BY <1>2, <1>3, TypeKept
<1>4. CASE Writes(p, b)
  <2>1. LogT' BY <1>1, <1>2, <1>4, Written DEF Writes
  <2>2. FenceT' BY <1>4 DEF Writes, TypeInv, FenceT
  <2> QED BY <1>2, <2>1, <2>2
<1> QED BY <1>3, <1>4

LEMMA SendT ==
  ASSUME TypeInv, NEW p \in Partitions, Sends(p)
  PROVE  TypeInv'
<1>1. /\ flight[p] # NoBatch /\ (UNCHANGED <<log, fence>> \/ Writes(p, flight[p]))
      /\ losses' \in 0..MaxLosses
      /\ UNCHANGED <<txn, appVars, handVars, commands, actorVars, ask, coord, rivals>>
  BY SendEnds
<1>2. flight[p].rec \in Records /\ flight[p].epoch \in Nat /\ flight[p].inTxn \in BOOLEAN
  BY <1>1 DEF TypeInv, FlightT, BatchType
<1>3. LogT' /\ FenceT' BY <1>1, <1>2, WritesT
<1>4. CountT' BY <1>1 DEF TypeInv, CountT
<1> QED BY <1>1, <1>3, <1>4, SendMoves, TypeKept DEF TypeInv

(* A request that is late is written or not.                               *)
LEMMA LateEnds ==
  ASSUME TypeInv, ServeLate
  PROVE  \E c \in stray : /\ c \in CopyType /\ stray' = stray \ {c}
                          /\ UNCHANGED <<log, fence>> \/ Writes(c.at, c)
<1>1. PICK c \in stray : stray' = stray \ {c} /\ Judge(c.at, c) BY DEF ServeLate
<1>2. c \in CopyType /\ c.at \in Partitions /\ c.epoch \in Nat /\ c.seq \in Nat
  BY DEF TypeInv, StrayT, CopyType
<1> QED BY <1>1, <1>2, JudgeEnds

LEMMA LateT ==
  ASSUME TypeInv, ServeLate
  PROVE  TypeInv'
<1>1. PICK c \in stray : /\ c \in CopyType /\ stray' = stray \ {c}
                         /\ UNCHANGED <<log, fence>> \/ Writes(c.at, c)
  BY LateEnds
<1>2. c.at \in Partitions /\ c.rec \in Records /\ c.epoch \in Nat /\ c.inTxn \in BOOLEAN BY <1>1 DEF CopyType
<1>3. LogT' /\ FenceT' BY <1>1, <1>2, WritesT
<1>4. StrayT' BY <1>1 DEF ServeLate, TypeInv, StrayT
<1> QED BY <1>3, <1>4, TypeKept DEF ServeLate, TypeInv

(* What the group coordinator makes of the offsets.                        *)
OffsetsEntry == Entry(begun, 0, [epoch |-> ask["app"].epoch, inTxn |-> TRUE])
LEMMA ServeOffsetsEnds ==
  ASSUME ServeOffsets
  PROVE  \E code \in {"ok", "fenced", "illegal_generation"} :
           /\ Asked("app", "offsets") /\ Reply("app", code, 0)
           /\ \/ UNCHANGED <<log, fence>>
              \/ /\ ask["app"].epoch >= fence[Offsets]
                 /\ log' = [log EXCEPT ![Offsets] = Append(@, OffsetsEntry)]
                 /\ fence' = [fence EXCEPT ![Offsets] = ask["app"].epoch]
BY DEF ServeOffsets, OffsetsEntry

LEMMA OffsetsEntryT == ASSUME TypeInv PROVE OffsetsEntry \in EntryType
<1> DEFINE b == [epoch |-> ask["app"].epoch, inTxn |-> TRUE]
<1>1. ask["app"].epoch \in Nat BY DEF TypeInv, AskT, AskType
<1>2. b.epoch \in Nat /\ b.inTxn \in BOOLEAN BY <1>1
<1>3. begun \in 0..MaxTxns /\ 0 \in 0..NumRecords BY TransactionsAssumption DEF TypeInv, BegunT
<1> HIDE DEF b
<1>4. Entry(begun, 0, b) \in EntryType BY <1>2, <1>3, EntryOK
<1> QED BY <1>4 DEF OffsetsEntry, b

LEMMA TypeBroker ==
  ASSUME TypeInv, BrokerNext
  PROVE  TypeInv'
<1>0. /\ coord \in CoordType /\ coord.epoch \in Nat /\ coord.epoch + 1 \in Nat \ {0}
      /\ ask \in [{"app", "actor"} -> AskType]
      /\ rivals \in 0..MaxRivals /\ losses \in 0..MaxLosses
  BY DEF TypeInv, CoordT, CoordType, AskT, CountT
<1>1. CASE ServeInit
  <2>1. Claimed /\ Reply("app", "ok", coord.epoch + 1) /\ ask["app"].op = "init" /\ ask["app"].code = "none"
    BY <1>1 DEF ServeInit, Asked
  <2>2. /\ ask' \in [{"app", "actor"} -> AskType] /\ losses' \in 0..MaxLosses
        /\ ask'["app"].code = "none" \/ ask'["app"].got = coord.epoch + 1
    BY <1>0, <2>1, ReplyOK DEF Codes
  <2>3. AskT' BY <1>0, <2>2 DEF AskT
  <2>4. CountT' BY <1>0, <1>1, <2>2 DEF ServeInit, CountT
  <2> QED BY <1>1, <2>1, <2>3, <2>4, ClaimedT, TypeKept DEF ServeInit, others, strays, TypeInv
<1>2. CASE RivalClaims
  <2>1. CountT' BY <1>0, <1>2, TransactionsAssumption DEF RivalClaims, CountT
  <2>2. Claimed BY <1>2 DEF RivalClaims
  <2> QED BY <1>2, <2>1, <2>2, ClaimedT, TypeKept DEF RivalClaims, others, strays, TypeInv
<1>3. CASE ServeOffsets
  <2>1. PICK code \in {"ok", "fenced", "illegal_generation"} :
           /\ Asked("app", "offsets") /\ Reply("app", code, 0)
           /\ \/ UNCHANGED <<log, fence>>
              \/ /\ ask["app"].epoch >= fence[Offsets]
                 /\ log' = [log EXCEPT ![Offsets] = Append(@, OffsetsEntry)]
                 /\ fence' = [fence EXCEPT ![Offsets] = ask["app"].epoch]
    BY <1>3, ServeOffsetsEnds
  <2>2. code \in Codes \ {"none"} /\ Offsets \in Places /\ ask["app"].epoch \in Nat
    BY <1>0 DEF Codes, Places, AskType
  <2>3. /\ ask' \in [{"app", "actor"} -> AskType] /\ losses' \in 0..MaxLosses
        /\ ask'["app"].op = "offsets"
    BY <2>1, <2>2, ReplyOK DEF Asked
  <2>4. AskT' /\ CountT' BY <1>0, <1>3, <2>3 DEF ServeOffsets, AskT, CountT
  <2>5. LogT' BY <2>1, <2>2, OffsetsEntryT, Written, TypeKept
  <2>6. FenceT' BY <2>1, <2>2 DEF TypeInv, FenceT
  <2> QED BY <1>3, <2>4, <2>5, <2>6, TypeKept DEF ServeOffsets, others, strays, TypeInv
<1>4. ASSUME NEW a \in {"app", "actor"}, ServeAdd(a) PROVE TypeInv'
  <2>1. PICK code \in {"ok", "fenced"} : ask[a].code = "none" /\ ask[a].op = "add" /\ Reply(a, code, 0)
    BY <1>4 DEF ServeAdd, Asked
  <2>2. code \in Codes \ {"none"} BY DEF Codes
  <2>3. /\ ask' \in [{"app", "actor"} -> AskType] /\ losses' \in 0..MaxLosses
        /\ ask'[a].op = "add" /\ \A b \in {"app", "actor"} : b # a => ask'[b] = ask[b]
    BY <2>1, <2>2, ReplyOK
  <2>4. AskT' /\ CountT' BY <1>0, <1>4, <2>3 DEF ServeAdd, TypeInv, AskT, CountT
  <2>5. CoordT'
    <3>1. CASE UNCHANGED coord BY <3>1, TypeKept
    <3>2. CASE ~UNCHANGED coord
      <4>1. PICK parts \in SUBSET Places : coord' = [coord EXCEPT !.parts = parts, !.status = "ongoing"]
        <5>1. ask[a].parts \in SUBSET Places /\ coord.parts \in SUBSET Places BY <1>0 DEF AskType, CoordType
        <5> QED BY <1>4, <3>2, <5>1 DEF ServeAdd
      <4> QED BY <1>0, <4>1 DEF CoordT, CoordType
    <3> QED BY <3>1, <3>2
  <2> QED BY <1>4, <2>4, <2>5, TypeKept DEF ServeAdd, others, strays, TypeInv
<1>5. ASSUME NEW a \in {"app", "actor"}, NotServed(a) PROVE TypeInv'
  <2>1. ask' = [ask EXCEPT ![a].code = "failed"] BY <1>5 DEF NotServed
  <2>2. AskT'
    <3>1. "failed" \in Codes BY DEF Codes
    <3>2. \A b \in {"app", "actor"} : ask'[b] \in AskType /\ (b = a => ask'[b].code = "failed")
                                      /\ (b # a => ask'[b] = ask[b])
      BY <1>0, <2>1, <3>1 DEF AskType
    <3>3. ask' = [b \in {"app", "actor"} |-> ask'[b]] BY <1>0, <2>1
    <3>4. ask' \in [{"app", "actor"} -> AskType] BY <3>2, <3>3
    <3>5. a = "app" => ask'["app"].code = "failed" BY <3>2
    <3>6. a # "app" => ask'["app"] = ask["app"] BY <3>2
    <3> QED BY <3>4, <3>5, <3>6 DEF TypeInv, AskT
  <2>3. CountT' BY <1>0, <1>5, TransactionsAssumption DEF NotServed, CountT
  <2> QED BY <1>5, <2>2, <2>3, TypeKept DEF NotServed, others, strays, TypeInv
<1>6. ASSUME NEW op \in {"commit", "abort"}, ServeEnd(op) PROVE TypeInv'
  <2>1. PICK code \in {"ok", "invalid_txn_state", "fenced"}, got \in Int :
          /\ ask["app"].op = op /\ ask["app"].code = "none" /\ Reply("app", code, got)
          /\ \/ UNCHANGED brokerVars
             \/ \E e \in Nat :
                  /\ coord' = [coord EXCEPT !.epoch = e, !.parts = {}, !.status = Fate(op)]
                  /\ Markers(Fate(op), e)
    <3> DEFINE new == IF coord.bumps THEN coord.epoch + 1 ELSE coord.epoch
    <3>1. new \in Nat /\ (IF coord.bumps THEN new ELSE -1) \in Int
          /\ (IF coord.bumps THEN coord.epoch ELSE -1) \in Int
      BY <1>0
    <3>2. /\ ask["app"].op = op /\ ask["app"].code = "none"
          /\ \/ /\ Reply("app", "ok", IF coord.bumps THEN new ELSE -1)
                /\ coord' = [coord EXCEPT !.epoch = new, !.parts = {}, !.status = Fate(op)]
                /\ Markers(Fate(op), new)
             \/ Reply("app", "ok", IF coord.bumps THEN coord.epoch ELSE -1) /\ UNCHANGED brokerVars
             \/ Reply("app", "invalid_txn_state", 0) /\ UNCHANGED brokerVars
             \/ Reply("app", "fenced", 0) /\ UNCHANGED brokerVars
      BY <1>6 DEF ServeEnd, Asked
    <3> DEFINE End(code, got) ==
          /\ ask["app"].op = op /\ ask["app"].code = "none" /\ Reply("app", code, got)
          /\ \/ UNCHANGED brokerVars
             \/ \E e \in Nat :
                  /\ coord' = [coord EXCEPT !.epoch = e, !.parts = {}, !.status = Fate(op)]
                  /\ Markers(Fate(op), e)
               got1 == IF coord.bumps THEN new ELSE -1
               got2 == IF coord.bumps THEN coord.epoch ELSE -1
    <3>3. End("ok", got1) \/ End("ok", got2) \/ End("invalid_txn_state", 0) \/ End("fenced", 0)
      <4> HIDE DEF new
      <4> QED BY <3>1, <3>2, Zenon
    <3>4. got1 \in Int /\ got2 \in Int /\ 0 \in Int BY <3>1
    <3> HIDE DEF got1, got2, End
    <3>5. \E code \in {"ok", "invalid_txn_state", "fenced"}, got \in Int : End(code, got) BY <3>3, <3>4
    <3> QED BY <3>5 DEF End
  <2>2. code \in Codes \ {"none"} /\ Fate(op) \in {"committed", "aborted"} BY DEF Codes, Fate
  <2>3. /\ ask' \in [{"app", "actor"} -> AskType] /\ losses' \in 0..MaxLosses
        /\ ask'["app"].op # "init"
    BY <1>6, <2>1, <2>2, ReplyOK
  <2>4. AskT' /\ CountT' BY <1>0, <1>6, <2>3 DEF ServeEnd, AskT, CountT
  <2>5. CASE UNCHANGED brokerVars BY <1>6, <2>4, <2>5, TypeKept DEF ServeEnd, others, strays, TypeInv
  <2>6. ASSUME NEW e \in Nat,
               coord' = [coord EXCEPT !.epoch = e, !.parts = {}, !.status = Fate(op)], Markers(Fate(op), e)
        PROVE  TypeInv'
    <3>1. CoordT'
      <4> DEFINE fate == Fate(op)
      <4>1. fate \in {"committed", "aborted"} /\ {} \in SUBSET Places BY <2>2
      <4>2. coord' = [coord EXCEPT !.epoch = e, !.parts = {}, !.status = fate] BY <2>6
      <4> HIDE DEF fate
      <4> QED BY <1>0, <4>1, <4>2 DEF CoordT, CoordType
    <3>2. LogT' /\ FenceT' BY <2>2, <2>6, MarkersT
    <3> QED BY <1>6, <2>4, <3>1, <3>2, TypeKept DEF ServeEnd, others, strays, TypeInv
  <2> QED BY <2>1, <2>5, <2>6
<1> QED BY <1>1, <1>2, <1>3, <1>4, <1>5, <1>6, SendT, LateT DEF BrokerNext, Sends

LEMMA TypeStep == TypeInv /\ [Next]_vars => TypeInv'
<1>1. TypeInv /\ Next => TypeInv' BY TypeApp, TypeActor, TypeBroker DEF Next
<1>2. TypeInv /\ UNCHANGED vars => TypeInv' BY TypeKept DEF vars, TypeInv
<1> QED BY <1>1, <1>2

(* The types hold.                                                         *)
(* Every variable of the producer, the two tasks, the coordinator and the  *)
(* logs keeps its type through fencing, lost answers and rival claims      *)
(* (transactions.rs).                                                      *)
THEOREM TypesHold == Spec => []TypeOK
BY TypeInit, TypeStep, TypeInvImplies, PTL DEF Spec

-----------------------------------------------------------------------------
(* Requests whose task waits no longer: the record failed although it may  *)
(* be written, or it is written, or the batch is sent again.               *)
Flying(c) ==
  LET b == flight[c.at]
  IN  /\ b.lost /\ b.code = "none"
      /\ b.rec = c.rec /\ b.epoch = c.epoch /\ b.seq = c.seq /\ b.inTxn = c.inTxn
StraysOK == \A c \in stray : c.rec \in unsure \/ c.seq < Expected(c.at, c.epoch) \/ Flying(c)

CountsGrow == \A p \in Partitions, e \in Nat : Expected(p, e) <= Expected(p, e)'

LEMMA SameGrows ==
  ASSUME TypeInv, LogsSame
  PROVE  CountsGrow
<1> SUFFICES ASSUME NEW p \in Partitions, NEW e \in Nat PROVE Expected(p, e) <= Expected(p, e)'
  BY DEF CountsGrow
<1> QED BY CountSame, CountIsNat

LEMMA WrittenGrows ==
  ASSUME TypeInv, NEW p \in Places, NEW x \in EntryType, log' = [log EXCEPT ![p] = Append(@, x)]
  PROVE  CountsGrow
<1> SUFFICES ASSUME NEW q \in Partitions, NEW e \in Nat PROVE Expected(q, e) <= Expected(q, e)'
  BY DEF CountsGrow
<1>1. Expected(q, e) \in Nat /\ q \in Places /\ log \in [Places -> Seq(EntryType)]
  BY CountIsNat DEF TypeInv, LogT, Places
<1>2. CASE q # p
  <2>1. log'[q] = log[q] BY <1>1, <1>2
  <2>2. Expected(q, e)' = Expected(q, e) BY <2>1 DEF Expected
  <2> QED BY <1>1, <2>2
<1>3. CASE q = p
  <2>1. log'[q] = Append(log[q], x) BY <1>1, <1>3
  <2>2. CASE x.epoch = e BY <1>1, <2>1, <2>2, CountAppend
  <2>3. CASE x.epoch # e
    <3> DEFINE s == log[q]
    <3>1. s \in Seq(EntryType) BY <1>1
    <3>2. Expected(q, e) = Cardinality(Of(s, e)) /\ Expected(q, e)' = Cardinality(Of(Append(s, x), e))
      BY <2>1 DEF Expected, Of
    <3> HIDE DEF s
    <3>3. Of(Append(s, x), e) = Of(s, e) BY <2>3, <3>1 DEF Of
    <3> QED BY <1>1, <3>2, <3>3
  <2> QED BY <2>2, <2>3
<1> QED BY <1>2, <1>3

LEMMA WritesGrow ==
  ASSUME TypeInv, NEW p \in Partitions, NEW b, b.rec \in Records, b.epoch \in Nat, b.inTxn \in BOOLEAN,
         UNCHANGED <<log, fence>> \/ Writes(p, b)
  PROVE  CountsGrow
<1>1. Entry(within[b.rec], b.rec, b) \in EntryType /\ p \in Places BY WritesT DEF Places
<1>2. CASE Writes(p, b) BY <1>1, <1>2, WrittenGrows DEF Writes
<1>3. CASE UNCHANGED <<log, fence>> BY <1>3, SameGrows DEF LogsSame
<1> QED BY <1>2, <1>3

LEMMA LessStays ==
  ASSUME TypeInv, TypeInv', CountsGrow, NEW p \in Partitions, NEW e \in Nat, NEW n \in Nat, n < Expected(p, e)
  PROVE  n < Expected(p, e)'
<1>1. log'[p] \in Seq(EntryType) BY DEF TypeInv, LogT, Places
<1>2. Expected(p, e)' = Cardinality(Of(log'[p], e)) BY DEF Expected, Of
<1>3. Expected(p, e)' \in Nat /\ Expected(p, e) \in Nat /\ Expected(p, e) <= Expected(p, e)'
  BY <1>1, <1>2, OfFinite, CountIsNat DEF CountsGrow
<1> QED BY <1>3

LEMMA StraysKept ==
  ASSUME TypeInv, StraysOK, stray' \subseteq stray, unsure \subseteq unsure', CountsGrow, TypeInv',
         \A p \in Partitions : flight[p].lost /\ flight[p].code = "none" => flight'[p] = flight[p]
  PROVE  StraysOK'
<1> SUFFICES ASSUME NEW c \in stray'
             PROVE  c.rec \in unsure' \/ c.seq < Expected(c.at, c.epoch)' \/ Flying(c)'
  BY DEF StraysOK
<1>1. c \in stray /\ c.at \in Partitions /\ c.epoch \in Nat /\ c.seq \in Nat BY DEF TypeInv, StrayT, CopyType
<1>2. Flying(c) => Flying(c)' BY <1>1 DEF Flying
<1>3. c.seq < Expected(c.at, c.epoch) => c.seq < Expected(c.at, c.epoch)' BY <1>1, LessStays
<1> QED BY <1>1, <1>2, <1>3 DEF StraysOK

LEMMA StraysSend ==
  ASSUME TypeInv, StraysOK, NEW p \in Partitions, Sends(p)
  PROVE  StraysOK'
<1>0. TypeInv' BY SendT
<1>1. /\ flight[p] # NoBatch /\ flight[p].code = "none" /\ (UNCHANGED <<log, fence>> \/ Writes(p, flight[p]))
      /\ UNCHANGED stray \/ stray' = stray \cup {Copy(p)}
  BY SendEnds
<1>2. /\ flight[p].rec \in Records /\ flight[p].epoch \in Nat /\ flight[p].seq \in Nat
      /\ flight[p].inTxn \in BOOLEAN /\ flight[p].lost \in BOOLEAN
  BY <1>1 DEF TypeInv, FlightT, BatchType
<1>3. CountsGrow BY <1>1, <1>2, WritesGrow
<1>40. PICK e \in Nat : e = flight[p].epoch BY <1>2
<1>4. flight'[p].code = "ok" => flight[p].seq < Expected(p, e)'
  <2> SUFFICES ASSUME flight'[p].code = "ok" PROVE flight[p].seq < Expected(p, e)' OBVIOUS
  <2>2. Expected(p, e) \in Nat BY CountIsNat
  <2>3. CASE Writes(p, flight[p])
    <3> DEFINE x == Entry(within[flight[p].rec], flight[p].rec, flight[p])
    <3>1. x \in EntryType /\ x.epoch = flight[p].epoch BY <1>2, <2>3, WritesT DEF Entry
    <3>2. log'[p] = Append(log[p], x) /\ flight[p].seq = Expected(p, e)
      BY <1>40, <2>3 DEF Writes, TypeInv, LogT, Places
    <3> HIDE DEF x
    <3>3. Expected(p, e)' = Expected(p, e) + 1 BY <1>40, <3>1, <3>2, CountAppend
    <3>4. flight[p].seq < Expected(p, e)' BY <2>2, <3>2, <3>3
    <3> QED BY <3>4
  <2>4. CASE flight[p].seq < Expected(p, flight[p].epoch)
    <3>1. flight[p].seq < Expected(p, e) BY <1>40, <2>4
    <3>3. flight[p].seq < Expected(p, e)' BY <1>0, <1>2, <1>3, <3>1, LessStays
    <3> QED BY <3>3
  <2> QED BY <2>3, <2>4, SendMoves
<1> SUFFICES ASSUME NEW c \in stray'
             PROVE  c.rec \in unsure' \/ c.seq < Expected(c.at, c.epoch)' \/ Flying(c)'
  BY DEF StraysOK
<1>5. c \in CopyType /\ c.at \in Partitions /\ c.epoch \in Nat /\ c.seq \in Nat
  BY <1>0 DEF TypeInv, StrayT, CopyType
<1> DEFINE Mine == /\ c.at = p /\ c.rec = flight[p].rec /\ c.epoch = flight[p].epoch
                   /\ c.seq = flight[p].seq /\ c.inTxn = flight[p].inTxn
<1>6. CASE Mine /\ flight'[p].code = "none" /\ flight'[p].lost BY <1>6, SendMoves DEF Flying
<1>7. CASE Mine /\ flight'[p].code = "ok"
  <2>1. c.at = p /\ c.epoch = e BY <1>7, <1>40
  <2>2. Expected(c.at, c.epoch)' = Expected(p, e)' BY <2>1
  <2> QED BY <1>4, <1>7, <2>2
<1>8. CASE Mine /\ (flight'[p].code = "unknown" \/ (flight'[p].code # "ok" /\ flight[p].lost))
           /\ ~(flight'[p].code = "none" /\ flight'[p].lost)
  BY <1>8, SendMoves
<1>9. CASE c = Copy(p)
  <2>1. Mine BY <1>9 DEF Copy
  <2>2. CASE flight'[p].code \in {"none", "unknown", "ok"}
    BY <1>6, <1>7, <1>8, <2>1, <2>2, SendMoves DEF SendCodes
  <2>3. CASE flight'[p].code \notin {"none", "unknown", "ok"}
    <3>1. c \in stray BY <2>3, SendMoves DEF SendCodes
    <3>2. CASE flight[p].lost BY <1>8, <2>1, <2>3, <3>2
    <3>3. CASE ~flight[p].lost
      <4>1. ~Flying(c) /\ unsure' = unsure BY <2>1, <2>3, <3>3, SendMoves DEF Flying
      <4>2. c.rec \in unsure \/ c.seq < Expected(c.at, c.epoch) BY <3>1, <4>1 DEF StraysOK
      <4>3. c.seq < Expected(c.at, c.epoch) => c.seq < Expected(c.at, c.epoch)' BY <1>0, <1>3, <1>5, LessStays
      <4> QED BY <4>1, <4>2, <4>3
    <3> QED BY <1>2, <3>2, <3>3
  <2> QED BY <2>2, <2>3
<1>10. CASE c # Copy(p)
  <2>1. c \in stray BY <1>1, <1>10
  <2>2. CASE Flying(c) /\ c.at = p
    <3>1. Mine /\ flight[p].lost BY <2>2 DEF Flying
    <3> QED BY <1>6, <1>7, <1>8, <3>1, SendMoves DEF SendCodes
  <2>3. CASE Flying(c) /\ c.at # p BY <1>5, <2>3, SendMoves DEF Flying
  <2>4. c.seq < Expected(c.at, c.epoch) => c.seq < Expected(c.at, c.epoch)' BY <1>0, <1>3, <1>5, LessStays
  <2>5. unsure \subseteq unsure' BY SendMoves
  <2> QED BY <2>1, <2>2, <2>3, <2>4, <2>5 DEF StraysOK
<1> QED BY <1>9, <1>10

LEMMA StraysStep ==
  ASSUME TypeInv, StraysOK, Next
  PROVE  StraysOK'
<1>0. TypeInv' BY TypeStep
<1>1. CASE AppNext
  <2>1. UNCHANGED <<flight, log, stray, unsure>>
    BY <1>1 DEF AppNext, StartInit, FinishInit, begin, Enqueue, SendOffsets, OffsetsAdded, OffsetsSent,
                StartEnd, SendEnd, FinishEnd
  <2>2. LogsSame BY <2>1 DEF LogsSame
  <2> QED BY <1>0, <2>1, <2>2, SameGrows, StraysKept
<1>2. CASE ActorNext
  <2>1. UNCHANGED <<log, stray, unsure>>
    BY <1>2 DEF ActorNext, HandleAppend, HandleFlush, FindMissing, StartEnrol, FinishEnrol, Dispatch,
                HandleCompleted
  <2>2. \A p \in Partitions : flight[p].lost /\ flight[p].code = "none" => flight'[p] = flight[p]
    <3> SUFFICES ASSUME NEW p \in Partitions, flight[p].lost, flight[p].code = "none"
                 PROVE  flight'[p] = flight[p]
      OBVIOUS
    <3>1. p \notin Ready BY DEF Ready, Free, NoBatch
    <3>2. CASE Dispatch BY <3>1, <3>2 DEF Dispatch
    <3>3. ASSUME NEW q \in Partitions, HandleCompleted(q) PROVE flight'[p] = flight[p]
      <4>1. q # p /\ flight' = [flight EXCEPT ![q] = NoBatch] BY <3>3 DEF HandleCompleted
      <4> QED BY <4>1 DEF TypeInv, FlightT
    <3>4. CASE HandleAppend \/ HandleFlush \/ FindMissing \/ StartEnrol \/ FinishEnrol
      BY <3>4 DEF HandleAppend, HandleFlush, FindMissing, StartEnrol, FinishEnrol
    <3> QED BY <1>2, <3>2, <3>3, <3>4 DEF ActorNext
  <2>3. LogsSame BY <2>1 DEF LogsSame
  <2> QED BY <1>0, <2>1, <2>2, <2>3, SameGrows, StraysKept
<1>3. CASE BrokerNext
  <2>1. ASSUME LogsSame, UNCHANGED <<flight, stray, unsure>> PROVE StraysOK'
    BY <1>0, <2>1, SameGrows, StraysKept
  <2>2. CASE ServeInit \/ RivalClaims
    <3>1. Claimed /\ UNCHANGED <<flight, stray, unsure>> BY <2>2 DEF ServeInit, RivalClaims, others, strays
    <3>2. UNCHANGED log \/ Markers("aborted", coord.epoch + 1) BY <3>1 DEF Claimed
    <3>3. LogsSame BY <3>2, MarkersSame DEF LogsSame
    <3> QED BY <2>1, <3>1, <3>3
  <2>3. CASE \E a \in {"app", "actor"} : ServeAdd(a) \/ NotServed(a)
    <3>1. UNCHANGED <<flight, log, stray, unsure>> BY <2>3 DEF ServeAdd, NotServed, others, strays
    <3> QED BY <2>1, <3>1 DEF LogsSame
  <2>4. ASSUME NEW op \in {"commit", "abort"}, ServeEnd(op) PROVE StraysOK'
    <3>1. UNCHANGED <<flight, stray, unsure>> BY <2>4 DEF ServeEnd, others, strays
    <3>2. UNCHANGED log \/ \E e : Markers(Fate(op), e) BY <2>4 DEF ServeEnd
    <3>3. LogsSame BY <3>2, MarkersSame DEF LogsSame
    <3> QED BY <2>1, <3>1, <3>3
  <2>5. CASE ServeOffsets
    <3>1. UNCHANGED <<flight, stray, unsure>> BY <2>5 DEF ServeOffsets, others, strays
    <3>2. UNCHANGED log \/ log' = [log EXCEPT ![Offsets] = Append(@, OffsetsEntry)] BY <2>5, ServeOffsetsEnds
    <3>3. CountsGrow
      <4>1. UNCHANGED log => LogsSame BY DEF LogsSame
      <4> QED BY <3>2, <4>1, SameGrows, WrittenGrows, OffsetsEntryT DEF Places
    <3> QED BY <1>0, <3>1, <3>3, StraysKept
  <2>6. CASE ServeLate
    <3>1. PICK c \in stray : /\ c \in CopyType /\ stray' = stray \ {c}
                             /\ UNCHANGED <<log, fence>> \/ Writes(c.at, c)
      BY <2>6, LateEnds
    <3>2. c.at \in Partitions /\ c.rec \in Records /\ c.epoch \in Nat /\ c.inTxn \in BOOLEAN
      BY <3>1 DEF CopyType
    <3>3. CountsGrow BY <3>1, <3>2, WritesGrow
    <3>4. UNCHANGED <<flight, unsure>> BY <2>6 DEF ServeLate
    <3> QED BY <1>0, <3>1, <3>3, <3>4, StraysKept
  <2> QED BY <1>3, <2>2, <2>3, <2>4, <2>5, <2>6, StraysSend DEF BrokerNext, Sends
<1> QED BY <1>1, <1>2, <1>3 DEF Next

-----------------------------------------------------------------------------
(* Enrolled first.                                                         *)

LEMMA Typed ==
  ASSUME TypeInv
  PROVE  /\ txn \in TxnType /\ txn.identity \in Nat /\ txn.open \in BOOLEAN /\ txn.fenced \in BOOLEAN
         /\ txn.enrolled \subseteq Partitions /\ failed \in BOOLEAN /\ waiting \in BOOLEAN
         /\ coord.epoch \in Nat /\ coord.bumps \in BOOLEAN /\ fence \in [Places -> Nat]
         /\ actor \in ActorType /\ actor.identity \in Nat /\ actor.missing \subseteq Partitions
         /\ actor.pending \in [Partitions -> Seq(Records)]
         /\ commands \in Seq(Records \cup {Flush})
         /\ Partitions \subseteq Places /\ Offsets \in Places
         /\ \A p \in Partitions : /\ flight[p] \in BatchType /\ flight[p].epoch \in Nat
                                  /\ flight[p].inTxn \in BOOLEAN
         /\ \A a \in {"app", "actor"} : /\ ask[a] \in AskType /\ ask[a].epoch \in Nat /\ ask[a].got \in Int
                                        /\ ask[a].parts \subseteq Places
BY DEF TypeInv, TxnT, AppT, WaitingT, CoordT, FenceT, ActorT, CommandsT, FlightT, AskT,
       TxnType, CoordType, ActorType, BatchType, AskType, Places

NoBatchFields == NoBatch.inTxn = FALSE /\ NoBatch.code = "none" /\ NoBatch.epoch = 0
LEMMA NoBatchIs == NoBatchFields
BY DEF NoBatch, NoBatchFields

LEMMA RecordsNotFlush == Flush \notin Records
BY TransactionsAssumption DEF Flush, Records

(* What is open is in the transaction, entry by entry.                     *)
OpenOK ==
  \A p \in Places : \A i \in DOMAIN log[p] :
    log[p][i].fate = "open" /\ ~Doubtful(log[p][i]) => coord.status = "ongoing" /\ p \in coord.parts
LEMMA OpenIs == EnrolledFirst <=> OpenOK
BY DEF EnrolledFirst, OpenOK, Entries

LEMMA EnrolledKept ==
  ASSUME EnrolledFirst, UNCHANGED <<log, coord>>, unsure \subseteq unsure'
  PROVE  EnrolledFirst'
BY DEF EnrolledFirst, Entries, Doubtful

LEMMA TxnInit == Init => TxnInv
<1> SUFFICES ASSUME Init PROVE TxnInv OBVIOUS
<1>1. TypeInv BY TypeInit
<1>2. /\ txn.identity = 0 /\ txn.open = FALSE /\ txn.enrolled = {} /\ app = "none" /\ failed = FALSE
      /\ commands = <<>> /\ actor.identity = 0 /\ pc = "select" /\ waiting = FALSE
      /\ \A p \in Partitions : flight[p] = NoBatch /\ actor.pending[p] = <<>>
      /\ coord.epoch = 0 /\ \A p \in Places : fence[p] = 0 /\ log[p] = <<>>
      /\ \A a \in {"app", "actor"} : ask[a] = NoAsk
  BY DEF Init, NoIdentity
<1>3. NoAsk.op = "none" /\ NoAsk.epoch = 0 /\ NoAsk.got = 0 BY DEF NoAsk
<1>4. AsksOK BY <1>2, <1>3 DEF AsksOK, NoIdentity
<1>5. FlushOK /\ IdleOK /\ ActorOK BY <1>2 DEF FlushOK, IdleOK, Idle, Empty, ActorOK
<1>6. EpochsOK BY <1>2, <1>3, NoBatchIs DEF EpochsOK, NoBatchFields
<1>7. LiveOK BY <1>2, <1>3, NoBatchIs DEF LiveOK, NoBatchFields
<1>8. EnrolledFirst
  <2>1. OpenOK BY <1>2 DEF OpenOK
  <2> QED BY <2>1, OpenIs
<1> QED BY <1>1, <1>4, <1>5, <1>6, <1>7, <1>8 DEF TxnInv

(* The application sends a call and waits for it.                          *)
LEMMA CallStep ==
  ASSUME TxnInv, TypeInv', UNCHANGED <<txn, commands, actor, pc, waiting, flight, coord, log, fence, unsure>>,
         ask'["actor"] = ask["actor"], ask'["app"].epoch <= coord.epoch, ask'["app"].got <= coord.epoch,
         AsksOK', FlushOK',
         Ending' => Ending, Ending => Ending' \/ failed', failed => failed',
         ask'["app"].op = "add" /\ ask'["app"].code = "ok" => Live(Offsets, ask'["app"].epoch),
         ask'["app"].op = "offsets" => Live(Offsets, ask'["app"].epoch)
  PROVE  TxnInv'
<1>0. TypeInv /\ failed' \in BOOLEAN BY Typed DEF TxnInv, TypeInv, AppT
<1>1. IdleOK' BY DEF TxnInv, IdleOK, Idle, Empty
<1>2. ActorOK' BY DEF TxnInv, ActorOK
<1>3. EpochsOK' BY DEF TxnInv, EpochsOK
<1>4. Barren => Barren' BY <1>0 DEF Barren, Empty, NoRecords
<1>6. LiveOK' BY <1>4 DEF TxnInv, LiveOK, Live
<1>7. EnrolledFirst' BY EnrolledKept DEF TxnInv
<1> QED BY <1>1, <1>2, <1>3, <1>6, <1>7 DEF TxnInv

(* ... and takes a bad answer: it may learn that it is fenced.             *)
LEMMA BadAnswer ==
  ASSUME TxnInv, TypeInv', UNCHANGED <<commands, actor, pc, waiting, flight, coord, log, fence, unsure>>,
         ask' = [ask EXCEPT !["app"] = NoAsk], NEW code, txn' = Noted(txn, code),
         app \in {"init", "offsets", "end_commit", "end_abort"}, app' = "none",
         failed' \in BOOLEAN, failed => failed', app \in {"end_commit", "end_abort"} => failed'
  PROVE  TxnInv'
<1>0. TypeInv /\ txn \in TxnType /\ AsksOK BY Typed DEF TxnInv
<1>1. /\ ask'["actor"] = ask["actor"] /\ ask'["app"].op = "none" /\ ask'["app"].epoch = 0 /\ ask'["app"].got = 0
  BY <1>0, AskTaken
<1>2. /\ txn'.identity = txn.identity /\ txn'.enrolled = txn.enrolled
      /\ txn' = txn \/ (txn'.open = FALSE /\ txn'.fenced = TRUE)
  BY <1>0, NotedOK
<1>3. AsksOK' BY <1>0, <1>1, <1>2 DEF AsksOK
<1>4. FlushOK' BY DEF TxnInv, FlushOK
<1>5. IdleOK' BY <1>2 DEF TxnInv, IdleOK, Idle, Empty, Ending
<1>6. ActorOK' BY <1>2 DEF TxnInv, ActorOK
<1>7. EpochsOK' BY <1>0, <1>1, <1>2, Typed DEF TxnInv, EpochsOK
<1>8. Barren => Barren' BY DEF Barren, Empty, NoRecords, Ending
<1>9. LiveOK' BY <1>1, <1>2, <1>8 DEF TxnInv, LiveOK, Live
<1>10. EnrolledFirst' BY EnrolledKept DEF TxnInv
<1> QED BY <1>3, <1>4, <1>5, <1>6, <1>7, <1>9, <1>10 DEF TxnInv

(* ... or a good one, which leaves no transaction open.                    *)
LEMMA GoodAnswer ==
  ASSUME TxnInv, TypeInv', UNCHANGED <<commands, actor, pc, waiting, flight, coord, log, fence, unsure>>,
         ask' = [ask EXCEPT !["app"] = NoAsk], txn'.open = FALSE,
         txn'.identity <= coord.epoch, app' = "none",
         app = "init" \/ Ending
  PROVE  TxnInv'
<1>0. TypeInv /\ txn \in TxnType /\ AsksOK BY Typed DEF TxnInv
<1>1. /\ ask'["actor"] = ask["actor"] /\ ask'["app"].op = "none" /\ ask'["app"].epoch = 0 /\ ask'["app"].got = 0
  BY <1>0, AskTaken
<1>2. Idle BY <1>0 DEF TxnInv, AsksOK, IdleOK
<1>3. AsksOK' BY <1>0, <1>1, <1>2 DEF AsksOK, Idle
<1>4. FlushOK' BY <1>2 DEF TxnInv, FlushOK, Idle, Ending
<1>5. IdleOK' /\ ActorOK' BY <1>2 DEF IdleOK, ActorOK, Idle, Empty
<1>6. EpochsOK' BY <1>0, <1>1, Typed DEF TxnInv, EpochsOK
<1>7. LiveOK' BY <1>1 DEF TxnInv, LiveOK, Live
<1>8. EnrolledFirst' BY EnrolledKept DEF TxnInv
<1> QED BY <1>3, <1>4, <1>5, <1>6, <1>7, <1>8 DEF TxnInv

LEMMA AppStep ==
  ASSUME TxnInv, AppNext
  PROVE  TxnInv'
<1>0. TypeInv' /\ TypeInv /\ AsksOK /\ FlushOK BY TypeApp DEF TxnInv
<1>00. /\ txn.identity \in Nat /\ txn.identity <= coord.epoch /\ coord.epoch \in Nat /\ failed \in BOOLEAN
       /\ txn.open \in BOOLEAN /\ {} \in SUBSET Places /\ {Offsets} \in SUBSET Places
       /\ \A a \in {"app", "actor"} : ask[a].epoch \in Nat /\ ask[a].epoch <= coord.epoch
                                      /\ ask[a].got <= coord.epoch
  BY <1>0, Typed DEF TxnInv, EpochsOK, Places
<1>1. CASE StartInit
  <2>1. /\ ask'["app"].op = "init" /\ ask'["app"].epoch = 0 /\ ask'["app"].got = 0
        /\ ask'["actor"] = ask["actor"]
    BY <1>0, <1>00, <1>1, AskOK DEF StartInit
  <2>2. app = "none" /\ app' = "init" /\ UNCHANGED failed /\ txn.identity = NoIdentity /\ UNCHANGED txn
    BY <1>1 DEF StartInit
  <2>3. AsksOK' BY <1>0, <1>1, <2>1, <2>2 DEF AsksOK, StartInit
  <2>4. FlushOK' BY <1>0, <1>1, <2>2 DEF FlushOK, StartInit
  <2> QED BY <1>0, <1>00, <1>1, <2>1, <2>2, <2>3, <2>4, CallStep DEF StartInit, Ending
<1>2. CASE FinishInit
  <2>1. app = "init" BY <1>0, <1>2 DEF FinishInit, Answered, AsksOK
  <2>2. CASE ask["app"].code = "ok"
    <3>1. txn' = [txn EXCEPT !.identity = ask["app"].got, !.open = FALSE, !.enrolled = {}]
      BY <1>2, <2>2 DEF FinishInit
    <3>2. txn'.open = FALSE /\ txn'.identity = ask["app"].got BY <1>0, <3>1, Typed DEF TxnType
    <3> QED BY <1>0, <1>00, <1>2, <2>1, <3>2, GoodAnswer DEF FinishInit
  <2>3. CASE ask["app"].code # "ok"
    <3>1. txn' = Noted(txn, ask["app"].code) /\ failed' = failed BY <1>00, <1>2, <2>3 DEF FinishInit
    <3> QED BY <1>0, <1>00, <1>2, <2>1, <3>1, BadAnswer DEF FinishInit
  <2> QED BY <2>2, <2>3
<1>3. CASE begin
  <2>1. /\ txn' = [txn EXCEPT !.open = TRUE, !.enrolled = {}] /\ app = "none" /\ txn.identity # NoIdentity
        /\ ~txn.fenced /\ ~txn.open
        /\ UNCHANGED <<app, commands, actor, pc, waiting, flight, ask, coord, log, fence, unsure>> /\ failed' = FALSE
    BY <1>3 DEF begin
  <2>2. /\ txn'.identity = txn.identity /\ txn'.open = TRUE /\ txn'.enrolled = {}
    BY <1>0, <2>1, Typed DEF TxnType
  <2>3. AsksOK' BY <1>0, <2>1, <2>2 DEF AsksOK
  <2>4. FlushOK' BY <1>0, <2>1 DEF FlushOK
  <2>5. IdleOK' /\ ActorOK' BY <2>1, <2>2 DEF TxnInv, IdleOK, ActorOK, Ending
  <2>6. EpochsOK' BY <2>1, <2>2 DEF TxnInv, EpochsOK
  <2>7. LiveOK' BY <2>1, <2>2 DEF TxnInv, LiveOK, Live
  <2>8. EnrolledFirst' BY <2>1, EnrolledKept DEF TxnInv
  <2> QED BY <1>0, <2>3, <2>4, <2>5, <2>6, <2>7, <2>8 DEF TxnInv
<1>4. CASE Enqueue
  <2>1. /\ app = "none" /\ txn.open /\ ~failed /\ commands' = Append(commands, handed + 1)
        /\ UNCHANGED <<txn, app, failed, actor, pc, waiting, flight, ask, coord, log, fence, unsure>>
    BY <1>4 DEF Enqueue
  <2>2. handed + 1 \in Records /\ handed + 1 # Flush
    BY <1>4, RecordsNotFlush, TransactionsAssumption DEF Enqueue, TxnInv, TypeInv, HandT, Records
  <2>3. AsksOK' /\ ActorOK' /\ EpochsOK' BY <1>0, <2>1 DEF TxnInv, AsksOK, ActorOK, EpochsOK
  <2>4. FlushOK'
    <3>1. commands \in Seq(Records \cup {Flush}) /\ waiting \in BOOLEAN BY <1>0, Typed
    <3>2. \A i \in DOMAIN commands' : commands'[i] # Flush
      <4>1. \A i \in DOMAIN commands : commands[i] # Flush BY <1>0, <2>1 DEF FlushOK
      <4> QED BY <2>1, <2>2, <3>1, <4>1
    <3>3. ~waiting BY <1>0, <2>1, <3>1 DEF FlushOK
    <3> QED BY <2>1, <3>2, <3>3 DEF FlushOK
  <2>5. IdleOK' BY <1>0, <2>1 DEF IdleOK, Ending, AsksOK
  <2>6. LiveOK'
    <3>1. ~Barren BY <2>1 DEF Barren, Ending
    <3> QED BY <2>1, <3>1 DEF TxnInv, LiveOK, Live
  <2>7. EnrolledFirst' BY <2>1, EnrolledKept DEF TxnInv
  <2> QED BY <1>0, <2>3, <2>4, <2>5, <2>6, <2>7 DEF TxnInv
<1>5. CASE SendOffsets
  <2>1. /\ ask'["app"].op = "add" /\ ask'["app"].epoch = txn.identity /\ ask'["app"].got = 0
        /\ ask'["app"].parts = {Offsets} /\ ask'["app"].code = "none" /\ ask'["actor"] = ask["actor"]
    BY <1>0, <1>00, <1>5, AskOK DEF SendOffsets
  <2>2. app = "none" /\ app' = "offsets" /\ UNCHANGED failed /\ ~failed /\ UNCHANGED txn
    BY <1>5 DEF SendOffsets
  <2>3. AsksOK' BY <1>0, <1>5, <2>1, <2>2 DEF AsksOK, SendOffsets
  <2>4. FlushOK' BY <1>0, <1>5, <2>2 DEF FlushOK, SendOffsets
  <2> QED BY <1>0, <1>00, <1>5, <2>1, <2>2, <2>3, <2>4, CallStep DEF SendOffsets, Ending
<1>6. CASE OffsetsAdded
  <2>1. CASE ask["app"].code = "ok"
    <3>1. Ask("app", "offsets", ask["app"].epoch, {Offsets}) /\ UNCHANGED <<txn, app, failed>>
      BY <1>6, <2>1 DEF OffsetsAdded
    <3>2. /\ ask'["app"].op = "offsets" /\ ask'["app"].epoch = ask["app"].epoch /\ ask'["app"].got = 0
          /\ ask'["app"].parts = {Offsets} /\ ask'["actor"] = ask["actor"]
      BY <1>0, <1>00, <3>1, AskOK
    <3>3. AsksOK' BY <1>0, <1>6, <3>1, <3>2 DEF AsksOK, OffsetsAdded
    <3>4. FlushOK' BY <1>0, <1>6, <3>1 DEF FlushOK, OffsetsAdded
    <3>5. Live(Offsets, ask'["app"].epoch) BY <1>6, <2>1, <3>2 DEF TxnInv, LiveOK, OffsetsAdded, Answered
    <3> QED BY <1>0, <1>00, <1>6, <3>1, <3>2, <3>3, <3>4, <3>5, CallStep DEF OffsetsAdded, Ending
  <2>2. CASE ask["app"].code # "ok" BY <1>0, <1>00, <1>6, <2>2, BadAnswer DEF OffsetsAdded
  <2> QED BY <2>1, <2>2
<1>7. CASE OffsetsSent BY <1>0, <1>00, <1>7, BadAnswer DEF OffsetsSent, AsksOK
<1>8. ASSUME NEW op \in {"commit", "abort"}, StartEnd(op) PROVE TxnInv'
  <2>1. /\ app = "none" /\ txn.open /\ app' = op /\ commands' = Append(commands, Flush)
        /\ UNCHANGED <<txn, failed, actor, pc, waiting, flight, ask, coord, log, fence, unsure>>
    BY <1>8 DEF StartEnd
  <2>2. AsksOK' /\ ActorOK' /\ EpochsOK' BY <1>0, <1>8, <2>1 DEF TxnInv, AsksOK, ActorOK, EpochsOK
  <2>3. commands \in Seq(Records \cup {Flush}) /\ waiting \in BOOLEAN BY <1>0, Typed
  <2>4. /\ Len(commands') = Len(commands) + 1 /\ DOMAIN commands' = 1..(Len(commands) + 1)
        /\ \A i \in DOMAIN commands : commands'[i] = commands[i]
        /\ commands'[Len(commands) + 1] = Flush /\ DOMAIN commands = 1..Len(commands) /\ Len(commands) \in Nat
    BY <2>1, <2>3
  <2>5. FlushOK'
    <3>1. \A i \in DOMAIN commands : commands[i] # Flush BY <1>0, <2>1 DEF FlushOK
    <3>2. ~waiting BY <1>0, <2>1, <2>3 DEF FlushOK
    <3> QED BY <1>8, <2>1, <2>4, <3>1, <3>2 DEF FlushOK
  <2>6. IdleOK' BY <1>0, <1>8, <2>1 DEF IdleOK, Ending, AsksOK
  <2>7. LiveOK'
    <3>1. NoRecords => NoRecords' BY <2>4 DEF NoRecords
    <3>2. Barren => Barren' BY <2>1, <3>1 DEF Barren, Ending, Empty
    <3> QED BY <2>1, <3>2 DEF TxnInv, LiveOK, Live
  <2>8. EnrolledFirst' BY <2>1, EnrolledKept DEF TxnInv
  <2> QED BY <1>0, <2>2, <2>5, <2>6, <2>7, <2>8 DEF TxnInv
<1>9. ASSUME NEW op \in {"commit", "abort"}, SendEnd(op) PROVE TxnInv'
  <2>1. /\ app = (IF op = "commit" THEN "end_commit" ELSE "end_abort") /\ ask["app"] = NoAsk
        /\ UNCHANGED <<txn, commands, actor, pc, waiting, flight, coord, log, fence, unsure>>
    BY <1>9 DEF SendEnd
  <2>2. CASE Ask("app", op, txn.identity, {}) /\ UNCHANGED <<app, failed>>
    <3>1. /\ ask'["app"].op = op /\ ask'["app"].epoch = txn.identity /\ ask'["app"].got = 0
          /\ ask'["actor"] = ask["actor"]
      <4>1. op \in {"init", "add", "offsets", "commit", "abort"} BY <1>9
      <4> QED BY <1>0, <1>00, <2>2, <4>1, AskOK
    <3>2. AsksOK' BY <1>0, <1>9, <2>1, <2>2, <3>1 DEF AsksOK
    <3>3. FlushOK' BY <1>0, <2>1, <2>2 DEF FlushOK
    <3> QED BY <1>0, <1>00, <1>9, <2>1, <2>2, <3>1, <3>2, <3>3, CallStep DEF Ending
  <2>3. CASE app' = "none" /\ failed' = TRUE /\ UNCHANGED ask
    <3>1. ask["app"].op = "none" BY <2>1 DEF NoAsk
    <3>2. AsksOK' BY <1>0, <2>1, <2>3, <3>1 DEF AsksOK
    <3>3. FlushOK' BY <1>0, <2>1, <2>3 DEF FlushOK
    <3> QED BY <1>0, <1>00, <2>1, <2>3, <3>1, <3>2, <3>3, CallStep DEF Ending
  <2> QED BY <1>9, <2>2, <2>3 DEF SendEnd
<1>10. ASSUME NEW op \in {"commit", "abort"}, FinishEnd(op) PROVE TxnInv'
  <2>1. app \in {"end_commit", "end_abort"} BY <1>0, <1>10 DEF FinishEnd, Answered, AsksOK
  <2>2. CASE ask["app"].code = "ok"
    <3>1. PICK id : /\ txn' = [txn EXCEPT !.identity = id, !.open = FALSE, !.enrolled = {}]
                    /\ id \in {ask["app"].got, txn.identity}
      BY <1>10, <2>2 DEF FinishEnd
    <3>2. txn'.open = FALSE /\ txn'.identity = id BY <1>0, <3>1, Typed DEF TxnType
    <3> QED BY <1>0, <1>00, <1>10, <2>1, <3>1, <3>2, GoodAnswer DEF FinishEnd, Ending
  <2>3. CASE ask["app"].code # "ok"
    <3>1. /\ txn' = Noted(txn, ask["app"].code) /\ failed' = TRUE /\ app' = "none"
          /\ ask' = [ask EXCEPT !["app"] = NoAsk]
          /\ UNCHANGED <<commands, actor, pc, waiting, flight, coord, log, fence, unsure>>
      BY <1>10, <2>3 DEF FinishEnd
    <3> QED BY <1>0, <2>1, <3>1, BadAnswer
  <2> QED BY <2>2, <2>3
<1> QED BY <1>1, <1>2, <1>3, <1>4, <1>5, <1>6, <1>7, <1>8, <1>9, <1>10 DEF AppNext

(* The actor takes up a command or a completed batch.                      *)
LEMMA EventStep ==
  ASSUME TxnInv, TypeInv', pc = "select", pc' = "missing", ~Idle, actor'.identity = txn.identity,
         UNCHANGED <<txn, app, failed, ask, coord, log, fence, unsure>>,
         \A p \in Partitions : flight'[p] \in {flight[p], NoBatch},
         FlushOK', Barren => Barren'
  PROVE  TxnInv'
<1>0. TypeInv BY DEF TxnInv
<1>1. AsksOK' /\ ActorOK' BY DEF TxnInv, AsksOK, ActorOK
<1>2. IdleOK' BY DEF TxnInv, IdleOK, Ending
<1>3. EpochsOK'
  <2>1. \A p \in Partitions : flight'[p].epoch <= coord.epoch
    <3>1. 0 <= coord.epoch BY <1>0, Typed
    <3>2. NoBatch.epoch = 0 BY NoBatchIs DEF NoBatchFields
    <3> QED BY <3>1, <3>2 DEF TxnInv, EpochsOK
  <2> QED BY <2>1 DEF TxnInv, EpochsOK
<1>4. LiveOK'
  <2>1. txn.open => \A p \in txn.enrolled : Live(p, txn.identity)' \/ Barren' BY DEF TxnInv, LiveOK, Live
  <2>2. \A p \in Partitions : flight'[p].inTxn /\ flight'[p].code = "none" => Live(p, flight[p].epoch)'
    BY NoBatchIs DEF TxnInv, LiveOK, Live, NoBatchFields
  <2> QED BY <2>1, <2>2 DEF TxnInv, LiveOK, Live
<1>5. EnrolledFirst' BY EnrolledKept DEF TxnInv
<1> QED BY <1>1, <1>2, <1>3, <1>4, <1>5 DEF TxnInv

(* It finds that partitions cannot be enrolled.                            *)
LEMMA FailStep ==
  ASSUME TxnInv, TypeInv', FailMissing, pc \in {"enrol", "enrolling"}, pc' = "dispatch",
         UNCHANGED <<app, failed, commands, waiting, flight, coord, log, fence, unsure>>,
         ask'["app"] = ask["app"], ask'["actor"].op = "none", ask'["actor"].epoch <= coord.epoch,
         ask'["actor"].got <= coord.epoch,
         txn'.identity = txn.identity, txn'.enrolled = txn.enrolled,
         txn' = txn \/ (txn'.open = FALSE /\ txn'.fenced = TRUE)
  PROVE  TxnInv'
<1>0. TypeInv /\ actor \in ActorType BY Typed DEF TxnInv
<1>1. /\ actor'.identity = actor.identity
      /\ \A p \in Partitions : actor'.pending[p] = IF p \in actor.missing THEN <<>> ELSE actor.pending[p]
  BY <1>0, FailMissingT
<1>2. AsksOK' /\ ActorOK' BY <1>1 DEF TxnInv, AsksOK, ActorOK
<1>3. FlushOK' BY DEF TxnInv, FlushOK
<1>4. IdleOK' BY DEF TxnInv, IdleOK, Idle, Ending
<1>5. EpochsOK'
  <2>1. \A a \in {"app", "actor"} : ask'[a].epoch <= coord.epoch /\ ask'[a].got <= coord.epoch
    BY DEF TxnInv, EpochsOK
  <2>2. txn'.identity <= coord.epoch /\ actor'.identity <= coord.epoch BY <1>1 DEF TxnInv, EpochsOK
  <2> QED BY <2>1, <2>2 DEF TxnInv, EpochsOK
<1>6. Barren => Barren' BY <1>1 DEF Barren, Ending, Empty, NoRecords
<1>7. LiveOK' BY <1>6 DEF TxnInv, LiveOK, Live
<1>8. EnrolledFirst' BY EnrolledKept DEF TxnInv
<1> QED BY <1>2, <1>3, <1>4, <1>5, <1>7, <1>8 DEF TxnInv

LEMMA DispatchStep ==
  ASSUME TxnInv, Dispatch
  PROVE  TxnInv'
<1>0. TypeInv /\ TypeInv' /\ AsksOK /\ FlushOK /\ IdleOK /\ ActorOK /\ LiveOK
  BY TypeActor DEF TxnInv, ActorNext
<1> DEFINE idle == \A p \in Partitions : flight'[p] = NoBatch /\ actor'.pending[p] = <<>>
<1>1. /\ pc = "dispatch" /\ pc' = "select" /\ waiting' = (waiting /\ ~idle)
      /\ app' = IF waiting /\ idle THEN (IF app = "commit" THEN "end_commit" ELSE "end_abort") ELSE app
      /\ UNCHANGED <<txn, failed, commands, ask, coord, log, fence, unsure>>
  BY DEF Dispatch
<1>2. /\ actor.identity = txn.identity /\ ~Ending /\ ask["actor"].op = "none"
      /\ txn.identity # NoIdentity /\ (txn.open \/ txn.fenced)
  BY <1>0, <1>1 DEF ActorOK, IdleOK, Idle, AsksOK
<1>3. idle \in BOOLEAN /\ waiting \in BOOLEAN /\ (waiting => app \in {"commit", "abort"} /\ commands = <<>>)
  BY <1>0, Typed DEF FlushOK
<1>4. /\ actor'.identity = actor.identity
      /\ \A p \in Partitions :
           /\ p \notin Ready => flight'[p] = flight[p] /\ actor'.pending[p] = actor.pending[p]
           /\ p \in Ready => /\ flight'[p] = [rec |-> Head(actor.pending[p]), epoch |-> actor.identity,
                                              seq |-> actor.next[p], inTxn |-> txn.open, lost |-> FALSE, code |-> "none"]
                             /\ actor.pending[p] # <<>> /\ (txn.open => p \in txn.enrolled)
  <2>1. \A p \in Ready : actor.pending[p] # <<>> /\ (txn.open => p \in txn.enrolled) BY DEF Ready, Free
  <2> DEFINE pending == [p \in Partitions |-> IF p \in Ready THEN Tail(actor.pending[p]) ELSE actor.pending[p]]
             next == [p \in Partitions |-> IF p \in Ready THEN actor.next[p] + 1 ELSE actor.next[p]]
  <2>2. actor' = [actor EXCEPT !.pending = pending, !.next = next] BY DEF Dispatch
  <2>3. \A p \in Partitions : p \notin Ready => pending[p] = actor.pending[p] OBVIOUS
  <2> HIDE DEF pending, next
  <2>4. actor'.identity = actor.identity /\ actor'.pending = pending BY <1>0, <2>2, Typed DEF ActorType
  <2>5. \A p \in Partitions : p \notin Ready => flight'[p] = flight[p] BY DEF Dispatch
  <2>6. \A p \in Partitions : p \in Ready =>
          flight'[p] = [rec |-> Head(actor.pending[p]), epoch |-> actor.identity,
                        seq |-> actor.next[p], inTxn |-> txn.open, lost |-> FALSE, code |-> "none"]
    BY DEF Dispatch
  <2> QED BY <2>1, <2>3, <2>4, <2>5, <2>6
<1>5. idle => Empty' BY DEF Empty
<1>6. \A p \in Partitions : p \in Ready => flight'[p].epoch = actor.identity /\ flight'[p].inTxn = txn.open
  <2> SUFFICES ASSUME NEW p \in Partitions, p \in Ready
               PROVE  flight'[p].epoch = actor.identity /\ flight'[p].inTxn = txn.open
    OBVIOUS
  <2> DEFINE rec == Head(actor.pending[p])
             epoch == actor.identity
             seq == actor.next[p]
             inTxn == txn.open
  <2>1. flight'[p] = [rec |-> rec, epoch |-> epoch, seq |-> seq, inTxn |-> inTxn, lost |-> FALSE, code |-> "none"]
    BY <1>4
  <2> HIDE DEF rec, epoch, seq, inTxn
  <2>2. flight'[p].epoch = epoch /\ flight'[p].inTxn = inTxn BY <2>1
  <2> QED BY <2>2 DEF epoch, inTxn
<1> HIDE DEF idle
<1>7. AsksOK'
  <2>1. ask["app"].op \in {"none", "init", "add", "offsets", "commit", "abort"}
    BY <1>0 DEF TypeInv, AskT, AskType
  <2> QED BY <1>0, <1>1, <1>2, <1>3, <2>1 DEF AsksOK
<1>8. FlushOK'
  <2>1. CASE waiting /\ idle
    <3>1. commands' = <<>> /\ waiting' = FALSE BY <1>1, <1>3, <2>1
    <3>2. DOMAIN commands' = {} BY <3>1
    <3> QED BY <3>1, <3>2 DEF FlushOK
  <2>2. CASE ~(waiting /\ idle) BY <1>0, <1>1, <1>3, <2>2 DEF FlushOK
  <2> QED BY <2>1, <2>2
<1>9. IdleOK'
  <2>1. Ending' => waiting /\ idle BY <1>1, <1>2 DEF Ending
  <2>2. waiting /\ idle => Idle' BY <1>1, <1>3, <1>5 DEF Idle
  <2> QED BY <1>1, <1>2, <2>1, <2>2 DEF IdleOK
<1>10. ActorOK' BY <1>1 DEF ActorOK
<1>11. EpochsOK' BY <1>1, <1>4, <1>6 DEF TxnInv, EpochsOK
<1>12. Barren => Barren'
  <2> SUFFICES ASSUME Barren PROVE Barren' OBVIOUS
  <2>1. failed /\ \A p \in Partitions : p \notin Ready BY <1>2, <1>4 DEF Barren, Empty
  <2> QED BY <1>1, <1>4, <2>1 DEF Barren, Empty, NoRecords
<1>13. LiveOK'
  <2>1. txn.open => \A p \in txn.enrolled : Live(p, txn.identity) \/ Barren' BY <1>0, <1>12 DEF LiveOK
  <2>2. ASSUME NEW p \in Partitions, flight'[p].inTxn, flight'[p].code = "none"
        PROVE  Live(p, flight'[p].epoch)
    <3>1. CASE p \notin Ready BY <1>0, <1>4, <2>2, <3>1 DEF LiveOK
    <3>2. CASE p \in Ready
      <4>1. txn.open /\ p \in txn.enrolled /\ flight'[p].epoch = txn.identity BY <1>2, <1>4, <1>6, <2>2, <3>2
      <4>2. ~Barren BY <1>4, <3>2 DEF Barren, Empty
      <4> QED BY <1>0, <4>1, <4>2 DEF LiveOK
    <3> QED BY <3>1, <3>2
  <2> QED BY <1>0, <1>1, <1>2, <2>1, <2>2 DEF LiveOK, Live
<1>14. EnrolledFirst' BY <1>1, EnrolledKept DEF TxnInv
<1> QED BY <1>0, <1>7, <1>8, <1>9, <1>10, <1>11, <1>13, <1>14 DEF TxnInv

LEMMA ActorStep ==
  ASSUME TxnInv, ActorNext
  PROVE  TxnInv'
<1>0. /\ TypeInv' /\ TypeInv /\ AsksOK /\ FlushOK /\ LiveOK /\ actor \in ActorType
      /\ commands \in Seq(Records \cup {Flush}) /\ waiting \in BOOLEAN
      /\ actor.pending \in [Partitions -> Seq(Records)]
  BY TypeActor, Typed DEF TxnInv
<1>1. CASE HandleAppend
  <2> DEFINE r == Head(commands)
             pending == [actor.pending EXCEPT ![PartitionOf[r]] = Append(@, r)]
             A == [actor EXCEPT !.pending = pending]
  <2>1. /\ pc = "select" /\ commands # <<>> /\ r # Flush /\ commands' = Tail(commands)
        /\ UNCHANGED <<txn, app, failed, ask, coord, log, fence, unsure, flight, waiting>>
    BY <1>1 DEF HandleAppend
  <2>2. Event(A) BY <1>1 DEF HandleAppend
  <2>3. r \in Records /\ PartitionOf[r] \in Partitions BY <1>0, <2>1, TransactionsAssumption
  <2>4. pending \in [Partitions -> Seq(Records)]
    <3> HIDE DEF r
    <3> QED BY <1>0, <2>3
  <2> HIDE DEF pending, r
  <2>5. A \in ActorType BY <1>0, <2>4 DEF ActorType
  <2> HIDE DEF A
  <2>6. pc' = "missing" /\ actor'.identity = txn.identity BY <1>0, <2>2, <2>5, EventT
  <2>7. /\ Len(commands) \in Nat /\ Len(commands) > 0 /\ DOMAIN commands = 1..Len(commands)
        /\ Len(commands') = Len(commands) - 1 /\ DOMAIN commands' = 1..(Len(commands) - 1)
        /\ \A i \in DOMAIN commands' : commands'[i] = commands[i + 1]
        /\ commands[1] # Flush
    BY <1>0, <2>1 DEF r
  <2>8. FlushOK' BY <1>0, <2>1, <2>7 DEF FlushOK
  <2>9. ~Idle /\ ~Barren BY <2>1, <2>7 DEF Idle, Barren, NoRecords
  <2> QED BY <1>0, <2>1, <2>6, <2>8, <2>9, EventStep
<1>2. CASE HandleFlush
  <2>1. /\ pc = "select" /\ commands # <<>> /\ Head(commands) = Flush /\ commands' = Tail(commands)
        /\ UNCHANGED <<txn, app, failed, ask, coord, log, fence, unsure, flight>> /\ waiting' = TRUE /\ Event(actor)
    BY <1>2 DEF HandleFlush
  <2>2. pc' = "missing" /\ actor'.identity = txn.identity /\ actor'.pending = actor.pending
    BY <1>0, <2>1, EventT
  <2>3. Len(commands) \in Nat /\ Len(commands) > 0 /\ DOMAIN commands = 1..Len(commands) /\ commands[1] = Flush
    BY <1>0, <2>1
  <2>4. 1 = Len(commands) /\ app \in {"commit", "abort"} BY <1>0, <2>3 DEF FlushOK
  <2>5. commands' = <<>> /\ DOMAIN commands' = {} BY <1>0, <2>1, <2>4
  <2>6. FlushOK' BY <2>1, <2>4, <2>5 DEF FlushOK
  <2>7. Barren => Barren' BY <2>1, <2>2, <2>5 DEF Barren, Empty, NoRecords, Ending
  <2>8. ~Idle BY <2>1 DEF Idle
  <2> QED BY <1>0, <2>1, <2>2, <2>6, <2>7, <2>8, EventStep
<1>3. CASE FindMissing
  <2> DEFINE missing == IF txn.open THEN {p \in Partitions : Free(p)} \ txn.enrolled ELSE {}
  <2>1. /\ actor' = [actor EXCEPT !.missing = missing]
        /\ pc = "missing" /\ pc' = (IF missing = {} THEN "dispatch" ELSE "enrol")
        /\ UNCHANGED <<txn, app, failed, commands, waiting, flight, ask, coord, log, fence, unsure>>
    BY <1>3 DEF FindMissing
  <2>2. \A p \in missing : actor.pending[p] # <<>> BY DEF Free
  <2> HIDE DEF missing
  <2>3. actor'.identity = actor.identity /\ actor'.pending = actor.pending /\ actor'.missing = missing
    BY <1>0, <2>1 DEF ActorType
  <2>4. AsksOK' /\ ActorOK' BY <1>0, <2>1, <2>2, <2>3 DEF TxnInv, AsksOK, ActorOK
  <2>5. FlushOK' /\ EpochsOK' BY <1>0, <2>1, <2>3 DEF TxnInv, FlushOK, EpochsOK
  <2>6. IdleOK' BY <2>1 DEF TxnInv, IdleOK, Idle, Ending
  <2>7. Barren => Barren' BY <2>1, <2>3 DEF Barren, Empty, NoRecords, Ending
  <2>8. LiveOK' BY <1>0, <2>1, <2>7 DEF LiveOK, Live
  <2>9. EnrolledFirst' BY <2>1, EnrolledKept DEF TxnInv
  <2> QED BY <1>0, <2>4, <2>5, <2>6, <2>8, <2>9 DEF TxnInv
<1>4. CASE StartEnrol
  <2>1. pc = "enrol" /\ UNCHANGED <<txn, app, failed, commands, waiting, flight, coord, log, fence, unsure>>
    BY <1>4 DEF StartEnrol
  <2>2. ask["actor"].op = "none" BY <1>0, <2>1 DEF AsksOK
  <2>3. CASE Ask("actor", "add", txn.identity, actor.missing) /\ pc' = "enrolling" /\ UNCHANGED <<actor, outcome>>
    <3>1. actor.missing \in SUBSET Places /\ txn.identity \in Nat BY <1>0, Typed
    <3>2. /\ ask'["actor"].op = "add" /\ ask'["actor"].epoch = txn.identity /\ ask'["actor"].got = 0
          /\ ask'["actor"].parts = actor.missing /\ ask'["actor"].code = "none" /\ ask'["app"] = ask["app"]
      BY <1>0, <2>3, <3>1, AskOK
    <3>3. AsksOK' /\ ActorOK' BY <1>0, <2>1, <2>3, <3>2 DEF TxnInv, AsksOK, ActorOK
    <3>4. FlushOK' BY <1>0, <2>1 DEF FlushOK
    <3>5. EpochsOK' BY <1>0, <2>1, <2>3, <3>2, Typed DEF TxnInv, EpochsOK
    <3>6. IdleOK' BY <2>1 DEF TxnInv, IdleOK, Idle, Ending
    <3>7. Barren => Barren' BY <2>1, <2>3 DEF Barren, Empty, NoRecords, Ending
    <3>8. LiveOK' BY <1>0, <2>1, <3>2, <3>7 DEF LiveOK, Live
    <3>9. EnrolledFirst' BY <2>1, EnrolledKept DEF TxnInv
    <3> QED BY <1>0, <3>3, <3>4, <3>5, <3>6, <3>8, <3>9 DEF TxnInv
  <2>4. CASE FailMissing /\ UNCHANGED ask
    <3>1. pc' = "dispatch" BY <2>4 DEF FailMissing
    <3>2. ask["actor"].epoch <= coord.epoch /\ ask["actor"].got <= coord.epoch BY DEF TxnInv, EpochsOK
    <3> QED BY <1>0, <2>1, <2>2, <2>4, <3>1, <3>2, FailStep
  <2> QED BY <1>4, <2>3, <2>4 DEF StartEnrol
<1>5. CASE FinishEnrol
  <2>1. /\ pc = "enrolling" /\ UNCHANGED <<app, failed, commands, waiting, flight, coord, log, fence, unsure>>
        /\ ask["actor"].op = "add" /\ ask' = [ask EXCEPT !["actor"] = NoAsk]
    BY <1>5 DEF FinishEnrol, Answered
  <2>2. /\ ask'["app"] = ask["app"] /\ ask'["actor"].op = "none" /\ ask'["actor"].epoch = 0
        /\ ask'["actor"].got = 0
    BY <1>0, <2>1, AskTaken
  <2>3. coord.epoch \in Nat /\ 0 <= coord.epoch BY <1>0, Typed
  <2>4. CASE /\ ask["actor"].code = "ok"
             /\ txn' = [txn EXCEPT !.enrolled = @ \cup actor.missing]
             /\ actor' = [actor EXCEPT !.missing = {}]
             /\ pc' = "dispatch" /\ UNCHANGED outcome
    <3>1. /\ txn'.identity = txn.identity /\ txn'.open = txn.open /\ txn'.fenced = txn.fenced
          /\ txn'.enrolled = txn.enrolled \cup actor.missing
      BY <1>0, <2>4, Typed DEF TxnType
    <3>2. actor'.identity = actor.identity /\ actor'.pending = actor.pending BY <1>0, <2>4 DEF ActorType
    <3>3. \A p \in actor.missing : Live(p, txn.identity) BY <1>0, <2>1, <2>4 DEF LiveOK, AsksOK
    <3>4. AsksOK' /\ ActorOK' BY <1>0, <2>1, <2>2, <2>4, <3>1, <3>2 DEF TxnInv, AsksOK, ActorOK
    <3>5. FlushOK' BY <1>0, <2>1 DEF FlushOK
    <3>6. EpochsOK' BY <2>1, <2>2, <2>3, <3>1, <3>2 DEF TxnInv, EpochsOK
    <3>7. IdleOK' BY <2>1, <3>1 DEF TxnInv, IdleOK, Idle, Ending
    <3>8. Barren => Barren' BY <2>1, <3>2 DEF Barren, Empty, NoRecords, Ending
    <3>9. LiveOK' BY <1>0, <2>1, <2>2, <3>1, <3>3, <3>8 DEF LiveOK, Live
    <3>10. EnrolledFirst' BY <2>1, EnrolledKept DEF TxnInv
    <3> QED BY <1>0, <3>4, <3>5, <3>6, <3>7, <3>9, <3>10 DEF TxnInv
  <2>5. CASE txn' = Noted(txn, ask["actor"].code) /\ FailMissing
    <3>1. pc' = "dispatch" BY <2>5 DEF FailMissing
    <3>2. /\ txn'.identity = txn.identity /\ txn'.enrolled = txn.enrolled
          /\ txn' = txn \/ (txn'.open = FALSE /\ txn'.fenced = TRUE)
      BY <1>0, <2>5, NotedOK, Typed
    <3> QED BY <1>0, <2>1, <2>2, <2>3, <2>5, <3>1, <3>2, FailStep
  <2> QED BY <1>5, <2>4, <2>5 DEF FinishEnrol
<1>6. ASSUME NEW p \in Partitions, HandleCompleted(p) PROVE TxnInv'
  <2> DEFINE b == flight[p]
             A == IF b.code = "ok" THEN actor ELSE [actor EXCEPT !.next[p] = b.seq]
             B == IF b.code \in {"fenced", "out_of_order"}
                  THEN [A EXCEPT !.identity = NoIdentity, !.next = [q \in Partitions |-> 0]]
                  ELSE A
  <2>1. /\ pc = "select" /\ b.code # "none" /\ Event(B) /\ flight' = [flight EXCEPT ![p] = NoBatch]
        /\ UNCHANGED <<txn, app, failed, ask, coord, log, fence, unsure, commands, waiting>>
    BY <1>6 DEF HandleCompleted
  <2>2. b \in BatchType /\ b.seq \in Nat BY <1>0, Typed DEF BatchType
  <2>3. b # NoBatch BY <2>1, NoBatchIs DEF NoBatchFields
  <2>4. ~Idle /\ ~Barren BY <2>3 DEF Idle, Barren, Empty
  <2>5. \A q \in Partitions : flight'[q] \in {flight[q], NoBatch} BY <1>0, <2>1 DEF TypeInv, FlightT
  <2> HIDE DEF b
  <2>6. A \in ActorType BY <1>0, <2>2 DEF ActorType
  <2> HIDE DEF A
  <2>7. B \in ActorType BY <2>6 DEF ActorType, NoIdentity
  <2> HIDE DEF B
  <2>8. pc' = "missing" /\ actor'.identity = txn.identity BY <1>0, <2>1, <2>7, EventT
  <2>9. FlushOK' BY <1>0, <2>1 DEF FlushOK
  <2> QED BY <1>0, <2>1, <2>4, <2>5, <2>8, <2>9, EventStep
<1> QED BY <1>1, <1>2, <1>3, <1>4, <1>5, <1>6, DispatchStep DEF ActorNext

(* A call is answered, or a claim made: the tasks are where they were.     *)
LEMMA ServedKept ==
  ASSUME TxnInv, UNCHANGED others,
         \A a \in {"app", "actor"} : /\ ask'[a].op = ask[a].op /\ ask'[a].epoch = ask[a].epoch
                                     /\ ask'[a].parts = ask[a].parts
  PROVE  AsksOK' /\ FlushOK' /\ IdleOK' /\ ActorOK' /\ (Barren => Barren')
<1>1. AsksOK' BY DEF TxnInv, AsksOK, others
<1>2. FlushOK' /\ IdleOK' /\ ActorOK' BY DEF TxnInv, FlushOK, IdleOK, ActorOK, Idle, Empty, Ending, others
<1>3. Barren => Barren' BY DEF Barren, Empty, Ending, NoRecords, others
<1> QED BY <1>1, <1>2, <1>3

(* What will have a marker, or be refused, will.                           *)
LiveStays == \A p \in Places, e \in Nat : e <= coord.epoch /\ Live(p, e) => Live(p, e)'

LEMMA ServedStep ==
  ASSUME TxnInv, TypeInv', UNCHANGED others, LiveStays, EnrolledFirst',
         coord.epoch <= coord'.epoch, \A p \in Places : fence'[p] <= coord'.epoch,
         \A a \in {"app", "actor"} :
           /\ ask'[a].op = ask[a].op /\ ask'[a].epoch = ask[a].epoch /\ ask'[a].parts = ask[a].parts
           /\ ask'[a].got \in {ask[a].got, 0} \/ ask'[a].got <= coord'.epoch
           /\ ask[a].op = "add" /\ ask'[a].code = "ok" =>
                \/ ask[a].code = "ok"
                \/ \A p \in ask[a].parts : Live(p, ask[a].epoch)'
  PROVE  TxnInv'
<1>0. TypeInv BY DEF TxnInv
<1>1. AsksOK' /\ FlushOK' /\ IdleOK' /\ ActorOK' /\ (Barren => Barren') BY ServedKept
<1>2. /\ coord.epoch \in Nat /\ coord'.epoch \in Nat
      /\ txn.identity \in Nat /\ actor.identity \in Nat
      /\ \A p \in Partitions : flight[p].epoch \in Nat
      /\ \A a \in {"app", "actor"} : ask[a].epoch \in Nat /\ ask[a].got \in Int
  BY <1>0, Typed DEF TypeInv, CoordT, CoordType
<1>3. UNCHANGED <<txn, app, failed, commands, actor, pc, waiting, flight>> BY DEF others
<1>4. EpochsOK'
  <2>1. \A p \in Partitions : flight[p].epoch <= coord'.epoch BY <1>2 DEF TxnInv, EpochsOK
  <2>2. txn.identity <= coord'.epoch /\ actor.identity <= coord'.epoch BY <1>2 DEF TxnInv, EpochsOK
  <2>3. \A a \in {"app", "actor"} : ask'[a].epoch <= coord'.epoch /\ ask'[a].got <= coord'.epoch
    BY <1>2 DEF TxnInv, EpochsOK
  <2> QED BY <1>3, <2>1, <2>2, <2>3 DEF EpochsOK
<1>5. LiveOK'
  <2>0. LiveOK /\ EpochsOK /\ AsksOK BY DEF TxnInv
  <2>1. txn.open => \A p \in txn.enrolled : Live(p, txn.identity)' \/ Barren'
    <3>1. ASSUME NEW p \in txn.enrolled, txn.open, Live(p, txn.identity) PROVE Live(p, txn.identity)'
      <4>1. p \in Places BY <1>0, <3>1, Typed
      <4>2. PICK e \in Nat : e = txn.identity BY <1>2
      <4>3. Live(p, e)' BY <2>0, <3>1, <4>1, <4>2 DEF LiveStays, EpochsOK
      <4> QED BY <1>3, <4>2, <4>3 DEF Live
    <3> QED BY <1>1, <2>0, <3>1 DEF LiveOK
  <2>2. ASSUME NEW p \in Partitions, flight[p].inTxn, flight[p].code = "none"
        PROVE  Live(p, flight[p].epoch)'
    <3>1. p \in Places BY DEF Places
    <3>2. PICK e \in Nat : e = flight[p].epoch BY <1>2
    <3>3. Live(p, e)' BY <2>0, <2>2, <3>1, <3>2 DEF LiveOK, LiveStays, EpochsOK
    <3> QED BY <1>3, <3>2, <3>3 DEF Live
  <2>3. ASSUME NEW a \in {"app", "actor"}, NEW p \in ask[a].parts, Live(p, ask[a].epoch)
        PROVE  Live(p, ask[a].epoch)'
    <3>1. p \in Places BY <1>0, Typed
    <3>2. PICK e \in Nat : e = ask[a].epoch BY <1>2
    <3>3. Live(p, e)' BY <2>0, <2>3, <3>1, <3>2 DEF LiveStays, EpochsOK
    <3> QED BY <3>2, <3>3 DEF Live
  <2>4. ask'["actor"].op = "add" /\ ask'["actor"].code = "ok" =>
          \A p \in ask["actor"].parts : Live(p, ask["actor"].epoch)'
    BY <2>0, <2>3 DEF LiveOK
  <2>5. ask'["app"].op = "add" /\ ask'["app"].code = "ok" => Live(Offsets, ask["app"].epoch)'
    BY <2>0, <2>3 DEF LiveOK, AsksOK
  <2>6. ask'["app"].op = "offsets" => Live(Offsets, ask["app"].epoch)' BY <2>0, <2>3 DEF LiveOK, AsksOK
  <2> QED BY <1>1, <1>3, <2>1, <2>2, <2>4, <2>5, <2>6 DEF LiveOK, Live
<1> QED BY <1>1, <1>4, <1>5 DEF TxnInv

LEMMA ClaimedKeeps ==
  ASSUME TxnInv, Claimed, UNCHANGED unsure
  PROVE  /\ LiveStays /\ EnrolledFirst' /\ coord'.epoch = coord.epoch + 1 /\ coord'.bumps = coord.bumps
         /\ \A p \in Places : fence'[p] <= coord'.epoch
<1>0. TypeInv /\ coord.epoch \in Nat /\ coord.epoch + 1 \in Nat /\ fence \in [Places -> Nat] /\ EpochsOK /\ OpenOK
  BY Typed, OpenIs DEF TxnInv
<1>1. /\ coord'.epoch = coord.epoch + 1 /\ coord'.status = "empty" /\ coord'.bumps = coord.bumps
      /\ \/ coord.status = "ongoing" /\ Markers("aborted", coord.epoch + 1)
         \/ coord.status # "ongoing" /\ UNCHANGED <<log, fence>>
  BY <1>0, ClaimedT
<1>2. CASE coord.status = "ongoing" /\ Markers("aborted", coord.epoch + 1)
  <2>1. /\ \A p \in Places : fence'[p] = IF p \in coord.parts THEN coord.epoch + 1 ELSE fence[p]
        /\ \A p \in Places : DOMAIN log'[p] = DOMAIN log[p]
        /\ \A p \in Places : \A i \in DOMAIN log[p] :
             /\ log'[p][i].fate = "open" => log[p][i].fate = "open" /\ p \notin coord.parts
             /\ log'[p][i].rec = log[p][i].rec
    BY <1>0, <1>2, MarkersT
  <2>2. LiveStays
    <3> SUFFICES ASSUME NEW p \in Places, NEW e \in Nat, e <= coord.epoch, Live(p, e)
                 PROVE  fence'[p] > e
      BY DEF LiveStays, Live
    <3> QED BY <1>0, <2>1 DEF Live
  <2>3. OpenOK' BY <1>0, <1>1, <2>1 DEF OpenOK, Doubtful
  <2>4. \A p \in Places : fence'[p] <= coord.epoch + 1 BY <1>0, <2>1 DEF EpochsOK
  <2>5. EnrolledFirst' BY <2>3 DEF OpenOK, EnrolledFirst, Entries
  <2> QED BY <1>1, <2>2, <2>4, <2>5
<1>3. CASE coord.status # "ongoing" /\ UNCHANGED <<log, fence>>
  <2>1. LiveStays BY <1>3 DEF LiveStays, Live
  <2>2. \A p \in Places : fence'[p] <= coord.epoch + 1 BY <1>0, <1>3 DEF EpochsOK
  <2>3. EnrolledFirst' BY <1>0, <1>1, <1>3 DEF OpenOK, EnrolledFirst, Entries, Doubtful
  <2> QED BY <1>1, <2>1, <2>2, <2>3
<1> QED BY <1>1, <1>2, <1>3

(* A write: under a live epoch it is in the transaction.                   *)
LEMMA WriteKeeps ==
  ASSUME TxnInv, UNCHANGED coord, unsure \subseteq unsure', NEW p \in Places, NEW e \in EntryType, NEW epoch \in Nat,
         log' = [log EXCEPT ![p] = Append(@, e)], fence' = [fence EXCEPT ![p] = epoch],
         epoch >= fence[p], epoch <= coord.epoch, e.fate = "open" /\ ~Doubtful(e) => Live(p, epoch)
  PROVE  /\ LiveStays /\ EnrolledFirst'
         /\ \A q \in Places : fence'[q] <= coord'.epoch
<1>0. TypeInv /\ coord.epoch \in Nat /\ fence \in [Places -> Nat] /\ EpochsOK /\ OpenOK
  BY Typed, OpenIs DEF TxnInv
<1>1. \A q \in Places : fence'[q] = IF q = p THEN epoch ELSE fence[q] BY <1>0
<1>2. LiveStays
  <2> SUFFICES ASSUME NEW q \in Places, NEW f \in Nat, Live(q, f)
               PROVE  Live(q, f)'
    BY DEF LiveStays
  <2>1. fence[q] \in Nat /\ fence'[q] \in Nat /\ fence'[q] >= fence[q] BY <1>0, <1>1
  <2> QED BY <2>1 DEF Live
<1>3. \A q \in Places : fence'[q] <= coord'.epoch BY <1>0, <1>1 DEF EpochsOK
<1>4. e.fate = "open" /\ ~Doubtful(e) => coord.status = "ongoing" /\ p \in coord.parts BY <1>0 DEF Live
<1>5. /\ \A q \in Places : q # p => log'[q] = log[q]
      /\ \A i \in DOMAIN log'[p] : log'[p][i] = e \/ (i \in DOMAIN log[p] /\ log'[p][i] = log[p][i])
  BY <1>0, Written
<1>6. \A q \in Places : \A i \in DOMAIN log'[q] :
        log'[q][i].fate = "open" /\ ~Doubtful(log'[q][i]) => coord.status = "ongoing" /\ q \in coord.parts
  <2>1. ASSUME NEW q \in Places, q # p, NEW i \in DOMAIN log'[q], log'[q][i].fate = "open", ~Doubtful(log'[q][i])
        PROVE  coord.status = "ongoing" /\ q \in coord.parts
    BY <1>0, <1>5, <2>1 DEF OpenOK
  <2>2. ASSUME NEW i \in DOMAIN log'[p], log'[p][i].fate = "open", ~Doubtful(log'[p][i])
        PROVE  coord.status = "ongoing" /\ p \in coord.parts
    BY <1>0, <1>4, <1>5, <2>2 DEF OpenOK
  <2> QED BY <2>1, <2>2
<1>7. EnrolledFirst' BY <1>6 DEF EnrolledFirst, Entries, Doubtful
<1> QED BY <1>2, <1>3, <1>7

LEMMA SendStep ==
  ASSUME TxnInv, NEW p \in Partitions, Sends(p)
  PROVE  TxnInv'
<1>0. TypeInv /\ TypeInv' /\ EpochsOK /\ LiveOK /\ coord.epoch \in Nat BY SendT, Typed DEF TxnInv
<1>1. /\ flight[p] # NoBatch /\ flight[p].code = "none" /\ (UNCHANGED <<log, fence>> \/ Writes(p, flight[p]))
      /\ UNCHANGED <<txn, app, failed, commands, actor, pc, waiting, ask, coord>>
  BY <1>0, SendEnds
<1>2. UNCHANGED <<txn, app, failed, commands, actor, pc, waiting, ask, coord>> /\ unsure \subseteq unsure'
  BY <1>0, <1>1, SendMoves
<1>3. /\ flight'[p] # NoBatch /\ flight'[p].epoch = flight[p].epoch /\ flight'[p].inTxn = flight[p].inTxn
      /\ \A q \in Partitions : q # p => flight'[q] = flight[q]
  BY <1>0, SendMoves
<1>4. ~Idle /\ ~Barren BY <1>1 DEF Idle, Barren, Empty
<1>5. AsksOK' /\ FlushOK' /\ ActorOK' BY <1>2 DEF TxnInv, AsksOK, FlushOK, ActorOK
<1>6. IdleOK' BY <1>2, <1>4 DEF TxnInv, IdleOK, Ending
<1>7. LiveStays /\ EnrolledFirst' /\ \A q \in Places : fence'[q] <= coord'.epoch
  <2>1. CASE UNCHANGED <<log, fence>> BY <1>0, <1>2, <2>1, EnrolledKept DEF TxnInv, LiveStays, Live, EpochsOK
  <2>2. CASE Writes(p, flight[p])
    <3> DEFINE e == Entry(within[flight[p].rec], flight[p].rec, flight[p])
    <3>1. flight[p].rec \in Records /\ flight[p].epoch \in Nat /\ flight[p].inTxn \in BOOLEAN
      BY <1>0, <1>1 DEF TypeInv, FlightT, BatchType
    <3>3. e \in EntryType /\ (e.fate = "open" => flight[p].inTxn) BY <1>0, <2>2, <3>1, WritesT
    <3>4. e.fate = "open" => Live(p, flight[p].epoch) BY <1>0, <1>1, <3>3 DEF LiveOK
    <3>5. flight[p].epoch <= coord.epoch /\ p \in Places BY <1>0 DEF EpochsOK, Places
    <3> HIDE DEF e
    <3> QED BY <1>2, <2>2, <3>1, <3>3, <3>4, <3>5, WriteKeeps DEF e, Writes
  <2> QED BY <1>1, <2>1, <2>2
<1>8. EpochsOK'
  <2>1. \A q \in Partitions : flight'[q].epoch <= coord.epoch BY <1>0, <1>3 DEF EpochsOK
  <2> QED BY <1>0, <1>2, <1>7, <2>1 DEF EpochsOK
<1>9. LiveOK'
  <2>0. \A q \in Places, e \in Nat : e <= coord.epoch /\ Live(q, e) => Live(q, e)' BY <1>7 DEF LiveStays
  <2>1. txn.open => \A q \in txn.enrolled : Live(q, txn.identity)'
    <3>1. PICK e \in Nat : e = txn.identity BY <1>0, Typed
    <3>2. e <= coord.epoch /\ txn.enrolled \subseteq Places BY <1>0, <3>1, Typed DEF EpochsOK
    <3>3. txn.open => \A q \in txn.enrolled : Live(q, e)' BY <1>0, <1>4, <2>0, <3>1, <3>2 DEF LiveOK
    <3> QED BY <1>2, <3>1, <3>3 DEF Live
  <2>2. ASSUME NEW q \in Partitions, flight'[q].inTxn, flight'[q].code = "none"
        PROVE  Live(q, flight[q].epoch)'
    <3>1. flight[q].inTxn /\ flight[q].code = "none" /\ flight'[q].epoch = flight[q].epoch /\ q \in Places
      BY <1>1, <1>3, <2>2 DEF Places
    <3>2. PICK e \in Nat : e = flight[q].epoch BY <1>0, Typed
    <3>3. Live(q, e)' BY <1>0, <2>0, <2>2, <3>1, <3>2 DEF LiveOK, EpochsOK
    <3> QED BY <3>1, <3>2, <3>3 DEF Live
  <2>3. ASSUME NEW a \in {"app", "actor"}, NEW q \in Places, Live(q, ask[a].epoch)
        PROVE  Live(q, ask[a].epoch)'
    <3>1. PICK e \in Nat : e = ask[a].epoch BY <1>0, Typed
    <3>2. Live(q, e)' BY <1>0, <2>0, <2>3, <3>1 DEF EpochsOK
    <3> QED BY <1>2, <3>1, <3>2 DEF Live
  <2>4. Offsets \in Places /\ \A a \in {"app", "actor"} : ask[a].parts \subseteq Places BY <1>0, Typed
  <2> QED BY <1>0, <1>2, <2>1, <2>2, <2>3, <2>4 DEF LiveOK, Live
<1> QED BY <1>0, <1>5, <1>6, <1>7, <1>8, <1>9 DEF TxnInv

(* What the coordinator makes of the end of a transaction.                 *)
EndsAt(op, e) ==
  /\ coord.status = "ongoing" /\ ask["app"].epoch = coord.epoch
  /\ coord' = [coord EXCEPT !.epoch = e, !.parts = {}, !.status = Fate(op)]
  /\ Markers(Fate(op), e)
  /\ e = IF coord.bumps THEN coord.epoch + 1 ELSE coord.epoch
LEMMA ServeEndEnds ==
  ASSUME TypeInv, NEW op \in {"commit", "abort"}, ServeEnd(op)
  PROVE  \E code \in {"ok", "invalid_txn_state", "fenced"}, got \in Int, e \in Nat :
           /\ ask["app"].op = op /\ ask["app"].code = "none" /\ Reply("app", code, got)
           /\ coord.epoch <= e /\ got <= e
           /\ \/ UNCHANGED brokerVars /\ e = coord.epoch /\ (code = "ok" => coord.status = Fate(op))
              \/ EndsAt(op, e)
<1> DEFINE new == IF coord.bumps THEN coord.epoch + 1 ELSE coord.epoch
           got1 == IF coord.bumps THEN new ELSE -1
           got2 == IF coord.bumps THEN coord.epoch ELSE -1
           old == coord.epoch
           End(code, got, e) ==
             /\ ask["app"].op = op /\ ask["app"].code = "none" /\ Reply("app", code, got)
             /\ coord.epoch <= e /\ got <= e
             /\ \/ UNCHANGED brokerVars /\ e = coord.epoch /\ (code = "ok" => coord.status = Fate(op))
                \/ EndsAt(op, e)
<1>0. coord.epoch \in Nat /\ coord.bumps \in BOOLEAN BY DEF TypeInv, CoordT, CoordType
<1>1. /\ new \in Nat /\ got1 \in Int /\ got2 \in Int /\ old \in Nat /\ 0 \in Int
      /\ coord.epoch <= new /\ got1 <= new /\ got2 <= old /\ 0 <= old /\ coord.epoch <= old
  BY <1>0
<1>2. /\ ask["app"].op = op /\ ask["app"].code = "none"
      /\ \/ Reply("app", "ok", got1) /\ EndsAt(op, new)
         \/ Reply("app", "ok", got2) /\ UNCHANGED brokerVars /\ coord.status = Fate(op)
         \/ Reply("app", "invalid_txn_state", 0) /\ UNCHANGED brokerVars
         \/ Reply("app", "fenced", 0) /\ UNCHANGED brokerVars
  BY DEF ServeEnd, Asked, EndsAt
<1>3. old = coord.epoch OBVIOUS
<1> HIDE DEF new, got1, got2, old
<1>4. \/ End("ok", got1, new) \/ End("ok", got2, old)
      \/ End("invalid_txn_state", 0, old) \/ End("fenced", 0, old)
  BY <1>1, <1>2, <1>3, Zenon
<1> HIDE DEF End
<1>5. \E code \in {"ok", "invalid_txn_state", "fenced"}, got \in Int, e \in Nat : End(code, got, e)
  BY <1>1, <1>4
<1> QED BY <1>5 DEF End

(* The transaction ends, and nothing of it is on its way.                  *)
LEMMA EndStep ==
  ASSUME TxnInv, TypeInv', UNCHANGED <<others, unsure>>, NEW op \in {"commit", "abort"}, NEW e \in Nat,
         EndsAt(op, e), ask["app"].op = op, coord.epoch <= e, ask'["app"].got <= e,
         ask'["actor"] = ask["actor"], ask'["app"].op = ask["app"].op,
         ask'["app"].epoch = ask["app"].epoch, ask'["app"].parts = ask["app"].parts
  PROVE  TxnInv'
<1>0. TypeInv /\ AsksOK /\ EpochsOK /\ OpenOK /\ coord.epoch \in Nat /\ fence \in [Places -> Nat]
  BY Typed, OpenIs DEF TxnInv
<1>1. AsksOK' /\ FlushOK' /\ IdleOK' /\ ActorOK' /\ (Barren => Barren') BY ServedKept
<1>2. Ending /\ Idle /\ pc = "select" BY <1>0 DEF AsksOK, Ending, TxnInv, IdleOK, Idle
<1>3. Barren /\ ask["actor"].op = "none" BY <1>0, <1>2 DEF Barren, Idle, NoRecords, AsksOK
<1>4. UNCHANGED <<txn, app, failed, commands, actor, pc, waiting, flight>> BY DEF others
<1>5. LiveOK'
  <2>1. \A p \in Partitions : ~flight'[p].inTxn BY <1>2, <1>4, NoBatchIs DEF Idle, Empty, NoBatchFields
  <2>2. ask'["actor"].op = "none" /\ ask'["app"].op \notin {"add", "offsets"} BY <1>3
  <2> QED BY <1>1, <1>3, <2>1, <2>2 DEF LiveOK
<1>6. coord'.epoch = e /\ coord'.bumps = coord.bumps /\ Markers(Fate(op), e) /\ Fate(op) \in {"committed", "aborted"}
  <2>1. PICK fate : fate = Fate(op) OBVIOUS
  <2>2. coord' = [coord EXCEPT !.epoch = e, !.parts = {}, !.status = fate] /\ coord \in CoordType
    BY <1>0, <2>1 DEF EndsAt, TypeInv, CoordT
  <2>3. coord'.epoch = e /\ coord'.bumps = coord.bumps BY <2>2 DEF CoordType
  <2> QED BY <2>3 DEF EndsAt, Fate
<1>7. /\ \A p \in Places : fence'[p] = IF p \in coord.parts THEN e ELSE fence[p]
      /\ \A p \in Places : DOMAIN log'[p] = DOMAIN log[p]
      /\ \A p \in Places : \A i \in DOMAIN log[p] :
           /\ log'[p][i].fate = "open" => log[p][i].fate = "open" /\ p \notin coord.parts
           /\ log'[p][i].rec = log[p][i].rec
  BY <1>0, <1>6, MarkersT
<1>8. EnrolledFirst'
  <2>1. \A p \in Places : \A i \in DOMAIN log'[p] : log'[p][i].fate = "open" => Doubtful(log'[p][i])
    BY <1>0, <1>7 DEF OpenOK, Doubtful
  <2> QED BY <1>6, <2>1 DEF EnrolledFirst, Entries, Doubtful
<1>9. EpochsOK'
  <2>0. /\ txn.identity \in Nat /\ actor.identity \in Nat
        /\ \A p \in Partitions : flight[p].epoch \in Nat
        /\ \A a \in {"app", "actor"} : ask[a].epoch \in Nat /\ ask[a].got \in Int
    BY <1>0, Typed
  <2>1. \A p \in Places : fence'[p] <= e BY <1>0, <1>7 DEF EpochsOK
  <2>2. \A p \in Partitions : flight[p].epoch <= e BY <1>0, <2>0 DEF EpochsOK
  <2>3. txn.identity <= e /\ actor.identity <= e BY <1>0, <2>0 DEF EpochsOK
  <2>4. \A a \in {"app", "actor"} : ask'[a].epoch <= e /\ ask'[a].got <= e BY <1>0, <2>0 DEF EpochsOK
  <2> QED BY <1>4, <1>6, <2>1, <2>2, <2>3, <2>4 DEF EpochsOK
<1> QED BY <1>1, <1>5, <1>8, <1>9 DEF TxnInv

(* A partition is added to the transaction, or the request is refused.     *)
LEMMA AddKeeps ==
  ASSUME TxnInv, NEW parts \in SUBSET Places,
         coord' = [coord EXCEPT !.parts = IF coord.status = "ongoing" THEN @ \cup parts ELSE parts,
                                !.status = "ongoing"],
         UNCHANGED <<log, fence, unsure>>
  PROVE  /\ LiveStays /\ EnrolledFirst' /\ coord'.epoch = coord.epoch /\ coord'.bumps = coord.bumps
         /\ coord'.status = "ongoing" /\ parts \subseteq coord'.parts
<1>0. TypeInv /\ coord \in CoordType /\ OpenOK BY OpenIs DEF TxnInv, TypeInv, CoordT
<1>1. PICK new \in SUBSET Places : /\ coord' = [coord EXCEPT !.parts = new, !.status = "ongoing"]
                                   /\ parts \subseteq new
                                   /\ coord.status = "ongoing" => coord.parts \subseteq new
  <2>1. coord.parts \in SUBSET Places BY <1>0 DEF CoordType
  <2> QED BY <2>1
<1>2. coord'.epoch = coord.epoch /\ coord'.bumps = coord.bumps /\ coord'.status = "ongoing" /\ coord'.parts = new
  BY <1>0, <1>1 DEF CoordType
<1>3. LiveStays BY <1>1, <1>2 DEF LiveStays, Live
<1>4. \A p \in Places : \A i \in DOMAIN log'[p] : 
        log'[p][i].fate = "open" /\ ~Doubtful(log[p][i]) => p \in coord'.parts
  BY <1>0, <1>1, <1>2 DEF OpenOK
<1>5. EnrolledFirst' BY <1>2, <1>4 DEF EnrolledFirst, Entries, Doubtful
<1> QED BY <1>1, <1>2, <1>3, <1>5

(* A request that is late and in number is under a live epoch, or its      *)
(* record is in doubt.                                                     *)
LEMMA LateLive ==
  ASSUME TxnInv, StraysOK, StraysLive, NEW c \in stray, Writes(c.at, c), c.inTxn, ~Doubtful(c)
  PROVE  Live(c.at, c.epoch)
<1>0. TypeInv /\ c \in CopyType /\ coord.bumps \in BOOLEAN BY Typed DEF TxnInv, TypeInv, StrayT
<1>1. CASE coord.bumps BY <1>1 DEF StraysLive
<1>2. CASE ~coord.bumps
  <2>1. c.rec \notin unsure BY <1>2 DEF Doubtful
  <2>2. ~(c.seq < Expected(c.at, c.epoch))
    <3>1. c.at \in Partitions /\ c.seq = Expected(c.at, c.epoch) BY <1>0 DEF Writes, CopyType
    <3>2. Expected(c.at, c.epoch) \in Nat BY <1>0, <3>1, CountIsNat
    <3> QED BY <3>1, <3>2
  <2>3. Flying(c) /\ c.at \in Partitions BY <1>0, <2>1, <2>2 DEF StraysOK, CopyType
  <2> QED BY <2>3 DEF Flying, TxnInv, LiveOK
<1> QED BY <1>0, <1>1, <1>2

LEMMA BrokerStep ==
  ASSUME TxnInv, StraysOK, StraysLive, BrokerNext
  PROVE  TxnInv'
<1>0. /\ TypeInv /\ TypeInv' /\ EpochsOK /\ LiveOK /\ AsksOK /\ EnrolledFirst
      /\ coord.epoch \in Nat /\ fence \in [Places -> Nat]
  BY TypeBroker, Typed DEF TxnInv
<1>1. CASE ServeInit
  <2>1. /\ Claimed /\ Reply("app", "ok", coord.epoch + 1) /\ UNCHANGED <<others, unsure>>
        /\ ask["app"].op = "init" /\ ask["app"].code = "none"
    BY <1>1 DEF ServeInit, Asked, strays
  <2>2. "ok" \in Codes \ {"none"} /\ coord.epoch + 1 \in Int BY <1>0 DEF Codes
  <2>3. /\ ask'["app"].op = ask["app"].op /\ ask'["app"].epoch = ask["app"].epoch
        /\ ask'["app"].parts = ask["app"].parts
        /\ ask'["app"].got \in {ask["app"].got, coord.epoch + 1}
        /\ ask'["actor"] = ask["actor"]
    BY <1>0, <2>1, <2>2, ReplyOK
  <2>4. /\ LiveStays /\ EnrolledFirst' /\ coord'.epoch = coord.epoch + 1
        /\ \A p \in Places : fence'[p] <= coord'.epoch
    BY <2>1, ClaimedKeeps
  <2>5. coord.epoch <= coord'.epoch /\ coord.epoch + 1 <= coord'.epoch BY <1>0, <2>4
  <2> QED BY <1>0, <2>1, <2>3, <2>4, <2>5, ServedStep
<1>2. CASE RivalClaims
  <2>1. Claimed /\ UNCHANGED <<others, ask, unsure>> BY <1>2 DEF RivalClaims, strays
  <2>2. /\ LiveStays /\ EnrolledFirst' /\ coord'.epoch = coord.epoch + 1
        /\ \A p \in Places : fence'[p] <= coord'.epoch
    BY <2>1, ClaimedKeeps
  <2>3. coord.epoch <= coord'.epoch BY <1>0, <2>2
  <2> QED BY <1>0, <2>1, <2>2, <2>3, ServedStep
<1>3. CASE ServeOffsets
  <2>1. PICK code \in {"ok", "fenced", "illegal_generation"} :
           /\ Asked("app", "offsets") /\ Reply("app", code, 0)
           /\ \/ UNCHANGED <<log, fence>>
              \/ /\ ask["app"].epoch >= fence[Offsets]
                 /\ log' = [log EXCEPT ![Offsets] = Append(@, OffsetsEntry)]
                 /\ fence' = [fence EXCEPT ![Offsets] = ask["app"].epoch]
    BY <1>3, ServeOffsetsEnds
  <2>2. /\ code \in Codes \ {"none"} /\ ask["app"].op = "offsets" /\ ask["app"].code = "none"
        /\ UNCHANGED <<others, coord, unsure>>
    BY <1>3, <2>1 DEF Codes, Asked, ServeOffsets, strays
  <2>3. /\ ask'["app"].op = ask["app"].op /\ ask'["app"].epoch = ask["app"].epoch
        /\ ask'["app"].parts = ask["app"].parts
        /\ ask'["app"].got \in {ask["app"].got, 0}
        /\ ask'["actor"] = ask["actor"]
    BY <1>0, <2>1, <2>2, ReplyOK
  <2>4. LiveStays /\ EnrolledFirst' /\ \A p \in Places : fence'[p] <= coord'.epoch
    <3>1. CASE UNCHANGED <<log, fence>> BY <1>0, <2>2, <3>1, EnrolledKept DEF LiveStays, Live, EpochsOK
    <3>2. CASE /\ ask["app"].epoch >= fence[Offsets]
               /\ log' = [log EXCEPT ![Offsets] = Append(@, OffsetsEntry)]
               /\ fence' = [fence EXCEPT ![Offsets] = ask["app"].epoch]
      <4>1. ask["app"].epoch \in Nat /\ Offsets \in Places /\ OffsetsEntry \in EntryType
        BY <1>0, Typed, OffsetsEntryT
      <4>2. ask["app"].epoch <= coord.epoch /\ Live(Offsets, ask["app"].epoch)
        BY <1>0, <2>2 DEF EpochsOK, LiveOK
      <4> QED BY <2>2, <3>2, <4>1, <4>2, WriteKeeps
    <3> QED BY <2>1, <3>1, <3>2
  <2>5. coord.epoch <= coord'.epoch BY <1>0, <2>2
  <2> QED BY <1>0, <2>2, <2>3, <2>4, <2>5, ServedStep
<1>4. ASSUME NEW a \in {"app", "actor"}, ServeAdd(a) PROVE TxnInv'
  <2>1. ask[a].op = "add" /\ ask[a].code = "none" /\ UNCHANGED <<others, log, fence, unsure>>
    BY <1>4 DEF ServeAdd, Asked, strays
  <2>2. "ok" \in Codes \ {"none"} /\ "fenced" \in Codes \ {"none"} /\ ask[a].parts \in SUBSET Places
    BY <1>0, Typed DEF Codes
  <2>3. CASE ask[a].epoch # coord.epoch /\ UNCHANGED coord /\ Reply(a, "fenced", 0)
    <3>1. /\ ask'[a].op = ask[a].op /\ ask'[a].epoch = ask[a].epoch
          /\ ask'[a].parts = ask[a].parts
          /\ ask'[a].got \in {ask[a].got, 0} /\ ask'[a].code # "ok"
          /\ \A b \in {"app", "actor"} : b # a => ask'[b] = ask[b]
      BY <1>0, <2>1, <2>2, <2>3, ReplyOK
    <3>2. LiveStays /\ EnrolledFirst' /\ \A p \in Places : fence'[p] <= coord'.epoch
      BY <1>0, <2>1, <2>3, EnrolledKept DEF LiveStays, Live, EpochsOK
    <3>3. coord.epoch <= coord'.epoch BY <1>0, <2>3
    <3> QED BY <1>0, <2>1, <3>1, <3>2, <3>3, ServedStep
  <2>4. CASE /\ ask[a].epoch = coord.epoch
             /\ coord' = [coord EXCEPT !.parts = IF coord.status = "ongoing" THEN @ \cup ask[a].parts
                                                                             ELSE ask[a].parts,
                                       !.status = "ongoing"]
             /\ Reply(a, "ok", 0)
    <3>1. /\ ask'[a].op = ask[a].op /\ ask'[a].epoch = ask[a].epoch
          /\ ask'[a].parts = ask[a].parts
          /\ ask'[a].got \in {ask[a].got, 0}
          /\ \A b \in {"app", "actor"} : b # a => ask'[b] = ask[b]
      BY <1>0, <2>1, <2>2, <2>4, ReplyOK
    <3>2. /\ LiveStays /\ EnrolledFirst' /\ coord'.epoch = coord.epoch
          /\ coord'.status = "ongoing" /\ ask[a].parts \subseteq coord'.parts
      BY <2>1, <2>2, <2>4, AddKeeps
    <3>3. \A p \in ask[a].parts : Live(p, ask[a].epoch)' BY <2>4, <3>1, <3>2 DEF Live
    <3>4. coord.epoch <= coord'.epoch /\ \A p \in Places : fence'[p] <= coord'.epoch
      BY <1>0, <2>1, <3>2 DEF EpochsOK
    <3> QED BY <1>0, <2>1, <3>1, <3>2, <3>3, <3>4, ServedStep
  <2> QED BY <1>4, <2>3, <2>4 DEF ServeAdd
<1>5. ASSUME NEW a \in {"app", "actor"}, NotServed(a) PROVE TxnInv'
  <2>1. ask' = [ask EXCEPT ![a].code = "failed"] /\ UNCHANGED <<others, coord, log, fence, unsure>>
    BY <1>5 DEF NotServed
  <2>2. /\ ask'[a].op = ask[a].op /\ ask'[a].epoch = ask[a].epoch /\ ask'[a].parts = ask[a].parts
        /\ ask'[a].got = ask[a].got /\ ask'[a].code = "failed"
        /\ \A b \in {"app", "actor"} : b # a => ask'[b] = ask[b]
    BY <1>0, <2>1 DEF TypeInv, AskT, AskType
  <2>3. LiveStays /\ EnrolledFirst' /\ \A p \in Places : fence'[p] <= coord'.epoch
    BY <1>0, <2>1, EnrolledKept DEF LiveStays, Live, EpochsOK
  <2>4. coord.epoch <= coord'.epoch BY <1>0, <2>1
  <2> QED BY <1>0, <2>1, <2>2, <2>3, <2>4, ServedStep
<1>6. ASSUME NEW op \in {"commit", "abort"}, ServeEnd(op) PROVE TxnInv'
  <2>1. PICK code \in {"ok", "invalid_txn_state", "fenced"}, got \in Int, e \in Nat :
           /\ ask["app"].op = op /\ ask["app"].code = "none" /\ Reply("app", code, got)
           /\ coord.epoch <= e /\ got <= e
           /\ \/ UNCHANGED brokerVars /\ e = coord.epoch /\ (code = "ok" => coord.status = Fate(op))
              \/ EndsAt(op, e)
    BY <1>0, <1>6, ServeEndEnds
  <2>2. code \in Codes \ {"none"} /\ UNCHANGED <<others, unsure>> BY <1>6 DEF Codes, ServeEnd, strays
  <2>3. /\ ask'["app"].op = ask["app"].op /\ ask'["app"].epoch = ask["app"].epoch
        /\ ask'["app"].parts = ask["app"].parts
        /\ ask'["app"].got \in {ask["app"].got, got}
        /\ ask'["actor"] = ask["actor"]
    BY <1>0, <2>1, <2>2, ReplyOK
  <2>4. ask'["app"].got <= e
    <3>1. ask["app"].got <= coord.epoch /\ ask["app"].got \in Int BY <1>0, Typed DEF EpochsOK
    <3> QED BY <1>0, <2>1, <2>3, <3>1
  <2>5. CASE UNCHANGED brokerVars /\ e = coord.epoch
    <3>1. LiveStays /\ EnrolledFirst' /\ \A p \in Places : fence'[p] <= coord'.epoch
      BY <1>0, <2>5, EnrolledKept DEF LiveStays, Live, EpochsOK
    <3>2. coord.epoch <= coord'.epoch /\ ask'["app"].got <= coord'.epoch BY <1>0, <2>4, <2>5
    <3>3. ask["app"].op # "add" BY <1>6, <2>1
    <3> QED BY <1>0, <2>2, <2>3, <3>1, <3>2, <3>3, ServedStep
  <2>6. CASE EndsAt(op, e) BY <1>0, <2>1, <2>2, <2>3, <2>4, <2>6, EndStep
  <2> QED BY <2>1, <2>5, <2>6
<1>7. CASE ServeLate
  <2>1. PICK c \in stray : c \in CopyType /\ (UNCHANGED <<log, fence>> \/ Writes(c.at, c))
    BY <1>0, <1>7, LateEnds
  <2>2. UNCHANGED <<others, ask, coord, unsure>> BY <1>7 DEF ServeLate, others
  <2>3. LiveStays /\ EnrolledFirst' /\ \A q \in Places : fence'[q] <= coord'.epoch
    <3>1. CASE UNCHANGED <<log, fence>> BY <1>0, <2>2, <3>1, EnrolledKept DEF LiveStays, Live, EpochsOK
    <3>2. CASE Writes(c.at, c)
      <4> DEFINE e == Entry(within[c.rec], c.rec, c)
      <4>1. c.at \in Places /\ c.epoch \in Nat /\ c.epoch <= coord.epoch
        BY <2>1 DEF CopyType, Places, StraysLive
      <4>2. e \in EntryType /\ e.rec = c.rec /\ (e.fate = "open" => c.inTxn)
        BY <1>0, <2>1, <3>2, WritesT DEF CopyType, Entry
      <4>3. e.fate = "open" /\ ~Doubtful(e) => Live(c.at, c.epoch) BY <3>2, <4>2, LateLive DEF Doubtful
      <4> HIDE DEF e
      <4> QED BY <2>2, <3>2, <4>1, <4>2, <4>3, WriteKeeps DEF e, Writes
    <3> QED BY <2>1, <3>1, <3>2
  <2>4. coord.epoch <= coord'.epoch BY <1>0, <2>2
  <2> QED BY <1>0, <2>2, <2>3, <2>4, ServedStep
<1> QED BY <1>1, <1>2, <1>3, <1>4, <1>5, <1>6, <1>7, SendStep DEF BrokerNext, Sends

LEMMA TxnStutter ==
  ASSUME TxnInv, UNCHANGED vars
  PROVE  TxnInv'
<1>1. TypeInv' BY TypeStep DEF TxnInv
<1>2. AsksOK' /\ FlushOK' /\ IdleOK' /\ ActorOK' /\ EpochsOK'
  BY DEF TxnInv, vars, AsksOK, FlushOK, IdleOK, Idle, Empty, Ending, ActorOK, EpochsOK
<1>3. LiveOK' BY DEF TxnInv, vars, LiveOK, Live, Barren, Empty, NoRecords, Ending
<1>4. EnrolledFirst' BY EnrolledKept DEF TxnInv, vars
<1> QED BY <1>1, <1>2, <1>3, <1>4 DEF TxnInv

(* Fences only rise while the coordinator rests.                           *)
LEMMA FenceLives ==
  ASSUME TypeInv, UNCHANGED coord, NEW p \in Places, NEW epoch \in Nat,
         UNCHANGED fence \/ (fence' = [fence EXCEPT ![p] = epoch] /\ epoch >= fence[p])
  PROVE  LiveStays
<1> SUFFICES ASSUME NEW q \in Places, NEW f \in Nat, Live(q, f)
             PROVE  Live(q, f)'
  BY DEF LiveStays
<1>1. fence[q] \in Nat /\ fence'[q] \in Nat /\ fence'[q] >= fence[q] BY DEF TypeInv, FenceT
<1> QED BY <1>1 DEF Live

LEMMA StraysLiveKept ==
  ASSUME TypeInv, StraysLive, stray' \subseteq stray, LiveStays, coord'.bumps = coord.bumps,
         coord'.epoch \in Nat, coord.epoch <= coord'.epoch
  PROVE  StraysLive'
<1> SUFFICES ASSUME NEW c \in stray'
             PROVE  c.epoch <= coord'.epoch /\ (c.inTxn /\ coord.bumps => Live(c.at, c.epoch)')
  BY DEF StraysLive, Live
<1>1. c.epoch \in Nat /\ c.at \in Places /\ c.epoch <= coord.epoch
  BY DEF TypeInv, StrayT, CopyType, Places, StraysLive
<1>2. coord.epoch \in Nat BY Typed
<1> QED BY <1>1, <1>2 DEF StraysLive, LiveStays

LEMMA StraysLiveStep ==
  ASSUME TxnInv, StraysLive, Next
  PROVE  StraysLive'
<1>0. TypeInv /\ TypeInv' /\ coord.epoch \in Nat /\ coord'.epoch \in Nat /\ EpochsOK /\ LiveOK
  BY TypeStep, Typed DEF TxnInv, TypeInv, CoordT, CoordType
<1>1. CASE AppNext \/ ActorNext
  <2>1. UNCHANGED <<coord, fence, stray>>
    BY <1>1 DEF AppNext, StartInit, FinishInit, begin, Enqueue, SendOffsets, OffsetsAdded, OffsetsSent,
                StartEnd, SendEnd, FinishEnd, ActorNext, HandleAppend, HandleFlush, FindMissing,
                StartEnrol, FinishEnrol, Dispatch, HandleCompleted
  <2> QED BY <2>1 DEF StraysLive, Live
<1>2. CASE BrokerNext
  <2>1. ASSUME UNCHANGED coord, LiveStays, stray' \subseteq stray PROVE StraysLive'
    <3>1. coord.epoch <= coord'.epoch BY <1>0, <2>1
    <3> QED BY <1>0, <2>1, <3>1, StraysLiveKept
  <2>2. CASE ServeInit \/ RivalClaims
    <3>1. Claimed /\ UNCHANGED <<stray, unsure>> BY <2>2 DEF ServeInit, RivalClaims, strays
    <3>2. LiveStays /\ coord'.epoch = coord.epoch + 1 /\ coord'.bumps = coord.bumps BY <3>1, ClaimedKeeps
    <3>3. coord.epoch <= coord'.epoch BY <1>0, <3>2
    <3> QED BY <1>0, <3>1, <3>2, <3>3, StraysLiveKept
  <2>3. ASSUME NEW a \in {"app", "actor"}, ServeAdd(a) PROVE StraysLive'
    <3>1. UNCHANGED <<log, fence, stray, unsure>> /\ ask[a].parts \in SUBSET Places
      BY <1>0, <2>3, Typed DEF ServeAdd, strays
    <3>2. CASE UNCHANGED coord BY <2>1, <3>1, <3>2 DEF LiveStays, Live
    <3>3. CASE ~UNCHANGED coord
      <4>1. coord' = [coord EXCEPT !.parts = IF coord.status = "ongoing" THEN @ \cup ask[a].parts
                                                                       ELSE ask[a].parts,
                                   !.status = "ongoing"]
        BY <2>3, <3>3 DEF ServeAdd
      <4>2. LiveStays /\ coord'.epoch = coord.epoch /\ coord'.bumps = coord.bumps BY <3>1, <4>1, AddKeeps
      <4>3. coord.epoch <= coord'.epoch BY <1>0, <4>2
      <4> QED BY <1>0, <3>1, <4>2, <4>3, StraysLiveKept
    <3> QED BY <3>2, <3>3
  <2>4. ASSUME NEW a \in {"app", "actor"}, NotServed(a) PROVE StraysLive'
    BY <2>4 DEF NotServed, StraysLive, Live
  <2>5. CASE ServeOffsets
    <3>1. UNCHANGED <<coord, stray>> /\ Offsets \in Places /\ ask["app"].epoch \in Nat
      BY <1>0, <2>5, Typed DEF ServeOffsets, strays
    <3>2. \/ UNCHANGED fence
          \/ fence' = [fence EXCEPT ![Offsets] = ask["app"].epoch] /\ ask["app"].epoch >= fence[Offsets]
      BY <2>5, ServeOffsetsEnds
    <3>3. LiveStays BY <1>0, <3>1, <3>2, FenceLives
    <3> QED BY <2>1, <3>1, <3>3
  <2>6. ASSUME NEW op \in {"commit", "abort"}, ServeEnd(op) PROVE StraysLive'
    <3>1. UNCHANGED stray BY <2>6 DEF ServeEnd, strays
    <3>2. PICK e \in Nat : UNCHANGED brokerVars \/ EndsAt(op, e) BY <1>0, <2>6, ServeEndEnds
    <3>3. CASE UNCHANGED brokerVars BY <2>1, <3>3 DEF LiveStays, Live
    <3>4. CASE EndsAt(op, e)
      <4>1. /\ coord'.epoch = e /\ coord'.bumps = coord.bumps /\ Fate(op) \in {"committed", "aborted"}
            /\ Markers(Fate(op), e) /\ e = IF coord.bumps THEN coord.epoch + 1 ELSE coord.epoch
        <5>1. PICK fate : fate = Fate(op) OBVIOUS
        <5>2. coord' = [coord EXCEPT !.epoch = e, !.parts = {}, !.status = fate] /\ coord \in CoordType
          BY <1>0, <3>4, <5>1 DEF EndsAt, TypeInv, CoordT
        <5>3. coord'.epoch = e /\ coord'.bumps = coord.bumps BY <5>2 DEF CoordType
        <5> QED BY <3>4, <5>3 DEF EndsAt, Fate
      <4>2. \A p \in Places : fence'[p] = IF p \in coord.parts THEN e ELSE fence[p] BY <1>0, <4>1, MarkersT
      <4> SUFFICES ASSUME NEW c \in stray
                   PROVE  c.epoch <= coord'.epoch /\ (c.inTxn /\ coord'.bumps => fence'[c.at] > c.epoch)
        BY <3>1 DEF StraysLive, Live
      <4>3. c.epoch \in Nat /\ c.at \in Places /\ c.epoch <= coord.epoch /\ fence[c.at] \in Nat
        BY <1>0 DEF TypeInv, StrayT, CopyType, Places, StraysLive, FenceT
      <4>4. c.epoch <= coord'.epoch BY <1>0, <4>1, <4>3
      <4>5. ASSUME c.inTxn, coord.bumps PROVE fence'[c.at] > c.epoch
        <5>1. Live(c.at, c.epoch) /\ e = coord.epoch + 1 BY <4>1, <4>5 DEF StraysLive
        <5> QED BY <1>0, <4>2, <4>3, <5>1 DEF Live
      <4> QED BY <4>1, <4>4, <4>5
    <3> QED BY <3>2, <3>3, <3>4
  <2>7. ASSUME NEW p \in Partitions, Sends(p) PROVE StraysLive'
    <3>1. /\ flight[p] # NoBatch /\ flight[p].code = "none" /\ UNCHANGED coord
          /\ UNCHANGED <<log, fence>> \/ Writes(p, flight[p])
          /\ UNCHANGED stray \/ stray' = stray \cup {Copy(p)}
      BY <1>0, <2>7, SendEnds
    <3>2. p \in Places /\ flight[p].epoch \in Nat /\ flight[p].epoch <= coord.epoch
      BY <1>0, Typed DEF EpochsOK, Places
    <3>3. LiveStays BY <1>0, <3>1, <3>2, FenceLives DEF Writes
    <3>4. CASE UNCHANGED stray BY <2>1, <3>1, <3>3, <3>4
    <3>5. CASE stray' = stray \cup {Copy(p)}
      <4> SUFFICES ASSUME NEW c \in stray'
                   PROVE  c.epoch <= coord.epoch /\ (c.inTxn /\ coord.bumps => Live(c.at, c.epoch)')
        BY <3>1 DEF StraysLive, Live
      <4>1. c.epoch \in Nat /\ c.at \in Places BY <1>0 DEF TypeInv, StrayT, CopyType, Places
      <4>2. c.epoch <= coord.epoch /\ (c.inTxn /\ coord.bumps => Live(c.at, c.epoch))
        <5>1. CASE c \in stray BY <5>1 DEF StraysLive
        <5>2. CASE c = Copy(p)
          <6>1. c.at = p /\ c.epoch = flight[p].epoch /\ c.inTxn = flight[p].inTxn BY <5>2 DEF Copy
          <6> QED BY <1>0, <3>1, <3>2, <6>1 DEF LiveOK
        <5> QED BY <3>5, <5>1, <5>2
      <4> QED BY <3>3, <4>1, <4>2 DEF LiveStays
    <3> QED BY <3>1, <3>4, <3>5
  <2>8. CASE ServeLate
    <3>1. PICK c \in stray : /\ c \in CopyType /\ stray' = stray \ {c}
                             /\ UNCHANGED <<log, fence>> \/ Writes(c.at, c)
      BY <1>0, <2>8, LateEnds
    <3>2. c.at \in Places /\ c.epoch \in Nat /\ UNCHANGED coord BY <2>8, <3>1 DEF CopyType, Places, ServeLate
    <3>3. LiveStays BY <1>0, <3>1, <3>2, FenceLives DEF Writes
    <3> QED BY <2>1, <3>1, <3>2, <3>3
  <2> QED BY <1>2, <2>2, <2>3, <2>4, <2>5, <2>6, <2>7, <2>8 DEF BrokerNext, Sends
<1> QED BY <1>1, <1>2 DEF Next

StrayInv == StraysOK /\ StraysLive

LEMMA StrayInit == Init => StrayInv
BY DEF Init, StrayInv, StraysOK, StraysLive

LEMMA TxnStep == TxnInv /\ StrayInv /\ [Next]_vars => TxnInv' /\ StrayInv'
<1>1. TxnInv /\ StrayInv /\ Next => TxnInv' BY AppStep, ActorStep, BrokerStep DEF Next, StrayInv
<1>2. TxnInv /\ StrayInv /\ Next => StrayInv' BY StraysStep, StraysLiveStep DEF StrayInv, TxnInv
<1>3. TxnInv /\ StrayInv /\ UNCHANGED vars => StrayInv'
  BY DEF vars, StrayInv, StraysOK, StraysLive, Live, Flying, Expected
<1> QED BY <1>1, <1>2, <1>3, TxnStutter

(* AddPartitionsToTxn precedes every write of a transaction: whatever is   *)
(* written and undecided is in a partition that the coordinator will write *)
(* a marker to, through fencing, lost answers, requests that are repeated  *)
(* or late, epoch bumps and rival claims (transactions.rs, rule 1;         *)
(* ensure_enrolled, enrol, end; send_group).  The one exception is a       *)
(* record whose send was given up while its outcome was unknown, under a   *)
(* coordinator that does not bump the epoch (Doubtful).                    *)
THEOREM EnrolledBeforeWritten == Spec => []EnrolledFirst
<1>1. TxnInv => EnrolledFirst BY DEF TxnInv
<1> QED BY TxnInit, StrayInit, TxnStep, <1>1, PTL DEF Spec

-----------------------------------------------------------------------------
(* A transaction ends as one.                                              *)

Decided == {"committed", "aborted"}

(* What was written in the current transaction, and is not in doubt, has   *)
(* fate f, or is outside.                                                  *)
AllHave(f) ==
  \A p \in Places : \A i \in DOMAIN log[p] :
    log[p][i].of = begun /\ log[p][i].fate # "plain" /\ ~Doubtful(log[p][i]) => log[p][i].fate = f

NothingDecided ==
  \A p \in Places : \A i \in DOMAIN log[p] :
    log[p][i].of = begun /\ ~Doubtful(log[p][i]) => log[p][i].fate \notin Decided

NothingOpen ==
  \A p \in Places : \A i \in DOMAIN log[p] : log[p][i].fate = "open" => Doubtful(log[p][i])

(* Between two transactions.                                               *)
Shut == ~txn.open /\ ~txn.fenced

(* Another producer has claimed the id.                                    *)
Outdated == txn.identity < coord.epoch

(* Until the first transaction nothing happens.                            *)
BegunOK ==
  /\ txn.identity = NoIdentity => begun = 0
  /\ begun = 0 => Idle /\ ~txn.open /\ app \in {"none", "init"}
  /\ txn.open => ~txn.fenced
  /\ app = "offsets" => ~Shut

(* What is on its way is of the current transaction, and not of an epoch   *)
(* that comes after its own.                                               *)
CommandsIn == \A i \in DOMAIN commands : commands[i] # Flush => within[commands[i]] = begun
PendingIn ==
  \A p \in Partitions : \A i \in DOMAIN actor.pending[p] : within[actor.pending[p][i]] = begun
FlightIn ==
  \A p \in Partitions :
    flight[p] # NoBatch => within[flight[p].rec] = begun /\ flight[p].epoch <= txn.identity
WithinOK == CommandsIn /\ PendingIn /\ FlightIn

EntriesOK ==
  \A p \in Places : \A i \in DOMAIN log[p] :
    /\ log[p][i].of \in 1..begun
    /\ log[p][i].fate = "open" /\ ~Doubtful(log[p][i]) => log[p][i].of = begun

(* Once a write of the transaction has been decided there are no more.     *)
DecidedOK ==
  /\ Shut \/ begun = 0 => coord.status # "ongoing"
  /\ Shut => NothingOpen
  /\ NothingDecided \/ (coord.status # "ongoing" /\ (Outdated \/ Barren \/ Shut))
  /\ coord.status \in Decided => AllHave(coord.status)

(* An answer to EndTxn is about the transaction that is open.              *)
AnswerOK ==
  LET A == ask["app"] IN
  /\ A.op \in {"commit", "abort"} => txn.open
  /\ A.op \in {"add", "offsets", "commit", "abort"} => A.epoch = txn.identity
  /\ A.op \in {"commit", "abort"} /\ A.code = "ok" => AllHave(Fate(A.op)) /\ coord.status # "ongoing"

ToldOK ==
  \A n \in 1..MaxTxns : told[n] # "nothing" => n < begun \/ (n = begun /\ Shut /\ app = "none")

(* AllOrNothing, entry by entry.                                           *)
SameFate ==
  \A p, q \in Places : \A i \in DOMAIN log[p], j \in DOMAIN log[q] :
    log[p][i].of = log[q][j].of /\ ~Doubtful(log[p][i]) /\ ~Doubtful(log[q][j]) =>
      log[p][i].fate = log[q][j].fate \/ ~({log[p][i].fate, log[q][j].fate} \subseteq Decided)
ToldFate ==
  \A p \in Places : \A i \in DOMAIN log[p] :
    log[p][i].fate # "plain" /\ ~Doubtful(log[p][i]) /\ told[log[p][i].of] # "nothing" => log[p][i].fate = told[log[p][i].of]

AtomInv ==
  /\ TxnInv /\ BegunOK /\ WithinOK /\ EntriesOK /\ DecidedOK /\ AnswerOK /\ ToldOK
  /\ SameFate /\ ToldFate

(* A request that is late is of a transaction that was begun; while its    *)
(* epoch is the coordinator's, of the current one.                         *)
StrayIn ==
  \A c \in stray :
    /\ within[c.rec] \in 1..begun
    /\ c.inTxn /\ coord.bumps /\ c.epoch = coord.epoch => within[c.rec] = begun

LEMMA AtomImplies == AtomInv => AllOrNothing
<1> SUFFICES ASSUME AtomInv PROVE AllOrNothing OBVIOUS
<1> DEFINE written == {e \in UNION {Entries(p) : p \in Places} :
                         e.fate \in {"committed", "aborted"} /\ ~Doubtful(e)}
<1>1. ASSUME NEW e \in written, NEW f \in written, e.of = f.of PROVE e.fate = f.fate
  <2>1. PICK p \in Places : e \in Entries(p) OBVIOUS
  <2>2. PICK i \in DOMAIN log[p] : e = log[p][i] BY <2>1 DEF Entries
  <2>3. PICK q \in Places : f \in Entries(q) OBVIOUS
  <2>4. PICK j \in DOMAIN log[q] : f = log[q][j] BY <2>3 DEF Entries
  <2>5. {e.fate, f.fate} \subseteq Decided /\ ~Doubtful(e) /\ ~Doubtful(f) BY DEF Decided
  <2> HIDE DEF written
  <2> QED BY <1>1, <2>2, <2>4, <2>5 DEF AtomInv, SameFate
<1>2. \A p \in Places : \A e \in Entries(p) :
        e.fate # "plain" /\ ~Doubtful(e) /\ told[e.of] # "nothing" => e.fate = told[e.of]
  BY DEF AtomInv, ToldFate, Entries
<1> QED BY <1>1, <1>2 DEF AllOrNothing

LEMMA AtomInit == Init => AtomInv
<1> SUFFICES ASSUME Init PROVE AtomInv OBVIOUS
<1>1. TxnInv BY TxnInit
<1>2. /\ txn.identity = 0 /\ txn.open = FALSE /\ txn.fenced = FALSE /\ app = "none" /\ begun = 0
      /\ commands = <<>> /\ pc = "select" /\ told = [n \in 1..MaxTxns |-> "nothing"]
      /\ \A p \in Partitions : flight[p] = NoBatch /\ actor.pending[p] = <<>>
      /\ \A p \in Places : log[p] = <<>> /\ ask["app"] = NoAsk
      /\ coord.status = "empty"
  BY DEF Init, NoIdentity
<1>3. ask["app"].op = "none" BY DEF Init, NoAsk
<1>4. BegunOK BY <1>2 DEF BegunOK, Idle, Empty, Shut
<1>5. WithinOK BY <1>2 DEF WithinOK, CommandsIn, PendingIn, FlightIn
<1>6. EntriesOK /\ SameFate /\ ToldFate /\ NothingOpen /\ NothingDecided
  BY <1>2 DEF EntriesOK, SameFate, ToldFate, NothingOpen, NothingDecided
<1>7. DecidedOK BY <1>2, <1>6 DEF DecidedOK, Decided
<1>8. AnswerOK /\ ToldOK BY <1>2, <1>3 DEF AnswerOK, ToldOK
<1> QED BY <1>1, <1>4, <1>5, <1>6, <1>7, <1>8 DEF AtomInv

(* The logs stay, and the transaction.                                     *)
LEMMA LogsKept ==
  ASSUME AtomInv, UNCHANGED <<log, begun>>, coord'.bumps = coord.bumps, unsure \subseteq unsure'
  PROVE  /\ EntriesOK' /\ SameFate' /\ (UNCHANGED told => ToldFate')
         /\ NothingOpen => NothingOpen'
         /\ NothingDecided => NothingDecided'
         /\ \A f : AllHave(f) => AllHave(f)'
<1>0. \A e : Doubtful(e) => Doubtful(e)' BY DEF Doubtful
<1>1. EntriesOK' /\ SameFate' /\ (UNCHANGED told => ToldFate')
  BY <1>0 DEF AtomInv, EntriesOK, SameFate, ToldFate
<1>2. (NothingOpen => NothingOpen') /\ (NothingDecided => NothingDecided')
  BY <1>0 DEF NothingOpen, NothingDecided
<1>3. \A f : AllHave(f) => AllHave(f)' BY <1>0 DEF AllHave
<1> QED BY <1>1, <1>2, <1>3

(* What the actor's steps have in common: they find something to do.       *)
LEMMA ActorFrame ==
  ASSUME TxnInv, ActorNext
  PROVE  /\ ~Idle /\ UNCHANGED <<begun, told, handed, within, coord, log, fence, unsure>>
         /\ ask'["app"] = ask["app"] /\ app' \in {app, "end_commit", "end_abort"}
         /\ txn'.identity = txn.identity
         /\ (txn'.open = txn.open /\ txn'.fenced = txn.fenced) \/ (~txn'.open /\ txn'.fenced)
<1>0. TypeInv /\ txn \in TxnType BY Typed DEF TxnInv
<1>1. ~Idle
  <2>1. \A p \in Partitions : HandleCompleted(p) => flight[p] # NoBatch
    BY NoBatchIs DEF HandleCompleted, NoBatchFields
  <2> QED BY <2>1 DEF ActorNext, Idle, Empty, HandleAppend, HandleFlush, FindMissing, StartEnrol, FinishEnrol, Dispatch
<1>2. UNCHANGED <<begun, told, handed, within, coord, log, fence, unsure>>
  BY DEF ActorNext, HandleAppend, HandleFlush, FindMissing, StartEnrol, FinishEnrol, Dispatch, HandleCompleted
<1>3. app' \in {app, "end_commit", "end_abort"}
  BY DEF ActorNext, HandleAppend, HandleFlush, FindMissing, StartEnrol, FinishEnrol, Dispatch, HandleCompleted
<1>4. CASE FinishEnrol
  <2>1. ask'["app"] = ask["app"] BY <1>0, <1>4, AskTaken DEF FinishEnrol
  <2>2. \/ txn' = [txn EXCEPT !.enrolled = @ \cup actor.missing]
        \/ txn' = Noted(txn, ask["actor"].code)
    BY <1>4 DEF FinishEnrol
  <2>3. /\ txn'.identity = txn.identity
        /\ (txn'.open = txn.open /\ txn'.fenced = txn.fenced) \/ (~txn'.open /\ txn'.fenced)
    <3>1. CASE txn' = [txn EXCEPT !.enrolled = @ \cup actor.missing] BY <1>0, <3>1 DEF TxnType
    <3>2. CASE txn' = Noted(txn, ask["actor"].code) BY <1>0, <3>2, NotedOK
    <3> QED BY <2>2, <3>1, <3>2
  <2> QED BY <1>1, <1>2, <1>3, <2>1, <2>3
<1>5. CASE ~FinishEnrol
  <2>1. UNCHANGED txn
    BY <1>5 DEF ActorNext, HandleAppend, HandleFlush, FindMissing, StartEnrol, Dispatch, HandleCompleted
  <2>2. ask'["app"] = ask["app"]
    <3>1. CASE StartEnrol
      <4>1. actor.missing \in SUBSET Places /\ txn.identity \in Nat BY <1>0, Typed
      <4>2. Ask("actor", "add", txn.identity, actor.missing) \/ UNCHANGED ask BY <3>1 DEF StartEnrol
      <4> QED BY <1>0, <4>1, <4>2, AskOK
    <3>2. CASE ~StartEnrol
      BY <1>5, <3>2 DEF ActorNext, HandleAppend, HandleFlush, FindMissing, Dispatch, HandleCompleted
    <3> QED BY <3>1, <3>2
  <2> QED BY <1>1, <1>2, <1>3, <2>1, <2>2
<1> QED BY <1>4, <1>5

(* What the actor moves is of the current transaction.                     *)
LEMMA ActorWithin ==
  ASSUME AtomInv, ActorNext
  PROVE  WithinOK' /\ (Barren => Barren')
<1>0. /\ TxnInv /\ TypeInv /\ AsksOK /\ FlushOK /\ ActorOK /\ CommandsIn /\ PendingIn /\ FlightIn
      /\ actor \in ActorType /\ actor.pending \in [Partitions -> Seq(Records)]
      /\ commands \in Seq(Records \cup {Flush})
      /\ \A p \in Partitions : flight[p] \in BatchType
  BY Typed DEF AtomInv, TxnInv, WithinOK
<1>00. UNCHANGED <<begun, within>> /\ txn'.identity = txn.identity BY <1>0, ActorFrame
<1>1. CASE HandleAppend
  <2> DEFINE r == Head(commands)
             pending == [actor.pending EXCEPT ![PartitionOf[r]] = Append(@, r)]
             A == [actor EXCEPT !.pending = pending]
  <2>1. commands # <<>> /\ r # Flush /\ commands' = Tail(commands) /\ UNCHANGED flight /\ Event(A)
    BY <1>1 DEF HandleAppend
  <2>2. r \in Records /\ PartitionOf[r] \in Partitions BY <1>0, <2>1, TransactionsAssumption
  <2>3. /\ Len(commands) \in Nat /\ DOMAIN commands = 1..Len(commands) /\ 1 \in DOMAIN commands
        /\ DOMAIN commands' = 1..(Len(commands) - 1)
        /\ \A i \in DOMAIN commands' : commands'[i] = commands[i + 1]
        /\ commands[1] = r
    BY <1>0, <2>1
  <2>4. within[r] = begun /\ ~Barren BY <1>0, <2>1, <2>3 DEF CommandsIn, Barren, NoRecords
  <2>5. CommandsIn' BY <1>0, <1>00, <2>3 DEF CommandsIn
  <2> HIDE DEF r
  <2>6. pending \in [Partitions -> Seq(Records)] BY <1>0, <2>2
  <2>7. \A p \in Partitions : \A i \in DOMAIN pending[p] : within[pending[p][i]] = begun
    <3> SUFFICES ASSUME NEW p \in Partitions, NEW i \in DOMAIN pending[p]
                 PROVE  within[pending[p][i]] = begun
      OBVIOUS
    <3> DEFINE s == actor.pending[p]
    <3>1. s \in Seq(Records) /\ \A j \in DOMAIN s : within[s[j]] = begun BY <1>0 DEF PendingIn
    <3>2. pending[p] = s \/ pending[p] = Append(s, r) BY <1>0, <2>2
    <3> HIDE DEF s, pending
    <3>3. (i \in DOMAIN s /\ pending[p][i] = s[i]) \/ pending[p][i] = r BY <2>2, <3>1, <3>2
    <3> QED BY <2>4, <3>1, <3>3
  <2> HIDE DEF pending
  <2>8. A \in ActorType /\ A.pending = pending BY <1>0, <2>6 DEF ActorType
  <2> HIDE DEF A
  <2>9. actor'.pending = pending BY <1>0, <2>1, <2>8, EventT
  <2>10. PendingIn' /\ FlightIn' BY <1>0, <1>00, <2>1, <2>7, <2>9 DEF PendingIn, FlightIn
  <2> QED BY <2>4, <2>5, <2>10 DEF WithinOK
<1>2. CASE HandleFlush
  <2>1. /\ commands # <<>> /\ commands' = Tail(commands) /\ Event(actor)
        /\ UNCHANGED <<flight, app, failed>>
    BY <1>2 DEF HandleFlush
  <2>2. /\ Len(commands) \in Nat /\ DOMAIN commands = 1..Len(commands)
        /\ DOMAIN commands' = 1..(Len(commands) - 1)
        /\ \A i \in DOMAIN commands' : commands'[i] = commands[i + 1]
    BY <1>0, <2>1
  <2>3. actor'.pending = actor.pending BY <1>0, <2>1, EventT
  <2>4. CommandsIn' /\ (NoRecords => NoRecords') BY <1>0, <1>00, <2>2 DEF CommandsIn, NoRecords
  <2>5. PendingIn' /\ FlightIn' BY <1>0, <1>00, <2>1, <2>3 DEF PendingIn, FlightIn
  <2>6. Barren => Barren' BY <2>1, <2>3, <2>4 DEF Barren, Empty, Ending
  <2> QED BY <2>4, <2>5, <2>6 DEF WithinOK
<1>3. CASE UNCHANGED <<commands, flight, app, failed>> /\ actor'.pending = actor.pending
  <2>1. CommandsIn' /\ PendingIn' /\ FlightIn' BY <1>0, <1>00, <1>3 DEF CommandsIn, PendingIn, FlightIn
  <2>2. Barren => Barren' BY <1>3 DEF Barren, Empty, NoRecords, Ending
  <2> QED BY <2>1, <2>2 DEF WithinOK
<1>4. CASE FindMissing
  <2> DEFINE missing == IF txn.open THEN {p \in Partitions : Free(p)} \ txn.enrolled ELSE {}
  <2>1. actor' = [actor EXCEPT !.missing = missing] /\ UNCHANGED <<commands, flight, app, failed>>
    BY <1>4 DEF FindMissing
  <2> HIDE DEF missing
  <2>2. actor'.pending = actor.pending BY <1>0, <2>1 DEF ActorType
  <2> QED BY <1>3, <2>1, <2>2
<1>5. CASE FailMissing /\ UNCHANGED <<commands, flight, app, failed>>
  <2>1. \A p \in Partitions : actor'.pending[p] = IF p \in actor.missing THEN <<>> ELSE actor.pending[p]
    BY <1>0, <1>5, FailMissingT
  <2>2. CommandsIn' /\ FlightIn' BY <1>0, <1>00, <1>5 DEF CommandsIn, FlightIn
  <2>3. PendingIn' BY <1>0, <1>00, <2>1 DEF PendingIn
  <2>4. Barren => Barren' BY <1>5, <2>1 DEF Barren, Empty, NoRecords, Ending
  <2> QED BY <2>2, <2>3, <2>4 DEF WithinOK
<1>6. CASE StartEnrol BY <1>3, <1>5, <1>6 DEF StartEnrol
<1>7. CASE FinishEnrol
  <2>1. UNCHANGED <<commands, flight, app, failed>> BY <1>7 DEF FinishEnrol
  <2>2. CASE FailMissing BY <1>5, <2>1, <2>2
  <2>3. CASE actor' = [actor EXCEPT !.missing = {}]
    <3>1. actor'.pending = actor.pending BY <1>0, <2>3 DEF ActorType
    <3> QED BY <1>3, <2>1, <3>1
  <2> QED BY <1>7, <2>2, <2>3 DEF FinishEnrol
<1>8. CASE Dispatch
  <2> DEFINE pending == [p \in Partitions |-> IF p \in Ready THEN Tail(actor.pending[p]) ELSE actor.pending[p]]
             next == [p \in Partitions |-> IF p \in Ready THEN actor.next[p] + 1 ELSE actor.next[p]]
  <2>1. /\ pc = "dispatch" /\ UNCHANGED <<commands, failed>> /\ actor' = [actor EXCEPT !.pending = pending, !.next = next]
        /\ app' \in {app, "end_commit", "end_abort"}
    BY <1>8 DEF Dispatch
  <2>2. \A p \in Partitions :
          /\ p \notin Ready => flight'[p] = flight[p] /\ pending[p] = actor.pending[p]
          /\ p \in Ready => pending[p] = Tail(actor.pending[p]) /\ actor.pending[p] # <<>>
    BY <1>8 DEF Dispatch, Ready, Free
  <2> HIDE DEF pending, next
  <2>3. actor'.pending = pending BY <1>0, <2>1 DEF ActorType
  <2>4. ASSUME NEW p \in Partitions, p \in Ready
        PROVE  /\ within[flight'[p].rec] = begun /\ flight'[p].epoch = txn.identity
               /\ \A i \in DOMAIN pending[p] : within[pending[p][i]] = begun
    <3> DEFINE s == actor.pending[p]
               rec == Head(s)
               epoch == actor.identity
               seq == actor.next[p]
               inTxn == txn.open
    <3>1. flight'[p] = [rec |-> rec, epoch |-> epoch, seq |-> seq, inTxn |-> inTxn, lost |-> FALSE, code |-> "none"]
      BY <1>8, <2>4 DEF Dispatch
    <3>2. /\ s \in Seq(Records) /\ s # <<>> /\ pending[p] = Tail(s)
          /\ \A j \in DOMAIN s : within[s[j]] = begun
      BY <1>0, <2>2, <2>4 DEF PendingIn
    <3>3. epoch = txn.identity BY <1>0, <2>1 DEF ActorOK
    <3> HIDE DEF s
    <3>4. rec = s[1] /\ 1 \in DOMAIN s BY <3>2
    <3>5. \A i \in DOMAIN pending[p] : i + 1 \in DOMAIN s /\ pending[p][i] = s[i + 1] BY <3>2
    <3> HIDE DEF rec, epoch, seq, inTxn
    <3>6. flight'[p].rec = rec /\ flight'[p].epoch = epoch BY <3>1
    <3> QED BY <3>2, <3>3, <3>4, <3>5, <3>6
  <2>5. CommandsIn' BY <1>0, <1>00, <2>1 DEF CommandsIn
  <2>6. PendingIn' BY <1>0, <1>00, <2>2, <2>3, <2>4 DEF PendingIn
  <2>7. FlightIn'
    <3>1. txn.identity \in Nat /\ txn.identity <= txn.identity BY <1>0, Typed
    <3>2. ASSUME NEW p \in Partitions, flight'[p] # NoBatch
          PROVE  within[flight'[p].rec] = begun /\ flight'[p].epoch <= txn.identity
      BY <1>0, <2>2, <2>4, <3>1, <3>2 DEF FlightIn
    <3> QED BY <1>00, <3>2 DEF FlightIn
  <2>8. Barren => Barren'
    <3> SUFFICES ASSUME Barren PROVE Barren' OBVIOUS
    <3>1. \A p \in Partitions : p \notin Ready BY <2>2 DEF Barren, Empty
    <3> QED BY <2>1, <2>2, <2>3, <3>1 DEF Barren, Empty, NoRecords, Ending
  <2> QED BY <2>5, <2>6, <2>7, <2>8 DEF WithinOK
<1>9. ASSUME NEW p \in Partitions, HandleCompleted(p) PROVE WithinOK' /\ (Barren => Barren')
  <2> DEFINE b == flight[p]
             A == IF b.code = "ok" THEN actor ELSE [actor EXCEPT !.next[p] = b.seq]
             B == IF b.code \in {"fenced", "out_of_order"}
                  THEN [A EXCEPT !.identity = NoIdentity, !.next = [q \in Partitions |-> 0]]
                  ELSE A
  <2>1. /\ b.code # "none" /\ Event(B) /\ flight' = [flight EXCEPT ![p] = NoBatch]
        /\ UNCHANGED <<app, failed, commands>>
    BY <1>9 DEF HandleCompleted
  <2>2. b \in BatchType /\ b.seq \in Nat BY <1>0 DEF BatchType
  <2>3. b # NoBatch BY <2>1, NoBatchIs DEF NoBatchFields
  <2>4. ~Barren BY <2>3 DEF Barren, Empty
  <2>5. \A q \in Partitions : flight'[q] \in {flight[q], NoBatch} BY <1>0, <2>1 DEF TypeInv, FlightT
  <2> HIDE DEF b
  <2>6. A \in ActorType /\ A.pending = actor.pending BY <1>0, <2>2 DEF ActorType
  <2> HIDE DEF A
  <2>7. B \in ActorType /\ B.pending = A.pending BY <2>6 DEF ActorType, NoIdentity
  <2> HIDE DEF B
  <2>8. actor'.pending = actor.pending BY <1>0, <2>1, <2>6, <2>7, EventT
  <2>9. CommandsIn' /\ PendingIn' BY <1>0, <1>00, <2>1, <2>8 DEF CommandsIn, PendingIn
  <2>10. FlightIn' BY <1>0, <1>00, <2>5 DEF FlightIn
  <2> QED BY <2>4, <2>9, <2>10 DEF WithinOK
<1> QED BY <1>1, <1>2, <1>4, <1>6, <1>7, <1>8, <1>9 DEF ActorNext

LEMMA AtomActor ==
  ASSUME AtomInv, ActorNext
  PROVE  AtomInv'
<1>0. TxnInv /\ TxnInv' /\ TypeInv /\ IdleOK /\ AsksOK BY ActorStep DEF AtomInv, TxnInv
<1>1. /\ ~Idle /\ UNCHANGED <<begun, told, handed, within, coord, log, fence, unsure>>
      /\ ask'["app"] = ask["app"] /\ app' \in {app, "end_commit", "end_abort"}
      /\ txn'.identity = txn.identity
      /\ (txn'.open = txn.open /\ txn'.fenced = txn.fenced) \/ (~txn'.open /\ txn'.fenced)
  BY <1>0, ActorFrame
<1>2. WithinOK' /\ (Barren => Barren') BY ActorWithin
<1>3. /\ ~Shut /\ ~Ending /\ txn.identity # NoIdentity /\ begun # 0 /\ ~Shut'
      /\ ask["app"].op \notin {"commit", "abort"}
  BY <1>0, <1>1 DEF IdleOK, Shut, AtomInv, BegunOK, AsksOK, Ending
<1>4. BegunOK' BY <1>1, <1>3 DEF AtomInv, BegunOK
<1>5. /\ EntriesOK' /\ SameFate' /\ ToldFate'
      /\ NothingDecided => NothingDecided'
      /\ \A f : AllHave(f) => AllHave(f)'
  BY <1>1, LogsKept
<1>6. DecidedOK'
  <2>1. NothingDecided \/ (coord.status # "ongoing" /\ (Outdated \/ Barren)) BY <1>3 DEF AtomInv, DecidedOK
  <2>2. Outdated => Outdated' BY <1>1 DEF Outdated
  <2>3. coord.status \in Decided => AllHave(coord.status)'
    <3>1. PICK f : f = coord.status OBVIOUS
    <3>2. f \in Decided => AllHave(f)' BY <1>5, <3>1 DEF AtomInv, DecidedOK
    <3> QED BY <1>1, <3>1, <3>2 DEF AllHave
  <2> QED BY <1>1, <1>2, <1>3, <1>5, <2>1, <2>2, <2>3 DEF DecidedOK, AllHave
<1>7. AnswerOK' BY <1>1, <1>3 DEF AtomInv, AnswerOK
<1>8. ToldOK' BY <1>1, <1>3 DEF AtomInv, ToldOK
<1> QED BY <1>0, <1>2, <1>4, <1>5, <1>6, <1>7, <1>8 DEF AtomInv

(* The application's steps that leave the state of the transaction alone.  *)
LEMMA CallKeeps ==
  ASSUME AtomInv, TxnInv', UNCHANGED <<txn, begun, told, log, coord, unsure>>, WithinOK', AnswerOK', BegunOK',
         Barren => Barren', Shut /\ app = "none" /\ begun # 0 => app' = "none"
  PROVE  AtomInv'
<1>0. TypeInv /\ begun \in 0..MaxTxns BY DEF AtomInv, TxnInv, TypeInv, BegunT
<1>1. /\ EntriesOK' /\ SameFate' /\ ToldFate'
      /\ NothingOpen => NothingOpen'
      /\ NothingDecided => NothingDecided'
      /\ coord.status \in Decided => AllHave(coord.status)'
  <2>1. coord.status \in Decided => AllHave(coord.status) BY DEF AtomInv, DecidedOK
  <2> QED BY <2>1, LogsKept DEF AllHave
<1>2. DecidedOK' BY <1>1 DEF AtomInv, DecidedOK, Shut, Outdated, AllHave
<1>3. ToldOK'
  <2>1. \A n \in 1..MaxTxns : told[n] # "nothing" => n < begun \/ (n = begun /\ Shut /\ app = "none")
    BY DEF AtomInv, ToldOK
  <2>2. Shut => Shut' BY DEF Shut
  <2>3. \A n \in 1..MaxTxns : n = begun => begun # 0 BY <1>0
  <2> QED BY <2>1, <2>2, <2>3 DEF ToldOK
<1> QED BY <1>1, <1>2, <1>3 DEF AtomInv

(* It learns that a call failed.                                           *)
LEMMA BadKeeps ==
  ASSUME AtomInv, TxnInv', UNCHANGED <<begun, told, log, coord, unsure, within, commands, actor, flight, pc>>,
         ask' = [ask EXCEPT !["app"] = NoAsk], NEW code, txn' = Noted(txn, code),
         app \in {"init", "offsets", "end_commit", "end_abort"}, app' = "none",
         failed' \in BOOLEAN, failed => failed', app \in {"end_commit", "end_abort"} => failed'
  PROVE  AtomInv'
<1>0. TypeInv /\ txn \in TxnType BY Typed DEF AtomInv, TxnInv
<1>1. ask'["app"].op = "none" BY <1>0, AskTaken
<1>2. /\ txn'.identity = txn.identity
      /\ txn' = txn \/ (txn'.open = FALSE /\ txn'.fenced = TRUE)
  BY <1>0, NotedOK
<1>3. Barren => Barren' BY DEF Barren, Empty, NoRecords, Ending
<1>4. BegunOK' BY <1>2 DEF AtomInv, BegunOK, Idle, Empty
<1>5. WithinOK' BY <1>2 DEF AtomInv, WithinOK, CommandsIn, PendingIn, FlightIn
<1>6. AnswerOK' BY <1>1 DEF AnswerOK
<1>7. ToldOK' BY DEF AtomInv, ToldOK
<1>8. /\ EntriesOK' /\ SameFate' /\ ToldFate'
      /\ NothingOpen => NothingOpen'
      /\ NothingDecided => NothingDecided'
      /\ coord.status \in Decided => AllHave(coord.status)'
  <2>1. coord.status \in Decided => AllHave(coord.status) BY DEF AtomInv, DecidedOK
  <2> QED BY <2>1, LogsKept DEF AllHave
<1>9. DecidedOK'
  <2>1. Shut' => Shut BY <1>2 DEF Shut
  <2>2. NothingDecided \/ (coord.status # "ongoing" /\ (Outdated' \/ Barren' \/ Shut'))
    <3>1. Outdated => Outdated' BY <1>2 DEF Outdated
    <3>2. CASE Shut /\ ~Shut' /\ ~NothingDecided
      <4>1. app # "offsets" /\ txn.identity # NoIdentity
        <5>1. app # "offsets" BY <3>2 DEF AtomInv, BegunOK
        <5>2. begun # 0
          <6>1. PICK p \in Places : \E i \in DOMAIN log[p] : log[p][i].of = begun BY <3>2 DEF NothingDecided
          <6>2. begun \in 0..MaxTxns /\ begun \in 1..begun
            BY <1>0, <6>1 DEF AtomInv, EntriesOK, TypeInv, BegunT
          <6> QED BY <6>2, TransactionsAssumption
        <5> QED BY <5>1, <5>2 DEF AtomInv, BegunOK
      <4>2. app \in {"end_commit", "end_abort"} BY <4>1 DEF AtomInv, TxnInv, AsksOK
      <4>3. Idle BY <4>2 DEF AtomInv, TxnInv, IdleOK, Ending
      <4>4. Barren BY <4>2, <4>3 DEF Barren, Idle, Ending, NoRecords
      <4> QED BY <1>3, <3>2, <4>4 DEF AtomInv, DecidedOK
    <3>3. CASE ~(Shut /\ ~Shut' /\ ~NothingDecided) BY <1>3, <3>1, <3>3 DEF AtomInv, DecidedOK
    <3> QED BY <3>2, <3>3
  <2> QED BY <1>8, <2>1, <2>2 DEF AtomInv, DecidedOK, AllHave
<1> QED BY <1>4, <1>5, <1>6, <1>7, <1>8, <1>9 DEF AtomInv

LEMMA AtomApp ==
  ASSUME AtomInv, AppNext
  PROVE  AtomInv'
<1>0. /\ TxnInv /\ TxnInv' /\ TypeInv /\ AsksOK /\ IdleOK /\ txn \in TxnType /\ txn.identity \in Nat
      /\ failed \in BOOLEAN /\ {} \in SUBSET Places /\ {Offsets} \in SUBSET Places
      /\ ask["app"].epoch \in Nat /\ begun \in 0..MaxTxns /\ MaxTxns \in Nat
      /\ commands \in Seq(Records \cup {Flush}) /\ CommandsIn /\ PendingIn /\ FlightIn
  BY AppStep, Typed, TransactionsAssumption DEF AtomInv, TxnInv, TypeInv, BegunT, Places, WithinOK
<1>00. BegunOK /\ EntriesOK /\ DecidedOK /\ AnswerOK /\ ToldOK /\ SameFate /\ ToldFate BY DEF AtomInv
<1>000. app = "none" => ask["app"].op = "none"
  <2>1. ask["app"].op \in {"none", "init", "add", "offsets", "commit", "abort"}
    BY <1>0 DEF TypeInv, AskT, AskType
  <2> QED BY <1>0, <2>1 DEF AsksOK
<1>1. CASE StartInit
  <2>1. /\ app = "none" /\ app' = "init" /\ txn.identity = NoIdentity
        /\ UNCHANGED <<txn, failed, begun, told, within, commands, actor, pc, flight, log, coord, unsure>>
    BY <1>1 DEF StartInit
  <2>2. ask'["app"].op = "init" BY <1>0, <1>1, AskOK DEF StartInit
  <2>3. begun = 0 /\ BegunOK' BY <1>00, <2>1 DEF BegunOK, Idle, Empty
  <2>4. WithinOK' BY <1>0, <2>1 DEF WithinOK, CommandsIn, PendingIn, FlightIn
  <2>5. AnswerOK' BY <2>2 DEF AnswerOK
  <2>6. Barren => Barren' BY <2>1 DEF Barren, Empty, NoRecords, Ending
  <2> QED BY <1>0, <2>1, <2>3, <2>4, <2>5, <2>6, CallKeeps
<1>2. CASE FinishInit
  <2>1. /\ app = "init" /\ app' = "none" /\ ask' = [ask EXCEPT !["app"] = NoAsk]
        /\ UNCHANGED <<begun, told, within, commands, actor, pc, flight, log, coord, unsure>>
        /\ failed' = (failed /\ ask["app"].code # "ok") /\ ask["app"].op = "init"
    BY <1>0, <1>2 DEF FinishInit, Answered, AsksOK
  <2>2. CASE ask["app"].code # "ok"
    <3>1. txn' = Noted(txn, ask["app"].code) /\ failed' = failed BY <1>0, <1>2, <2>1, <2>2 DEF FinishInit
    <3> QED BY <1>0, <2>1, <3>1, BadKeeps
  <2>3. CASE ask["app"].code = "ok"
    <3>1. txn' = [txn EXCEPT !.identity = ask["app"].got, !.open = FALSE, !.enrolled = {}]
      BY <1>2, <2>3 DEF FinishInit
    <3>2. ask["app"].got # NoIdentity BY <1>0, <2>1, <2>3 DEF TypeInv, AskT, NoIdentity
    <3>3. txn'.identity # NoIdentity /\ txn'.open = FALSE BY <1>0, <3>1, <3>2 DEF TxnType
    <3>4. begun = 0 /\ Idle BY <1>0, <1>00, <2>1 DEF AsksOK, BegunOK
    <3>5. \A p \in Places : \A i \in DOMAIN log[p] : FALSE BY <1>00, <3>4 DEF EntriesOK
    <3>6. ask'["app"].op = "none" BY <1>0, <2>1, AskTaken
    <3>7. BegunOK' BY <2>1, <3>3, <3>4 DEF BegunOK, Idle, Empty
    <3>8. WithinOK' BY <2>1, <3>4 DEF Idle, Empty, WithinOK, CommandsIn, PendingIn, FlightIn
    <3>9. EntriesOK' /\ DecidedOK' /\ SameFate' /\ ToldFate'
      BY <1>00, <2>1, <3>4, <3>5 DEF EntriesOK, DecidedOK, SameFate, ToldFate, NothingOpen, NothingDecided, AllHave
    <3>10. ToldOK' BY <1>00, <2>1, <3>4 DEF ToldOK
    <3>11. AnswerOK' BY <3>6 DEF AnswerOK
    <3> QED BY <1>0, <3>7, <3>8, <3>9, <3>10, <3>11 DEF AtomInv
  <2> QED BY <2>2, <2>3
<1>3. CASE begin
  <2>1. /\ txn' = [txn EXCEPT !.open = TRUE, !.enrolled = {}] /\ app = "none" /\ txn.identity # NoIdentity
        /\ ~txn.fenced /\ ~txn.open /\ begun' = begun + 1
        /\ UNCHANGED <<app, told, within, commands, actor, pc, flight, ask, log, coord, unsure>>
    BY <1>3 DEF begin
  <2>2. txn'.identity = txn.identity /\ txn'.open = TRUE /\ txn'.fenced = txn.fenced BY <1>0, <2>1 DEF TxnType
  <2>3. Shut /\ Idle /\ NothingOpen BY <1>0, <1>00, <2>1 DEF Shut, IdleOK, DecidedOK
  <2>4. BegunOK' BY <1>0, <2>1, <2>2 DEF BegunOK
  <2>5. WithinOK' BY <2>1, <2>3 DEF Idle, Empty, WithinOK, CommandsIn, PendingIn, FlightIn
  <2>6. \A p \in Places : \A i \in DOMAIN log[p] :
          /\ log[p][i].of \in 1..begun' /\ log[p][i].of # begun'
          /\ log[p][i].fate = "open" => Doubtful(log[p][i])
    BY <1>0, <1>00, <2>1, <2>3 DEF EntriesOK, NothingOpen
  <2>7. EntriesOK' /\ NothingDecided' /\ NothingOpen' /\ SameFate' /\ ToldFate' /\ AllHave(coord.status)'
    <3>1. EntriesOK' /\ NothingDecided' /\ NothingOpen'
      BY <2>1, <2>6 DEF EntriesOK, NothingDecided, NothingOpen, Doubtful
    <3>2. SameFate' /\ ToldFate' BY <1>00, <2>1 DEF SameFate, ToldFate, Doubtful
    <3>3. AllHave(coord.status)' BY <2>1, <2>6 DEF AllHave
    <3> QED BY <3>1, <3>2, <3>3
  <2>8. DecidedOK' BY <1>0, <2>1, <2>2, <2>7 DEF DecidedOK, AllHave, Shut
  <2>9. AnswerOK' BY <1>000, <2>1 DEF AnswerOK
  <2>10. ToldOK' BY <1>0, <1>00, <2>1 DEF ToldOK
  <2> QED BY <1>0, <2>4, <2>5, <2>7, <2>8, <2>9, <2>10 DEF AtomInv
<1>4. CASE Enqueue
  <2>1. /\ app = "none" /\ txn.open /\ ~failed /\ commands' = Append(commands, handed + 1)
        /\ within' = [within EXCEPT ![handed + 1] = begun]
        /\ UNCHANGED <<txn, app, failed, begun, told, actor, pc, flight, ask, log, coord, unsure>>
    BY <1>4 DEF Enqueue
  <2>2. handed + 1 \in Records /\ within \in [Records -> 0..MaxTxns]
    BY <1>0, <1>4, TransactionsAssumption DEF Enqueue, TypeInv, HandT, Records
  <2>3. within'[handed + 1] = begun /\ \A r \in Records : within[r] = begun => within'[r] = begun
    BY <2>1, <2>2
  <2>4. CommandsIn'
    <3> DEFINE new == handed + 1
    <3>1. commands' = Append(commands, new) /\ new \in Records /\ within'[new] = begun BY <2>1, <2>2, <2>3
    <3> HIDE DEF new
    <3>2. \A i \in DOMAIN commands' : commands'[i] = new \/ (i \in DOMAIN commands /\ commands'[i] = commands[i])
      BY <1>0, <3>1
    <3>3. \A i \in DOMAIN commands : commands[i] # Flush => commands[i] \in Records BY <1>0
    <3> QED BY <1>0, <2>1, <2>3, <3>1, <3>2, <3>3 DEF CommandsIn
  <2>5. PendingIn'
    <3>1. actor.pending \in [Partitions -> Seq(Records)] BY <1>0, Typed
    <3>2. \A p \in Partitions : \A i \in DOMAIN actor.pending[p] : actor.pending[p][i] \in Records BY <3>1
    <3> QED BY <1>0, <2>1, <2>3, <3>2 DEF PendingIn
  <2>6. FlightIn' BY <1>0, <2>1, <2>3 DEF FlightIn, TypeInv, FlightT
  <2>7. ~Barren /\ begun # 0 /\ ~Shut BY <1>00, <2>1 DEF Barren, Ending, BegunOK, Shut
  <2>8. BegunOK' /\ AnswerOK' BY <1>00, <2>1, <2>7 DEF BegunOK, AnswerOK, Shut, AllHave, Doubtful
  <2> QED BY <1>0, <2>1, <2>4, <2>5, <2>6, <2>7, <2>8, CallKeeps DEF WithinOK
<1>5. CASE SendOffsets
  <2>1. /\ app = "none" /\ app' = "offsets" /\ txn.open
        /\ UNCHANGED <<txn, failed, begun, told, within, commands, actor, pc, flight, log, coord, unsure>>
    BY <1>5 DEF SendOffsets
  <2>2. ask'["app"].op = "add" /\ ask'["app"].epoch = txn.identity BY <1>0, <1>5, AskOK DEF SendOffsets
  <2>3. ~Shut /\ begun # 0 BY <1>00, <2>1 DEF Shut, BegunOK
  <2>4. BegunOK' BY <1>00, <2>1, <2>3 DEF BegunOK, Shut
  <2>5. WithinOK' BY <1>0, <2>1 DEF WithinOK, CommandsIn, PendingIn, FlightIn
  <2>6. AnswerOK' BY <2>1, <2>2 DEF AnswerOK
  <2>7. Barren => Barren' BY <2>1 DEF Barren, Empty, NoRecords, Ending
  <2> QED BY <1>0, <2>1, <2>3, <2>4, <2>5, <2>6, <2>7, CallKeeps
<1>6. CASE OffsetsAdded
  <2>1. /\ app = "offsets" /\ ask["app"].op = "add"
        /\ UNCHANGED <<begun, told, within, commands, actor, pc, flight, log, coord, unsure>>
    BY <1>6 DEF OffsetsAdded, Answered
  <2>2. CASE ask["app"].code = "ok"
    <3>1. Ask("app", "offsets", ask["app"].epoch, {Offsets}) /\ UNCHANGED <<txn, app, failed>>
      BY <1>6, <2>2 DEF OffsetsAdded
    <3>2. ask'["app"].op = "offsets" /\ ask'["app"].epoch = ask["app"].epoch BY <1>0, <3>1, AskOK
    <3>3. BegunOK' /\ AnswerOK' BY <1>00, <2>1, <3>1, <3>2 DEF BegunOK, AnswerOK, Shut
    <3>4. WithinOK' BY <1>0, <2>1, <3>1 DEF WithinOK, CommandsIn, PendingIn, FlightIn
    <3>5. Barren => Barren' BY <2>1, <3>1 DEF Barren, Empty, NoRecords, Ending
    <3> QED BY <1>0, <2>1, <3>1, <3>3, <3>4, <3>5, CallKeeps
  <2>3. CASE ask["app"].code # "ok"
    <3>1. /\ txn' = Noted(txn, ask["app"].code) /\ app' = "none" /\ failed' = TRUE
          /\ ask' = [ask EXCEPT !["app"] = NoAsk]
      BY <1>6, <2>3 DEF OffsetsAdded
    <3> QED BY <1>0, <2>1, <3>1, BadKeeps
  <2> QED BY <2>2, <2>3
<1>7. CASE OffsetsSent
  <2>1. /\ app = "offsets" /\ app' = "none" /\ failed' \in BOOLEAN /\ ~failed
        /\ txn' = Noted(txn, ask["app"].code) /\ ask' = [ask EXCEPT !["app"] = NoAsk]
        /\ UNCHANGED <<begun, told, within, commands, actor, pc, flight, log, coord, unsure>>
    BY <1>0, <1>7 DEF OffsetsSent, AsksOK
  <2> QED BY <1>0, <2>1, BadKeeps
<1>8. ASSUME NEW op \in {"commit", "abort"}, StartEnd(op) PROVE AtomInv'
  <2>1. /\ app = "none" /\ txn.open /\ app' = op /\ commands' = Append(commands, Flush)
        /\ UNCHANGED <<txn, failed, begun, told, within, actor, pc, flight, ask, log, coord, unsure>>
    BY <1>8 DEF StartEnd
  <2>2. /\ \A i \in DOMAIN commands' : commands'[i] = Flush \/ (i \in DOMAIN commands /\ commands'[i] = commands[i])
    BY <1>0, <2>1
  <2>3. ~Shut /\ begun # 0 BY <1>00, <2>1 DEF Shut, BegunOK
  <2>4. BegunOK' BY <1>00, <1>8, <2>1, <2>3 DEF BegunOK
  <2>5. WithinOK' BY <1>0, <2>1, <2>2 DEF WithinOK, CommandsIn, PendingIn, FlightIn
  <2>6. AnswerOK' BY <1>000, <2>1 DEF AnswerOK
  <2>7. Barren => Barren' BY <2>1, <2>2 DEF Barren, Empty, NoRecords, Ending
  <2> QED BY <1>0, <2>1, <2>3, <2>4, <2>5, <2>6, <2>7, CallKeeps
<1>9. ASSUME NEW op \in {"commit", "abort"}, SendEnd(op) PROVE AtomInv'
  <2>1. /\ app = (IF op = "commit" THEN "end_commit" ELSE "end_abort") /\ ask["app"] = NoAsk
        /\ UNCHANGED <<txn, begun, told, within, commands, actor, pc, flight, log, coord, unsure>>
    BY <1>9 DEF SendEnd
  <2>2. WithinOK' BY <1>0, <2>1 DEF WithinOK, CommandsIn, PendingIn, FlightIn
  <2>3. begun # 0 /\ app # "none" /\ Ending BY <1>00, <2>1 DEF BegunOK, Ending
  <2>4. CASE Ask("app", op, txn.identity, {}) /\ UNCHANGED <<app, failed>> /\ txn.open
    <3>1. ask'["app"].op = op /\ ask'["app"].epoch = txn.identity /\ ask'["app"].code = "none"
      <4>1. op \in {"init", "add", "offsets", "commit", "abort"} BY <1>9
      <4> QED BY <1>0, <2>4, <4>1, AskOK
    <3>2. BegunOK' /\ AnswerOK' BY <1>00, <2>1, <2>4, <3>1 DEF BegunOK, AnswerOK, Shut, Idle, Empty
    <3>3. Barren => Barren' BY <2>1, <2>4 DEF Barren, Empty, NoRecords, Ending
    <3> QED BY <1>0, <2>1, <2>2, <2>3, <2>4, <3>2, <3>3, CallKeeps
  <2>5. CASE app' = "none" /\ failed' = TRUE /\ UNCHANGED ask
    <3>1. ask["app"].op = "none" BY <2>1 DEF NoAsk
    <3>2. BegunOK' /\ AnswerOK' BY <1>00, <2>1, <2>3, <2>5, <3>1 DEF BegunOK, AnswerOK
    <3>3. Barren => Barren' BY <2>1, <2>5 DEF Barren, Empty, NoRecords
    <3> QED BY <1>0, <2>1, <2>2, <2>3, <2>5, <3>2, <3>3, CallKeeps
  <2> QED BY <1>9, <2>4, <2>5 DEF SendEnd
<1>10. ASSUME NEW op \in {"commit", "abort"}, FinishEnd(op) PROVE AtomInv'
  <2>1. /\ app \in {"end_commit", "end_abort"} /\ app' = "none" /\ ask["app"].op = op
        /\ ask' = [ask EXCEPT !["app"] = NoAsk]
        /\ UNCHANGED <<begun, within, commands, actor, pc, flight, log, coord, unsure>>
    BY <1>0, <1>10 DEF FinishEnd, Answered, AsksOK
  <2>2. CASE ask["app"].code # "ok"
    <3>1. txn' = Noted(txn, ask["app"].code) /\ failed' = TRUE /\ UNCHANGED told BY <1>10, <2>2 DEF FinishEnd
    <3> QED BY <1>0, <2>1, <3>1, BadKeeps
  <2>3. CASE ask["app"].code = "ok"
    <3>1. PICK id : /\ txn' = [txn EXCEPT !.identity = id, !.open = FALSE, !.enrolled = {}]
                    /\ (id = ask["app"].got /\ id > 0) \/ id = txn.identity
      BY <1>10, <2>3 DEF FinishEnd
    <3>2. /\ txn.open /\ ~txn.fenced /\ begun # 0 /\ txn.identity # NoIdentity
          /\ AllHave(Fate(op)) /\ Fate(op) \in Decided /\ coord.status # "ongoing"
      BY <1>0, <1>00, <2>1, <2>3 DEF AnswerOK, BegunOK, AsksOK, Fate, Decided
    <3>3. txn'.open = FALSE /\ txn'.identity = id /\ txn'.fenced = txn.fenced BY <1>0, <3>1 DEF TxnType
    <3>4. id # NoIdentity /\ Shut' BY <3>1, <3>2, <3>3 DEF NoIdentity, Shut
    <3>5. Idle BY <1>0, <2>1 DEF IdleOK, Ending
    <3>6. BegunOK' BY <2>1, <3>2, <3>3, <3>4 DEF BegunOK
    <3>7. WithinOK' BY <2>1, <3>5 DEF Idle, Empty, WithinOK, CommandsIn, PendingIn, FlightIn
    <3>8. NothingOpen BY <1>00, <3>2 DEF NothingOpen, EntriesOK, AllHave, Decided
    <3>9. DecidedOK'
      <4>1. NothingOpen' /\ (NothingDecided => NothingDecided') BY <2>1, <3>8, LogsKept
      <4>2. coord.status \in Decided => AllHave(coord.status) BY <1>00 DEF DecidedOK
      <4> QED BY <1>00, <2>1, <3>2, <3>4, <4>1, <4>2 DEF DecidedOK, AllHave, Doubtful
    <3>10. ask'["app"].op = "none" BY <1>0, <2>1, AskTaken
    <3>11. told' = [told EXCEPT ![begun] = Fate(op)] /\ begun \in 1..MaxTxns
      BY <1>0, <1>10, <2>3, <3>2 DEF FinishEnd
    <3>12. \A n \in 1..MaxTxns : told'[n] = IF n = begun THEN Fate(op) ELSE told[n]
      BY <1>0, <3>11 DEF TypeInv, ToldT
    <3>13. ToldOK' BY <1>00, <2>1, <3>4, <3>12 DEF ToldOK
    <3>14. EntriesOK' /\ SameFate' BY <2>1, LogsKept
    <3>15. ToldFate'
      <4>1. \A p \in Places : \A i \in DOMAIN log[p] : log[p][i].of \in 1..MaxTxns
        BY <1>0, <1>00 DEF EntriesOK
      <4> QED BY <1>00, <2>1, <3>2, <3>12, <4>1 DEF ToldFate, AllHave, Doubtful
    <3>16. AnswerOK' BY <3>10 DEF AnswerOK
    <3> QED BY <1>0, <3>6, <3>7, <3>9, <3>13, <3>14, <3>15, <3>16 DEF AtomInv
  <2> QED BY <2>2, <2>3
<1> QED BY <1>1, <1>2, <1>3, <1>4, <1>5, <1>6, <1>7, <1>8, <1>9, <1>10 DEF AppNext

(* The markers decide what is open and not in doubt, all of it and nothing *)
(* else.                                                                   *)
LEMMA MarkersFate ==
  ASSUME AtomInv, NEW fate \in Decided, NEW e \in Nat, Markers(fate, e)
  PROVE  \A p \in Places :
           /\ DOMAIN log'[p] = DOMAIN log[p]
           /\ \A i \in DOMAIN log[p] :
                /\ log'[p][i].of = log[p][i].of /\ log'[p][i].rec = log[p][i].rec
                /\ Doubtful(log[p][i])
                   \/ log'[p][i].fate = IF log[p][i].fate = "open" THEN fate ELSE log[p][i].fate
<1>0. TypeInv /\ OpenOK /\ log \in [Places -> Seq(EntryType)] BY OpenIs DEF AtomInv, TxnInv, TypeInv, LogT
<1>1. log' = Marked(fate) BY DEF Markers
<1> SUFFICES ASSUME NEW p \in Places
             PROVE  /\ DOMAIN log'[p] = DOMAIN log[p]
                    /\ \A i \in DOMAIN log[p] :
                         /\ log'[p][i].of = log[p][i].of /\ log'[p][i].rec = log[p][i].rec
                         /\ Doubtful(log[p][i])
                            \/ log'[p][i].fate = IF log[p][i].fate = "open" THEN fate ELSE log[p][i].fate
  OBVIOUS
<1>2. CASE p \notin coord.parts
  <2>1. log'[p] = log[p] BY <1>1, <1>2 DEF Marked
  <2>2. \A i \in DOMAIN log[p] : log[p][i].fate # "open" \/ Doubtful(log[p][i]) BY <1>0, <1>2 DEF OpenOK
  <2> QED BY <2>1, <2>2
<1>3. CASE p \in coord.parts
  <2> DEFINE s == log[p]
             mark(i) == IF s[i].fate = "open" THEN [s[i] EXCEPT !.fate = fate] ELSE s[i]
  <2>1. log'[p] = [i \in DOMAIN s |-> mark(i)] BY <1>1, <1>3 DEF Marked
  <2>2. s \in Seq(EntryType) BY <1>0
  <2>3. ASSUME NEW i \in DOMAIN s
        PROVE  /\ mark(i).of = s[i].of /\ mark(i).rec = s[i].rec
               /\ mark(i).fate = IF s[i].fate = "open" THEN fate ELSE s[i].fate
    <3>1. s[i] \in EntryType BY <2>2, <2>3
    <3> HIDE DEF s
    <3> QED BY <3>1 DEF EntryType
  <2> HIDE DEF mark
  <2> QED BY <2>1, <2>3
<1> QED BY <1>2, <1>3

LEMMA MarkersKeep ==
  ASSUME AtomInv, UNCHANGED <<begun, told, unsure>>, coord'.bumps = coord.bumps, coord.status = "ongoing",
         NEW fate \in Decided, NEW e \in Nat, Markers(fate, e)
  PROVE  /\ EntriesOK' /\ SameFate' /\ ToldFate' /\ NothingOpen' /\ AllHave(fate)'
         /\ \A f \in Decided : AllHave(f) => AllHave(f)'
<1>0. /\ EntriesOK /\ SameFate /\ ToldFate /\ NothingDecided /\ fate # "open" /\ "open" \notin Decided
      /\ "plain" \notin Decided
  BY DEF AtomInv, DecidedOK, Decided
<1>1. \A p \in Places :
        /\ DOMAIN log'[p] = DOMAIN log[p]
        /\ \A i \in DOMAIN log[p] :
             /\ log'[p][i].of = log[p][i].of
             /\ Doubtful(log[p][i])' <=> Doubtful(log[p][i])
             /\ Doubtful(log[p][i])
                \/ log'[p][i].fate = IF log[p][i].fate = "open" THEN fate ELSE log[p][i].fate
  BY MarkersFate DEF Doubtful
<1>2. NothingOpen' /\ EntriesOK' BY <1>0, <1>1 DEF NothingOpen, EntriesOK
<1>3. \A p \in Places : \A i \in DOMAIN log[p] : log[p][i].fate \in {"open", "plain"} \cup Decided
  <2>1. \A p \in Places : \A i \in DOMAIN log[p] : log[p][i] \in EntryType
    BY DEF AtomInv, TxnInv, TypeInv, LogT
  <2> QED BY <2>1 DEF EntryType, Decided
<1>4. AllHave(fate)' BY <1>0, <1>1, <1>3 DEF AllHave, NothingDecided
<1>5. \A f \in Decided : AllHave(f) => AllHave(f)' BY <1>0, <1>1 DEF AllHave, EntriesOK
<1>6. ToldFate'
  <2> SUFFICES ASSUME NEW p \in Places, NEW i \in DOMAIN log[p], log'[p][i].fate # "plain",
                      ~Doubtful(log[p][i]), told[log[p][i].of] # "nothing"
               PROVE  log'[p][i].fate = told[log[p][i].of]
    BY <1>1 DEF ToldFate
  <2>1. log[p][i].fate = told[log[p][i].of] BY <1>0, <1>1 DEF ToldFate
  <2>2. log[p][i].of \in 1..MaxTxns
    <3>1. begun \in 0..MaxTxns /\ MaxTxns \in Nat
      BY TransactionsAssumption DEF AtomInv, TxnInv, TypeInv, BegunT
    <3>2. log[p][i].of \in 1..begun BY <1>0 DEF EntriesOK
    <3> QED BY <3>1, <3>2
  <2>3. told[log[p][i].of] # "open" BY <2>2 DEF AtomInv, TxnInv, TypeInv, ToldT
  <2> QED BY <1>1, <2>1, <2>3
<1>7. SameFate'
  <2> SUFFICES ASSUME NEW p \in Places, NEW q \in Places, NEW i \in DOMAIN log[p], NEW j \in DOMAIN log[q],
                      log[p][i].of = log[q][j].of, log'[p][i].fate \in Decided, log'[q][j].fate \in Decided,
                      ~Doubtful(log[p][i]), ~Doubtful(log[q][j])
               PROVE  log'[p][i].fate = log'[q][j].fate
    BY <1>1 DEF SameFate
  <2>1. CASE log[p][i].fate = "open" \/ log[q][j].fate = "open"
    <3>1. log[p][i].of = begun /\ log[q][j].of = begun BY <1>0, <2>1 DEF EntriesOK
    <3>2. log[p][i].fate \notin Decided /\ log[q][j].fate \notin Decided BY <1>0, <3>1 DEF NothingDecided
    <3> QED BY <1>1, <3>2
  <2>2. CASE log[p][i].fate # "open" /\ log[q][j].fate # "open"
    <3>1. log[p][i].fate \in Decided /\ log[q][j].fate \in Decided BY <1>1, <2>2
    <3> QED BY <1>0, <1>1, <2>2, <3>1 DEF SameFate
  <2> QED BY <2>1, <2>2
<1> QED BY <1>2, <1>4, <1>5, <1>6, <1>7

(* A write of the current transaction, outside of any, or in doubt.        *)
LEMMA WriteAtom ==
  ASSUME AtomInv, UNCHANGED <<begun, told, coord, txn>>, unsure \subseteq unsure',
         NEW p \in Places, NEW e \in EntryType, log' = [log EXCEPT ![p] = Append(@, e)],
         e.of \in 1..begun, e.fate \in {"open", "plain"}, Barren => Barren',
         e.fate = "open" /\ ~Doubtful(e) => e.of = begun /\ coord.status = "ongoing"
  PROVE  /\ EntriesOK' /\ SameFate' /\ ToldFate' /\ DecidedOK'
         /\ coord.status # "ongoing" => \A f : AllHave(f) => AllHave(f)'
<1>0. /\ TypeInv /\ EntriesOK /\ SameFate /\ ToldFate /\ DecidedOK /\ e.fate \notin Decided
      /\ "ongoing" \notin Decided /\ MaxTxns \in Nat /\ begun \in 0..MaxTxns
  BY TransactionsAssumption DEF AtomInv, TxnInv, TypeInv, BegunT, Decided
<1>1. /\ \A q \in Places : q # p => log'[q] = log[q]
      /\ \A i \in DOMAIN log'[p] : log'[p][i] = e \/ (i \in DOMAIN log[p] /\ log'[p][i] = log[p][i])
  BY <1>0, Written
<1>2. \A q \in Places : \A i \in DOMAIN log'[q] :
        log'[q][i] = e \/ (i \in DOMAIN log[q] /\ log'[q][i] = log[q][i])
  BY <1>1
<1>D. \A x : Doubtful(x) => Doubtful(x)' BY DEF Doubtful
<1>3. EntriesOK' BY <1>0, <1>2, <1>D DEF EntriesOK
<1>4. SameFate'
  <2> SUFFICES ASSUME NEW a \in Places, NEW b \in Places, NEW i \in DOMAIN log'[a], NEW j \in DOMAIN log'[b],
                      log'[a][i].of = log'[b][j].of, log'[a][i].fate \in Decided, log'[b][j].fate \in Decided,
                      ~Doubtful(log[a][i])', ~Doubtful(log[b][j])'
               PROVE  log'[a][i].fate = log'[b][j].fate
    BY DEF SameFate
  <2>1. i \in DOMAIN log[a] /\ log'[a][i] = log[a][i] /\ j \in DOMAIN log[b] /\ log'[b][j] = log[b][j]
    BY <1>0, <1>2
  <2> QED BY <1>0, <1>D, <2>1 DEF SameFate
<1>5. coord.status = "ongoing" /\ begun # 0 => ~Shut /\ told[begun] = "nothing"
  BY <1>0 DEF AtomInv, ToldOK, DecidedOK
<1>6. ToldFate' BY <1>0, <1>2, <1>5, <1>D DEF ToldFate
<1>7. NothingDecided => NothingDecided' BY <1>0, <1>2, <1>D DEF NothingDecided
<1>8. coord.status # "ongoing" => (\A f : AllHave(f) => AllHave(f)') /\ (NothingOpen => NothingOpen')
  BY <1>0, <1>2, <1>D DEF AllHave, NothingOpen
<1>9. DecidedOK'
  <2>1. coord.status \in Decided => AllHave(coord.status)'
    <3>1. PICK f : f = coord.status OBVIOUS
    <3>2. f \in Decided => AllHave(f)' BY <1>0, <1>8, <3>1 DEF DecidedOK
    <3> QED BY <3>1, <3>2 DEF AllHave
  <2> QED BY <1>0, <1>5, <1>7, <1>8, <2>1 DEF DecidedOK, Shut, Outdated, AllHave
<1> QED BY <1>3, <1>4, <1>6, <1>8, <1>9

(* A coordinator's or broker's step that leaves the producer where it was. *)
LEMMA BrokerKeeps ==
  ASSUME AtomInv, TxnInv', UNCHANGED <<txn, app, begun, told>>,
         begun = 0 => UNCHANGED <<commands, actor, flight, pc>>,
         WithinOK', EntriesOK', SameFate', ToldFate', DecidedOK', AnswerOK'
  PROVE  AtomInv'
<1>1. BegunOK' BY DEF AtomInv, BegunOK, Shut, Idle, Empty
<1>2. ToldOK' BY DEF AtomInv, ToldOK, Shut
<1> QED BY <1>1, <1>2 DEF AtomInv

(* A call is answered, or lost: the logs and the coordinator stay.         *)
LEMMA AnswerKeeps ==
  ASSUME AtomInv, TxnInv', UNCHANGED <<others, log, coord, unsure>>,
         \A a \in {"app", "actor"} : /\ ask'[a].op = ask[a].op /\ ask'[a].epoch = ask[a].epoch
                                     /\ ask'[a].parts = ask[a].parts,
         ask["app"].op \in {"commit", "abort"} /\ ask'["app"].code = "ok" =>
           ask["app"].code = "ok" \/ coord.status = Fate(ask["app"].op)
  PROVE  AtomInv'
<1>1. /\ UNCHANGED <<txn, app, begun, told, commands, actor, flight, pc, within>>
      /\ Barren => Barren'
  BY ServedKept DEF AtomInv, others
<1>2. WithinOK' BY <1>1 DEF AtomInv, WithinOK, CommandsIn, PendingIn, FlightIn
<1>3. EntriesOK' /\ SameFate' /\ ToldFate' /\ (NothingOpen => NothingOpen') /\ (NothingDecided => NothingDecided')
  BY <1>1, LogsKept
<1>4. DecidedOK' BY <1>1, <1>3 DEF AtomInv, DecidedOK, Shut, Outdated, AllHave, Doubtful
<1>5. AnswerOK'
  <2>1. ask["app"].op \in {"commit", "abort"} => Fate(ask["app"].op) \in Decided BY DEF Fate, Decided
  <2>2. ask["app"].op \in {"commit", "abort"} /\ ask'["app"].code = "ok" =>
          AllHave(Fate(ask["app"].op)) /\ coord.status # "ongoing"
    BY <2>1 DEF AtomInv, AnswerOK, DecidedOK, Decided
  <2> QED BY <1>1, <2>2 DEF AtomInv, AnswerOK, AllHave, Doubtful
<1> QED BY <1>1, <1>2, <1>3, <1>4, <1>5, BrokerKeeps

(* The id is claimed: whoever holds an older epoch is outdated.            *)
LEMMA ClaimAtom ==
  ASSUME AtomInv, TxnInv', Claimed, UNCHANGED <<others, unsure>>,
         \A a \in {"app", "actor"} : /\ ask'[a].op = ask[a].op /\ ask'[a].epoch = ask[a].epoch
                                     /\ ask'[a].parts = ask[a].parts,
         ask["app"].op \in {"commit", "abort"} => ask'["app"].code = ask["app"].code
  PROVE  AtomInv'
<1>0. TxnInv /\ TypeInv /\ coord.epoch \in Nat /\ txn.identity \in Nat /\ txn.identity <= coord.epoch
  BY Typed DEF AtomInv, TxnInv, EpochsOK
<1>1. /\ UNCHANGED <<txn, app, begun, told, commands, actor, flight, pc, within>>
      /\ Barren => Barren'
  BY <1>0, ServedKept DEF others
<1>2. WithinOK' BY <1>1 DEF AtomInv, WithinOK, CommandsIn, PendingIn, FlightIn
<1>3. /\ coord'.epoch = coord.epoch + 1 /\ coord'.status = "empty" /\ coord'.bumps = coord.bumps
      /\ \/ coord.status = "ongoing" /\ Markers("aborted", coord.epoch + 1)
         \/ coord.status # "ongoing" /\ UNCHANGED <<log, fence>>
  BY <1>0, ClaimedT
<1>4. /\ EntriesOK' /\ SameFate' /\ ToldFate' /\ (NothingOpen => NothingOpen')
      /\ \A f \in Decided : AllHave(f) => AllHave(f)'
  <2>1. CASE coord.status = "ongoing" /\ Markers("aborted", coord.epoch + 1)
    <3>1. "aborted" \in Decided /\ coord.epoch + 1 \in Nat BY <1>0 DEF Decided
    <3> QED BY <1>1, <1>3, <2>1, <3>1, MarkersKeep
  <2>2. CASE UNCHANGED <<log, fence>> BY <1>1, <1>3, <2>2, LogsKept
  <2> QED BY <1>3, <2>1, <2>2
<1>5. Outdated' BY <1>0, <1>1, <1>3 DEF Outdated
<1>6. DecidedOK'
  <2>1. Shut' => NothingOpen' BY <1>1, <1>4 DEF AtomInv, DecidedOK, Shut
  <2>2. coord'.status \notin Decided BY <1>3 DEF Decided
  <2> QED BY <1>3, <1>5, <2>1, <2>2 DEF DecidedOK
<1>7. AnswerOK'
  <2>1. ASSUME ask["app"].op \in {"commit", "abort"}, ask["app"].code = "ok"
        PROVE  AllHave(Fate(ask["app"].op))'
    <3>1. PICK f \in Decided : f = Fate(ask["app"].op) BY <2>1 DEF Fate, Decided
    <3>2. AllHave(f)' BY <1>4, <2>1, <3>1 DEF AtomInv, AnswerOK
    <3> QED BY <3>1, <3>2 DEF AllHave, Fate
  <2> QED BY <1>1, <1>3, <2>1 DEF AtomInv, AnswerOK
<1> QED BY <1>1, <1>2, <1>4, <1>6, <1>7, BrokerKeeps

(* A partition is added: nothing of the transaction was decided before.    *)
LEMMA AddAtom ==
  ASSUME AtomInv, TxnInv', NEW a \in {"app", "actor"}, ask[a].op = "add", ask[a].epoch = coord.epoch,
         UNCHANGED <<others, log, unsure>>, coord'.status = "ongoing", coord'.bumps = coord.bumps,
         \A b \in {"app", "actor"} : /\ ask'[b].op = ask[b].op /\ ask'[b].epoch = ask[b].epoch
                                     /\ ask'[b].parts = ask[b].parts,
         ask["app"].op \in {"commit", "abort"} => ask'["app"].code = ask["app"].code
  PROVE  AtomInv'
<1>0. TxnInv /\ TypeInv /\ coord.epoch \in Nat /\ txn.identity \in Nat BY Typed DEF AtomInv, TxnInv
<1>1. UNCHANGED <<txn, app, begun, told, commands, actor, flight, pc, within>> BY DEF others
<1>2. WithinOK' BY <1>1 DEF AtomInv, WithinOK, CommandsIn, PendingIn, FlightIn
<1>3. EntriesOK' /\ SameFate' /\ ToldFate' /\ (NothingOpen => NothingOpen') /\ (NothingDecided => NothingDecided')
  BY <1>1, LogsKept
<1>4. NothingDecided /\ ~Shut /\ begun # 0 /\ ask["app"].op \notin {"commit", "abort"}
  <2>1. txn.identity = coord.epoch BY <1>0 DEF AtomInv, AnswerOK, TxnInv, AsksOK
  <2>2. ~Barren /\ ~Shut /\ begun # 0 /\ ask["app"].op \notin {"commit", "abort"}
    <3>1. CASE a = "actor"
      <4>1. pc = "enrolling" /\ \E p \in actor.missing : actor.pending[p] # <<>>
        BY <1>0, <3>1 DEF TxnInv, AsksOK, ActorOK
      <4>2. ~Empty /\ ~Idle BY <1>0, <4>1, Typed DEF Empty, Idle
      <4> QED BY <1>0, <4>2 DEF Barren, Shut, TxnInv, IdleOK, AsksOK, Ending, AtomInv, BegunOK
    <3>2. CASE a = "app" BY <1>0, <3>2 DEF TxnInv, AsksOK, Barren, Ending, AtomInv, BegunOK
    <3> QED BY <3>1, <3>2
  <2> QED BY <1>0, <2>1, <2>2 DEF AtomInv, DecidedOK, Outdated
<1>5. DecidedOK'
  <2>1. "ongoing" \notin Decided BY DEF Decided
  <2> QED BY <1>1, <1>3, <1>4, <2>1 DEF AtomInv, DecidedOK, Shut
<1>6. AnswerOK' BY <1>1, <1>4 DEF AtomInv, AnswerOK
<1> QED BY <1>1, <1>2, <1>3, <1>5, <1>6, BrokerKeeps

(* The coordinator ends the transaction that is open.                      *)
LEMMA EndAtom ==
  ASSUME AtomInv, TxnInv', NEW op \in {"commit", "abort"}, NEW e \in Nat, EndsAt(op, e),
         ask["app"].op = op, UNCHANGED <<others, unsure>>,
         \A b \in {"app", "actor"} : /\ ask'[b].op = ask[b].op /\ ask'[b].epoch = ask[b].epoch
                                     /\ ask'[b].parts = ask[b].parts
  PROVE  AtomInv'
<1>0. TxnInv /\ TypeInv BY DEF AtomInv, TxnInv
<1>1. /\ UNCHANGED <<txn, app, begun, told, commands, actor, flight, pc, within>>
      /\ Barren => Barren'
  BY <1>0, ServedKept DEF others
<1>2. WithinOK' BY <1>1 DEF AtomInv, WithinOK, CommandsIn, PendingIn, FlightIn
<1>3. PICK fate \in Decided : fate = Fate(op) BY DEF Fate, Decided
<1>4. coord'.status = fate /\ coord'.bumps = coord.bumps
  <2>1. coord' = [coord EXCEPT !.epoch = e, !.parts = {}, !.status = fate] /\ coord \in CoordType
    BY <1>0, <1>3 DEF EndsAt, TypeInv, CoordT
  <2> QED BY <2>1 DEF CoordType
<1>5. EntriesOK' /\ SameFate' /\ ToldFate' /\ NothingOpen' /\ AllHave(fate)'
  BY <1>1, <1>3, <1>4, MarkersKeep DEF EndsAt
<1>6. Barren
  <2>1. Ending BY <1>0 DEF TxnInv, AsksOK, Ending
  <2>2. Idle BY <1>0, <2>1 DEF TxnInv, IdleOK
  <2> QED BY <2>1, <2>2 DEF Barren, Idle, NoRecords
<1>7. DecidedOK'
  <2>1. fate # "ongoing" BY DEF Decided
  <2> QED BY <1>1, <1>4, <1>5, <1>6, <2>1 DEF DecidedOK, AllHave
<1>8. AnswerOK' BY <1>1, <1>3, <1>4, <1>5 DEF AtomInv, AnswerOK, AllHave, Decided
<1> QED BY <1>1, <1>2, <1>5, <1>7, <1>8, BrokerKeeps

(* A batch is sent: what is written is of the current transaction.         *)
LEMMA SendAtom ==
  ASSUME AtomInv, NEW p \in Partitions, Sends(p)
  PROVE  AtomInv'
<1>0. TxnInv /\ TxnInv' /\ TypeInv /\ LiveOK /\ EpochsOK /\ IdleOK BY SendStep DEF AtomInv, TxnInv
<1>1. /\ flight[p] # NoBatch /\ flight[p].code = "none" /\ (UNCHANGED <<log, fence>> \/ Writes(p, flight[p]))
      /\ UNCHANGED <<txn, app, begun, told, within, commands, actor, pc, ask, coord, failed>>
  BY <1>0, SendEnds
<1>2. unsure \subseteq unsure' BY <1>0, SendMoves
<1>3. /\ flight'[p].rec = flight[p].rec /\ flight'[p].epoch = flight[p].epoch
      /\ \A q \in Partitions : q # p => flight'[q] = flight[q]
  BY <1>0, SendMoves
<1>4. WithinOK' BY <1>1, <1>3 DEF AtomInv, WithinOK, CommandsIn, PendingIn, FlightIn
<1>5. ~Idle /\ ~Barren /\ ~Shut /\ ~Ending /\ begun # 0
  <2>1. ~Idle /\ ~Barren BY <1>1 DEF Idle, Barren, Empty
  <2> QED BY <1>0, <2>1 DEF IdleOK, Shut, AtomInv, BegunOK
<1>6. ask["app"].op \notin {"commit", "abort"} BY <1>0, <1>5 DEF TxnInv, AsksOK, Ending
<1>7. AnswerOK' BY <1>1, <1>6 DEF AtomInv, AnswerOK
<1>8. EntriesOK' /\ SameFate' /\ ToldFate' /\ DecidedOK'
  <2>1. CASE UNCHANGED <<log, fence>>
    <3>1. /\ EntriesOK' /\ SameFate' /\ ToldFate' /\ (NothingDecided => NothingDecided')
          /\ \A f : AllHave(f) => AllHave(f)'
      BY <1>1, <1>2, <2>1, LogsKept
    <3>2. coord.status \in Decided => AllHave(coord.status)'
      <4>1. PICK f : f = coord.status OBVIOUS
      <4>2. f \in Decided => AllHave(f)' BY <3>1, <4>1 DEF AtomInv, DecidedOK
      <4> QED BY <1>1, <4>1, <4>2 DEF AllHave
    <3>3. DecidedOK' BY <1>1, <1>5, <3>1, <3>2 DEF AtomInv, DecidedOK, Shut, Outdated, AllHave
    <3> QED BY <3>1, <3>3
  <2>2. CASE Writes(p, flight[p])
    <3> DEFINE e == Entry(within[flight[p].rec], flight[p].rec, flight[p])
    <3>1. flight[p].rec \in Records /\ flight[p].epoch \in Nat /\ flight[p].inTxn \in BOOLEAN
      BY <1>0, <1>1 DEF TypeInv, FlightT, BatchType
    <3>2. e \in EntryType /\ (e.fate = "open" => flight[p].inTxn) /\ p \in Places
      BY <1>0, <2>2, <3>1, WritesT DEF Places
    <3>3. e.of = begun /\ e.fate \in {"open", "plain"}
      <4>1. within[flight[p].rec] = begun BY <1>1 DEF AtomInv, WithinOK, FlightIn
      <4> QED BY <4>1 DEF Entry
    <3>4. e.of \in 1..begun BY <1>0, <1>5, <3>3 DEF TypeInv, BegunT
    <3>5. e.fate = "open" => coord.status = "ongoing"
      <4>1. fence[p] \in Nat /\ flight[p].epoch >= fence[p] BY <1>0, <2>2, <3>2, Typed DEF Writes
      <4>2. e.fate = "open" => Live(p, flight[p].epoch) BY <1>0, <1>1, <3>2 DEF LiveOK
      <4> QED BY <3>1, <4>1, <4>2 DEF Live
    <3>6. log' = [log EXCEPT ![p] = Append(@, e)] BY <2>2 DEF Writes
    <3> HIDE DEF e
    <3> QED BY <1>1, <1>2, <1>5, <3>2, <3>3, <3>4, <3>5, <3>6, WriteAtom
  <2> QED BY <1>1, <2>1, <2>2
<1> QED BY <1>0, <1>1, <1>4, <1>5, <1>7, <1>8, BrokerKeeps

(* A request that is late: its record is in doubt, or it is of the current *)
(* transaction.                                                            *)
LEMMA LateAtom ==
  ASSUME AtomInv, StrayInv, StrayIn, TxnInv', ServeLate
  PROVE  AtomInv'
<1>0. TxnInv /\ TypeInv BY DEF AtomInv, TxnInv
<1>1. PICK c \in stray : c \in CopyType /\ (UNCHANGED <<log, fence>> \/ Writes(c.at, c)) BY <1>0, LateEnds
<1>2. UNCHANGED <<others, ask, coord, unsure>> BY DEF ServeLate, others
<1>3. CASE UNCHANGED <<log, fence>> BY <1>2, <1>3, AnswerKeeps
<1>4. CASE Writes(c.at, c)
  <2> DEFINE e == Entry(within[c.rec], c.rec, c)
  <2>1. /\ UNCHANGED <<txn, app, begun, told, commands, actor, flight, pc, within>>
        /\ Barren => Barren'
    BY <1>0, <1>2, ServedKept DEF others
  <2>2. WithinOK' BY <2>1 DEF AtomInv, WithinOK, CommandsIn, PendingIn, FlightIn
  <2>3. /\ c.at \in Partitions /\ c.at \in Places /\ c.rec \in Records /\ c.epoch \in Nat
        /\ c.inTxn \in BOOLEAN /\ fence[c.at] \in Nat /\ c.epoch >= fence[c.at]
    BY <1>0, <1>1, <1>4, Typed DEF CopyType, Places, Writes
  <2>4. /\ e \in EntryType /\ (e.fate = "open" => c.inTxn) /\ e.of = within[c.rec] /\ e.rec = c.rec
        /\ e.fate \in {"open", "plain"}
    BY <1>0, <1>4, <2>3, WritesT DEF Entry
  <2>5. e.of \in 1..begun BY <2>4 DEF StrayIn
  <2>6. ASSUME e.fate = "open", ~Doubtful(e)
        PROVE  e.of = begun /\ coord.status = "ongoing"
    <3>1. c.inTxn /\ ~Doubtful(c) BY <2>4, <2>6 DEF Doubtful
    <3>2. Live(c.at, c.epoch) BY <1>0, <1>4, <3>1, LateLive DEF StrayInv
    <3>3. coord.status = "ongoing" /\ c.epoch = coord.epoch BY <2>3, <3>2 DEF Live
    <3>4. CASE coord.bumps BY <2>4, <3>1, <3>3, <3>4 DEF StrayIn
    <3>5. CASE ~coord.bumps
      <4>1. c.rec \notin unsure BY <3>1, <3>5 DEF Doubtful
      <4>2. c.seq = Expected(c.at, c.epoch) /\ Expected(c.at, c.epoch) \in Nat
        BY <1>0, <1>4, <2>3, CountIsNat DEF Writes
      <4>3. Flying(c) BY <4>1, <4>2 DEF StrayInv, StraysOK
      <4>4. flight[c.at].rec = c.rec /\ flight[c.at] # NoBatch BY <2>3, <4>3 DEF Flying, NoBatch
      <4> QED BY <2>3, <2>4, <3>3, <4>4 DEF AtomInv, WithinOK, FlightIn
    <3> QED BY <3>4, <3>5
  <2>7. log' = [log EXCEPT ![c.at] = Append(@, e)] BY <1>4 DEF Writes
  <2> HIDE DEF e
  <2>8. /\ EntriesOK' /\ SameFate' /\ ToldFate' /\ DecidedOK'
        /\ coord.status # "ongoing" => \A f : AllHave(f) => AllHave(f)'
    BY <1>2, <2>1, <2>3, <2>4, <2>5, <2>6, <2>7, WriteAtom
  <2>9. AnswerOK'
    <3>1. ASSUME ask["app"].op \in {"commit", "abort"}, ask["app"].code = "ok"
          PROVE  AllHave(Fate(ask["app"].op))' /\ coord.status # "ongoing"
      <4>1. PICK f : f = Fate(ask["app"].op) OBVIOUS
      <4>2. AllHave(f)' /\ coord.status # "ongoing" BY <2>8, <3>1, <4>1 DEF AtomInv, AnswerOK
      <4>3. f = Fate(ask["app"].op)' BY <1>2, <2>1, <4>1 DEF Fate
      <4> QED BY <4>2, <4>3 DEF AllHave
    <3> QED BY <1>2, <2>1, <3>1 DEF AtomInv, AnswerOK, AllHave, Fate
  <2> QED BY <2>1, <2>2, <2>8, <2>9, BrokerKeeps
<1> QED BY <1>1, <1>3, <1>4

LEMMA OffsetsAtom ==
  ASSUME AtomInv, TxnInv', ServeOffsets
  PROVE  AtomInv'
<1>0. TxnInv /\ TypeInv /\ LiveOK /\ AsksOK BY DEF AtomInv, TxnInv
<1>1. PICK code \in {"ok", "fenced", "illegal_generation"} :
           /\ Asked("app", "offsets") /\ Reply("app", code, 0)
           /\ \/ UNCHANGED <<log, fence>>
              \/ /\ ask["app"].epoch >= fence[Offsets]
                 /\ log' = [log EXCEPT ![Offsets] = Append(@, OffsetsEntry)]
                 /\ fence' = [fence EXCEPT ![Offsets] = ask["app"].epoch]
  BY ServeOffsetsEnds
<1>2. /\ code \in Codes \ {"none"} /\ ask["app"].op = "offsets" /\ ask["app"].code = "none"
      /\ UNCHANGED <<others, coord, unsure>>
  BY <1>1 DEF Codes, Asked, ServeOffsets, strays
<1>3. \A b \in {"app", "actor"} : /\ ask'[b].op = ask[b].op /\ ask'[b].epoch = ask[b].epoch
                                  /\ ask'[b].parts = ask[b].parts
  BY <1>0, <1>1, <1>2, ReplyOK
<1>4. CASE UNCHANGED <<log, fence>> BY <1>2, <1>3, <1>4, AnswerKeeps
<1>5. CASE /\ ask["app"].epoch >= fence[Offsets]
           /\ log' = [log EXCEPT ![Offsets] = Append(@, OffsetsEntry)]
  <2>1. /\ UNCHANGED <<txn, app, begun, told, commands, actor, flight, pc, within>>
        /\ Barren => Barren'
    BY <1>0, <1>2, <1>3, ServedKept DEF others
  <2>2. WithinOK' BY <2>1 DEF AtomInv, WithinOK, CommandsIn, PendingIn, FlightIn
  <2>3. OffsetsEntry \in EntryType /\ Offsets \in Places BY <1>0, OffsetsEntryT, Typed
  <2>4. OffsetsEntry.of = begun /\ OffsetsEntry.fate \in {"open", "plain"} BY DEF OffsetsEntry, Entry
  <2>5. coord.status = "ongoing"
    <3>1. ask["app"].epoch \in Nat /\ fence[Offsets] \in Nat /\ Live(Offsets, ask["app"].epoch)
      BY <1>0, <1>2, <2>3, Typed DEF LiveOK
    <3> QED BY <1>5, <3>1 DEF Live
  <2>6. ~Shut /\ begun # 0 BY <1>0, <1>2 DEF AsksOK, AtomInv, BegunOK
  <2>7. EntriesOK' /\ SameFate' /\ ToldFate' /\ DecidedOK'
    <3>1. PICK e \in EntryType : e = OffsetsEntry BY <2>3
    <3>2. log' = [log EXCEPT ![Offsets] = Append(@, e)] BY <1>5, <3>1
    <3>3. e.of \in 1..begun BY <1>0, <2>4, <2>6, <3>1 DEF TypeInv, BegunT
    <3> QED BY <1>2, <2>1, <2>3, <2>4, <2>5, <2>6, <3>1, <3>2, <3>3, WriteAtom
  <2>8. AnswerOK' BY <1>2, <1>3, <2>1 DEF AtomInv, AnswerOK
  <2> QED BY <2>1, <2>2, <2>7, <2>8, BrokerKeeps
<1> QED BY <1>1, <1>4, <1>5

LEMMA AtomBroker ==
  ASSUME AtomInv, StrayInv, StrayIn, BrokerNext
  PROVE  AtomInv'
<1>0. TxnInv /\ TxnInv' /\ TypeInv /\ coord.epoch \in Nat BY BrokerStep, Typed DEF AtomInv, TxnInv, StrayInv
<1>1. CASE ServeInit
  <2>1. /\ Claimed /\ Reply("app", "ok", coord.epoch + 1) /\ UNCHANGED <<others, unsure>>
        /\ ask["app"].op = "init" /\ ask["app"].code = "none"
    BY <1>1 DEF ServeInit, Asked, strays
  <2>2. "ok" \in Codes \ {"none"} /\ coord.epoch + 1 \in Int BY <1>0 DEF Codes
  <2>3. \A b \in {"app", "actor"} : /\ ask'[b].op = ask[b].op /\ ask'[b].epoch = ask[b].epoch
                                    /\ ask'[b].parts = ask[b].parts
    BY <1>0, <2>1, <2>2, ReplyOK
  <2> QED BY <1>0, <2>1, <2>3, ClaimAtom
<1>2. CASE RivalClaims BY <1>0, <1>2, ClaimAtom DEF RivalClaims, strays
<1>3. ASSUME NEW a \in {"app", "actor"}, ServeAdd(a) PROVE AtomInv'
  <2>1. ask[a].op = "add" /\ ask[a].code = "none" /\ UNCHANGED <<others, log, fence, unsure>>
    BY <1>3 DEF ServeAdd, Asked, strays
  <2>2. PICK code \in {"ok", "fenced"} :
          /\ Reply(a, code, 0)
          /\ \/ /\ ask[a].epoch = coord.epoch
                /\ coord' = [coord EXCEPT !.parts = IF coord.status = "ongoing" THEN @ \cup ask[a].parts
                                                                                ELSE ask[a].parts,
                                          !.status = "ongoing"]
             \/ UNCHANGED coord
    BY <1>3 DEF ServeAdd
  <2>3. code \in Codes \ {"none"} /\ ask[a].parts \in SUBSET Places BY <1>0, Typed DEF Codes
  <2>4. \A b \in {"app", "actor"} : /\ ask'[b].op = ask[b].op /\ ask'[b].epoch = ask[b].epoch
                                    /\ ask'[b].parts = ask[b].parts
                                    /\ ask[b].op # "add" => ask'[b].code = ask[b].code
    BY <1>0, <2>1, <2>2, <2>3, ReplyOK
  <2>5. CASE UNCHANGED coord BY <1>0, <2>1, <2>4, <2>5, AnswerKeeps
  <2>6. CASE /\ ask[a].epoch = coord.epoch
             /\ coord' = [coord EXCEPT !.parts = IF coord.status = "ongoing" THEN @ \cup ask[a].parts
                                                                             ELSE ask[a].parts,
                                       !.status = "ongoing"]
    <3>1. coord'.status = "ongoing" /\ coord'.bumps = coord.bumps BY <1>0, <2>1, <2>3, <2>6, AddKeeps
    <3> QED BY <1>0, <2>1, <2>4, <2>6, <3>1, AddAtom
  <2> QED BY <2>2, <2>5, <2>6
<1>4. ASSUME NEW a \in {"app", "actor"}, NotServed(a) PROVE AtomInv'
  <2>1. ask' = [ask EXCEPT ![a].code = "failed"] /\ UNCHANGED <<others, coord, log, fence, unsure>>
    BY <1>4 DEF NotServed
  <2>2. /\ ask'[a].op = ask[a].op /\ ask'[a].epoch = ask[a].epoch /\ ask'[a].parts = ask[a].parts
        /\ ask'[a].code = "failed"
        /\ \A b \in {"app", "actor"} : b # a => ask'[b] = ask[b]
    BY <1>0, <2>1 DEF TypeInv, AskT, AskType
  <2> QED BY <1>0, <2>1, <2>2, AnswerKeeps
<1>5. ASSUME NEW op \in {"commit", "abort"}, ServeEnd(op) PROVE AtomInv'
  <2>1. PICK code \in {"ok", "invalid_txn_state", "fenced"}, got \in Int, e \in Nat :
           /\ ask["app"].op = op /\ ask["app"].code = "none" /\ Reply("app", code, got)
           /\ \/ UNCHANGED brokerVars /\ (code = "ok" => coord.status = Fate(op))
              \/ EndsAt(op, e)
    BY <1>0, <1>5, ServeEndEnds
  <2>2. code \in Codes \ {"none"} /\ UNCHANGED <<others, unsure>> BY <1>5 DEF Codes, ServeEnd, strays
  <2>3. /\ \A b \in {"app", "actor"} : /\ ask'[b].op = ask[b].op /\ ask'[b].epoch = ask[b].epoch
                                       /\ ask'[b].parts = ask[b].parts
        /\ ask'["app"].code = "ok" => code = "ok"
    BY <1>0, <2>1, <2>2, ReplyOK
  <2>4. CASE UNCHANGED brokerVars /\ (code = "ok" => coord.status = Fate(op))
    BY <1>0, <2>1, <2>2, <2>3, <2>4, AnswerKeeps
  <2>5. CASE EndsAt(op, e) BY <1>0, <2>1, <2>2, <2>3, <2>5, EndAtom
  <2> QED BY <2>1, <2>4, <2>5
<1> QED BY <1>0, <1>1, <1>2, <1>3, <1>4, <1>5, OffsetsAtom, SendAtom, LateAtom DEF BrokerNext, Sends

LEMMA AtomStutter ==
  ASSUME AtomInv, UNCHANGED vars
  PROVE  AtomInv'
<1>1. /\ TxnInv' /\ UNCHANGED <<others, log, coord, ask, unsure>> BY TxnStutter DEF AtomInv, vars, others
<1> QED BY <1>1, AnswerKeeps

(* What is late stays in its transaction.                                  *)
LEMMA StrayInStep ==
  ASSUME AtomInv, StrayInv, StrayIn, Next
  PROVE  StrayIn'
<1>0. /\ TypeInv /\ EpochsOK /\ coord.epoch \in Nat /\ fence \in [Places -> Nat] /\ begun \in Nat
      /\ stray \subseteq CopyType /\ TxnInv
      /\ \A c \in stray : c.epoch \in Nat /\ c.epoch <= coord.epoch /\ c.at \in Places /\ c.rec \in Records
  BY Typed DEF AtomInv, TxnInv, StrayInv, StraysLive, TypeInv, StrayT, BegunT, CopyType, Places
<1>1. ASSUME stray' \subseteq stray, UNCHANGED <<within, begun>>, coord'.bumps = coord.bumps,
             coord'.epoch = coord.epoch \/ coord'.epoch = coord.epoch + 1
      PROVE  StrayIn'
  BY <1>0, <1>1 DEF StrayIn
<1>2. CASE begin
  <2>1. Shut /\ begun' = begun + 1 /\ UNCHANGED <<stray, coord, within>> BY <1>2 DEF begin, Shut
  <2>2. ASSUME NEW c \in stray, c.inTxn, coord.bumps, c.epoch = coord.epoch PROVE FALSE
    <3>1. Live(c.at, c.epoch) /\ coord.status # "ongoing"
      BY <2>1, <2>2 DEF StrayInv, StraysLive, AtomInv, DecidedOK
    <3>2. fence[c.at] \in Nat /\ fence[c.at] <= coord.epoch BY <1>0 DEF EpochsOK
    <3> QED BY <1>0, <2>2, <3>1, <3>2 DEF Live
  <2> QED BY <1>0, <2>1, <2>2 DEF StrayIn
<1>3. CASE Enqueue
  <2>1. txn.open /\ within' = [within EXCEPT ![handed + 1] = begun] /\ UNCHANGED <<stray, coord, begun>>
    BY <1>3 DEF Enqueue
  <2>2. begun \in 1..begun BY <1>0, <2>1 DEF AtomInv, BegunOK
  <2>3. \A r \in Records : within'[r] \in {within[r], begun} BY <1>0, <2>1 DEF TypeInv, HandT
  <2> QED BY <1>0, <2>1, <2>2, <2>3 DEF StrayIn
<1>4. CASE (AppNext \/ ActorNext) /\ ~begin /\ ~Enqueue
  <2>1. UNCHANGED <<stray, coord, within, begun>>
    BY <1>4 DEF AppNext, StartInit, FinishInit, SendOffsets, OffsetsAdded, OffsetsSent, StartEnd, SendEnd,
                FinishEnd, ActorNext, HandleAppend, HandleFlush, FindMissing, StartEnrol, FinishEnrol,
                Dispatch, HandleCompleted
  <2> QED BY <1>1, <2>1
<1>5. CASE ServeInit \/ RivalClaims
  <2>1. Claimed /\ UNCHANGED <<stray, within, begun>> BY <1>5 DEF ServeInit, RivalClaims, strays, others
  <2>2. coord'.epoch = coord.epoch + 1 /\ coord'.bumps = coord.bumps BY <1>0, <2>1, ClaimedT
  <2> QED BY <1>1, <2>1, <2>2
<1>6. ASSUME NEW a \in {"app", "actor"}, ServeAdd(a) PROVE StrayIn'
  <2> DEFINE parts == IF coord.status = "ongoing" THEN coord.parts \cup ask[a].parts ELSE ask[a].parts
  <2>1. /\ coord' = coord \/ coord' = [coord EXCEPT !.parts = parts, !.status = "ongoing"]
        /\ UNCHANGED <<stray, within, begun>>
    BY <1>6 DEF ServeAdd, strays, others
  <2> HIDE DEF parts
  <2>2. coord'.epoch = coord.epoch /\ coord'.bumps = coord.bumps BY <1>0, <2>1 DEF TypeInv, CoordT, CoordType
  <2> QED BY <1>1, <2>1, <2>2
<1>7. ASSUME NEW op \in {"commit", "abort"}, ServeEnd(op) PROVE StrayIn'
  <2>1. UNCHANGED <<stray, within, begun>> BY <1>7 DEF ServeEnd, strays, others
  <2>2. PICK e \in Nat : UNCHANGED brokerVars \/ EndsAt(op, e) BY <1>0, <1>7, ServeEndEnds
  <2>3. CASE EndsAt(op, e)
    <3>1. PICK fate : coord' = [coord EXCEPT !.epoch = e, !.parts = {}, !.status = fate] BY <2>3 DEF EndsAt
    <3>2. coord'.epoch = e /\ coord'.bumps = coord.bumps BY <1>0, <3>1 DEF TypeInv, CoordT, CoordType
    <3>3. e = coord.epoch \/ e = coord.epoch + 1 BY <2>3 DEF EndsAt
    <3> QED BY <1>1, <2>1, <3>2, <3>3
  <2> QED BY <1>1, <2>1, <2>2, <2>3
<1>8. CASE ServeOffsets \/ ServeLate \/ \E a \in {"app", "actor"} : NotServed(a)
  <2>1. stray' \subseteq stray /\ UNCHANGED <<coord, within, begun>>
    BY <1>8 DEF ServeOffsets, ServeLate, NotServed, strays, others
  <2> QED BY <1>1, <2>1
<1>9. ASSUME NEW p \in Partitions, Sends(p) PROVE StrayIn'
  <2>1. /\ flight[p] # NoBatch /\ UNCHANGED <<coord, within, begun>>
        /\ UNCHANGED stray \/ stray' = stray \cup {Copy(p)}
    BY <1>0, <1>9, SendEnds
  <2>2. within[Copy(p).rec] = begun BY <2>1 DEF Copy, AtomInv, WithinOK, FlightIn
  <2>3. begun \in 1..begun
    <3>1. ~Idle BY <2>1 DEF Idle, Empty
    <3> QED BY <1>0, <3>1 DEF AtomInv, BegunOK
  <2> QED BY <2>1, <2>2, <2>3 DEF StrayIn
<1> QED BY <1>2, <1>3, <1>4, <1>5, <1>6, <1>7, <1>8, <1>9 DEF Next, BrokerNext, Sends

AtomStray == AtomInv /\ StrayInv /\ StrayIn

LEMMA AtomStep == AtomStray /\ [Next]_vars => AtomStray'
<1>1. AtomStray /\ Next => AtomInv' BY AtomApp, AtomActor, AtomBroker DEF Next, AtomStray
<1>2. AtomStray /\ [Next]_vars => StrayInv' BY TxnStep DEF AtomStray, AtomInv
<1>3. AtomStray /\ Next => StrayIn' BY StrayInStep DEF AtomStray
<1>4. AtomStray /\ UNCHANGED vars => AtomInv' /\ StrayIn' BY AtomStutter DEF AtomStray, vars, StrayIn
<1> QED BY <1>1, <1>2, <1>3, <1>4 DEF AtomStray

LEMMA AtomStrayInit == Init => AtomStray
<1>1. Init => StrayIn BY DEF Init, StrayIn
<1> QED BY <1>1, AtomInit, StrayInit DEF AtomStray

(* A transaction ends as one: for any number of partitions, transactions,  *)
(* lost answers, retried EndTxn, late Produce requests and rival claims,   *)
(* no two writes of it have different fates, and no application is told of *)
(* another fate than the one they have (Transactions::end, note;           *)
(* producer.rs commit_transaction and abort_transaction; send_group).  The *)
(* one exception is a record whose send was given up while its outcome was *)
(* unknown, under a coordinator that does not bump the epoch (Doubtful).   *)
THEOREM EndsAsOne == Spec => []AllOrNothing
<1>1. AtomStray => AllOrNothing BY AtomImplies DEF AtomStray
<1> QED BY AtomStrayInit, AtomStep, <1>1, PTL DEF Spec
=============================================================================

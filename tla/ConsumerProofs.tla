--------------------------- MODULE ConsumerProofs ---------------------------
(***************************************************************************)
(* Proofs about the manually assigned consumer, for every set of           *)
(* partitions and brokers, every log, visibility and size of a fetch, and  *)
(* any number of dropped sessions, lost responses, abandoned polls, leader *)
(* changes, deletions and restarts: a broker which would accept the next   *)
(* incremental fetch holds what the consumer takes it to hold; no record   *)
(* is skipped; and the consumer implements Cursor.  And about the members  *)
(* of a group, of either protocol, for any number of members, topics and   *)
(* records, any assignor and any number of faults: who loses a partition   *)
(* was told, commits never run ahead of what was delivered, and in a       *)
(* KIP-848 group no partition has two owners.                              *)
(***************************************************************************)
EXTENDS Consumer, NegotiatedConsumer, DecodeProofs

IsFcn(f) == f = [x \in DOMAIN f |-> f[x]]
IsSession(s) == DOMAIN s = {"id", "epoch", "known"} /\ s.epoch \in Int /\ IsFcn(s.known)
IsCache(c) == DOMAIN c = {"id", "epoch", "parts"} /\ c.epoch \in Int /\ IsFcn(c.parts)

(* A session the broker would still accept is one the two sides agree on.  *)
Agree(s, c) == s.id # NO_SESSION /\ s.id = c.id /\ s.epoch = Expects(c) => s.known = c.parts

SessionShape ==
  /\ caches = [b \in Brokers |-> caches[b]] /\ \A b \in Brokers : IsCache(caches[b])
  /\ DOMAIN fetchers \subseteq Brokers /\ \A b \in DOMAIN fetchers : IsSession(fetchers[b])
  /\ \A b \in DOMAIN round : IsFcn(round[b])
  /\ DOMAIN doubt = {"unsent", "lost", "skipped"}

(* The inductive invariant.                                                *)
SessionInv == SessionShape /\ SessionAgrees

-----------------------------------------------------------------------------
(* One request of a session.                                               *)

LEMMA FreshShape == IsSession(FreshSession) /\ FreshSession.id = NO_SESSION /\ IsCache(NoCache)
BY DEF IsSession, IsCache, FreshSession, NoCache, IsFcn, INITIAL_EPOCH

(* What a request carries (FetchSession::next).                            *)
LEMMA NextFacts ==
  ASSUME NEW s, IsSession(s), NEW wanted, IsFcn(wanted)
  PROVE  LET n == next(s, wanted)
         IN /\ IsSession(n.session) /\ n.session.id = s.id /\ n.session.epoch = s.epoch
            /\ n.session.known = wanted
            /\ n.delta.id = s.id
            /\ s.id # NO_SESSION => n.delta.epoch = s.epoch
            /\ s.id = NO_SESSION => n.delta.epoch = INITIAL_EPOCH /\ n.delta.include = wanted
BY DEF next, IsSession, IsFcn

LEMMA NewIdIsNew ==
  ASSUME NEW s, NEW c
  PROVE  NewId(s, c) # NO_SESSION
<1>1. \E i \in 1..3 : i \notin {s.id, c.id}
  <2>1. 1 \in 1..3 /\ 2 \in 1..3 /\ 3 \in 1..3 OBVIOUS
  <2> QED BY <2>1
<1>2. NewId(s, c) \in 1..3 BY <1>1 DEF NewId
<1> QED BY <1>2 DEF NO_SESSION

(* A full request opens a session on which the two sides agree.            *)
LEMMA OpenedAgrees ==
  ASSUME NEW s, IsSession(s), s.id = NO_SESSION, NEW c, IsCache(c), NEW wanted, IsFcn(wanted), NEW grant
  PROVE  LET n == next(s, wanted)
             t == accept(n.session, grant, n.delta.epoch)
             d == Cached(c, n.delta, grant)
         IN IsSession(t) /\ IsCache(d) /\ Agree(t, d)
<1> DEFINE n == next(s, wanted)
           t == accept(n.session, grant, n.delta.epoch)
           d == Cached(c, n.delta, grant)
<1>1. /\ IsSession(n.session) /\ n.session.known = wanted /\ n.delta.id = NO_SESSION
      /\ n.delta.epoch = INITIAL_EPOCH /\ n.delta.include = wanted
  BY NextFacts
<1> HIDE DEF n
<1>2. IsSession(t) /\ t.id = grant /\ t.known = wanted
  BY <1>1, SessionAssumption DEF accept, IsSession, INITIAL_EPOCH
<1>3. IsCache(d) /\ (grant # NO_SESSION => d.parts = wanted) BY <1>1 DEF Cached, IsCache, INITIAL_EPOCH
<1> HIDE DEF t, d
<1>4. Agree(t, d) BY <1>2, <1>3 DEF Agree
<1> QED BY <1>2, <1>3, <1>4 DEF t, d, n

(* The cache after an incremental request that it does not refuse.         *)
LEMMA ServedFacts ==
  ASSUME NEW s, IsSession(s), s.id # NO_SESSION, NEW c, IsCache(c), NEW wanted, IsFcn(wanted), NEW grant
  PROVE  LET n == next(s, wanted)
             d == Cached(c, n.delta, grant)
         IN /\ IsCache(d) /\ d.id = c.id /\ d.epoch = s.epoch
            /\ s.known = c.parts => d.parts = wanted
            /\ s.epoch # Expects(d)
            /\ Refuses(d, n.delta)
<1> DEFINE n == next(s, wanted)
           d == Cached(c, n.delta, grant)
           news == {p \in DOMAIN wanted : ~(p \in DOMAIN s.known /\ s.known[p] = wanted[p])}
           kept == DOMAIN c.parts \ (DOMAIN s.known \ DOMAIN wanted)
           merged == [p \in kept \cup news |-> IF p \in news THEN wanted[p] ELSE c.parts[p]]
<1>1. /\ n.delta.id = s.id /\ n.delta.epoch = s.epoch
      /\ n.delta.include = [p \in news |-> wanted[p]]
      /\ n.delta.forget = DOMAIN s.known \ DOMAIN wanted
  BY DEF next
<1> HIDE DEF n
<1>2. d = [c EXCEPT !.epoch = s.epoch, !.parts = merged] BY <1>1 DEF Cached
<1>3. IsFcn(merged) BY DEF IsFcn
<1>4. s.known = c.parts => merged = wanted
  <2> SUFFICES ASSUME s.known = c.parts
               PROVE  merged = wanted
    OBVIOUS
  <2>1. kept \cup news = DOMAIN wanted OBVIOUS
  <2>2. \A p \in DOMAIN wanted : merged[p] = wanted[p] BY <2>1
  <2>3. merged = [p \in DOMAIN wanted |-> wanted[p]] BY <2>1, <2>2
  <2> QED BY <2>3 DEF IsFcn
<1> HIDE DEF merged
<1>5. IsCache(d) /\ d.id = c.id /\ d.epoch = s.epoch /\ d.parts = merged BY <1>2, <1>3 DEF IsCache, IsSession
<1> HIDE DEF d
<1>6. s.epoch # Expects(d) BY <1>5, SessionAssumption DEF Expects, IsSession
<1>7. Refuses(d, n.delta) BY <1>1, <1>6 DEF Refuses
<1> QED BY <1>4, <1>5, <1>6, <1>7 DEF d, n

(* An incremental request that is served keeps the agreement.              *)
LEMMA ServedAgrees ==
  ASSUME NEW s, IsSession(s), s.id # NO_SESSION, NEW c, IsCache(c), NEW wanted, IsFcn(wanted), NEW grant,
         ~Refuses(c, next(s, wanted).delta)
  PROVE  LET n == next(s, wanted)
             t == accept(n.session, n.delta.id, n.delta.epoch)
             d == Cached(c, n.delta, grant)
         IN IsSession(t) /\ IsCache(d) /\ (Agree(s, c) => Agree(t, d))
<1> DEFINE n == next(s, wanted)
           t == accept(n.session, n.delta.id, n.delta.epoch)
           d == Cached(c, n.delta, grant)
<1>1. /\ IsSession(n.session) /\ n.session.known = wanted /\ n.delta.id = s.id /\ n.delta.epoch = s.epoch
  BY NextFacts
<1>2. IsCache(d) /\ d.epoch = s.epoch /\ (s.known = c.parts => d.parts = wanted) BY ServedFacts
<1>3. Agree(s, c) => s.known = c.parts BY <1>1 DEF Agree, Refuses
<1> HIDE DEF n
<1>4. IsSession(t) /\ t.known = wanted BY <1>1, SessionAssumption DEF accept, IsSession
<1> QED BY <1>2, <1>3, <1>4 DEF Agree, n

-----------------------------------------------------------------------------
(* The steps.                                                              *)

(* A step that changes the session with one broker, and that broker's      *)
(* cache, to what agree keeps the invariant.                               *)
LEMMA OneBroker ==
  ASSUME SessionInv, NEW b \in Brokers, NEW s, NEW c, IsSession(s), IsCache(c),
         b \notin doubt'.unsent => Agree(s, c),
         doubt.unsent \ {b} \subseteq doubt'.unsent, DOMAIN doubt' = {"unsent", "lost", "skipped"},
         caches' = [caches EXCEPT ![b] = c],
         fetchers' = [x \in DOMAIN fetchers \cup {b} |-> IF x = b THEN s ELSE fetchers[x]],
         \A x \in DOMAIN round' : IsFcn(round'[x])
  PROVE  SessionInv'
<1>1. caches' = [x \in Brokers |-> caches'[x]] /\ \A x \in Brokers : caches'[x] = IF x = b THEN c ELSE caches[x]
  BY DEF SessionInv, SessionShape
<1>2. /\ DOMAIN fetchers' = DOMAIN fetchers \cup {b}
      /\ fetchers'[b] = s
      /\ \A x \in DOMAIN fetchers \ {b} : fetchers'[x] = fetchers[x]
  OBVIOUS
<1>3. SessionShape'
  <2>1. \A x \in Brokers : IsCache(caches'[x]) BY <1>1 DEF SessionInv, SessionShape
  <2>2. DOMAIN fetchers' \subseteq Brokers /\ \A x \in DOMAIN fetchers' : IsSession(fetchers'[x])
    BY <1>2 DEF SessionInv, SessionShape
  <2>3. /\ \A x \in Brokers : IsCache(caches[x])'
        /\ \A x \in DOMAIN fetchers' : IsSession(fetchers[x])'
        /\ \A x \in DOMAIN round' : IsFcn(round[x])'
    BY <2>1, <2>2 DEF IsCache, IsSession, IsFcn
  <2> QED BY <1>1, <2>2, <2>3 DEF SessionShape
<1>4. ASSUME NEW x \in DOMAIN fetchers', x \notin doubt'.unsent
      PROVE  Agree(fetchers'[x], caches'[x])
  <2>1. CASE x = b BY <1>1, <1>2, <1>4, <2>1
  <2>2. CASE x # b
    <3>1. x \in DOMAIN fetchers \ doubt.unsent /\ x \in Brokers
      BY <1>2, <1>4, <2>2 DEF SessionInv, SessionShape
    <3>2. Agree(fetchers[x], caches[x]) BY <3>1 DEF SessionInv, SessionAgrees, Agree
    <3> QED BY <1>1, <1>2, <2>2, <3>1, <3>2
  <2> QED BY <2>1, <2>2
<1>5. SessionAgrees' BY <1>4 DEF SessionAgrees, Agree, Expects
<1> QED BY <1>3, <1>5 DEF SessionInv

(* A request that is answered, the first or the one that repeats it in     *)
(* full (BrokerFetcher::fetch).                                            *)
LEMMA FetchStep ==
  ASSUME SessionInv, NEW b \in Brokers, FetchFrom(b)
  PROVE  SessionInv'
<1>1. PICK room \in BOOLEAN, anew \in BOOLEAN : Fetched(b, room, anew) BY Zenon DEF FetchFrom
<1> DEFINE s        == SessionOf(b)
           w        == round[b]
           first    == next(s, w)
           resent   == IF anew /\ ~Refuses(caches[b], first.delta)
                       THEN Cached(caches[b], first.delta, NewId(s, caches[b]))
                       ELSE caches[b]
           grant    == IF room THEN NewId(s, resent) ELSE NO_SESSION
           sent     == IF Refuses(resent, first.delta) THEN next(reset, w) ELSE first
           id       == IF sent.delta.id = NO_SESSION THEN grant ELSE sent.delta.id
           t        == accept(sent.session, id, sent.delta.epoch)
           d        == Cached(resent, sent.delta, grant)
<1>2. /\ caches' = [caches EXCEPT ![b] = d]
      /\ fetchers' = [x \in DOMAIN fetchers \cup {b} |-> IF x = b THEN t ELSE fetchers[x]]
      /\ round' = [x \in DOMAIN round \ {b} |-> round[x]]
      /\ DOMAIN doubt' = {"unsent", "lost", "skipped"}
      /\ doubt'.unsent = IF sent.delta.id = NO_SESSION THEN doubt.unsent \ {b} ELSE doubt.unsent
  <2>1. /\ caches' = [caches EXCEPT ![b] = d]
        /\ fetchers' = [x \in DOMAIN fetchers \cup {b} |-> IF x = b THEN t ELSE fetchers[x]]
        /\ round' = [x \in DOMAIN round \ {b} |-> round[x]]
    BY <1>1, Zenon DEF Fetched
  <2>2. \E lost, skipped :
          doubt' = [unsent  |-> IF sent.delta.id = NO_SESSION THEN doubt.unsent \ {b} ELSE doubt.unsent,
                    lost    |-> lost,
                    skipped |-> skipped]
    BY <1>1, Zenon DEF Fetched
  <2> HIDE DEF sent, d, t
  <2> QED BY <2>1, <2>2
<1>3. IsSession(s) /\ IsFcn(w) /\ IsCache(caches[b]) /\ b \in DOMAIN round
  BY FreshShape DEF SessionOf, SessionInv, SessionShape, FetchFrom
<1>4. b \notin doubt.unsent => Agree(s, caches[b])
  BY FreshShape DEF SessionOf, SessionInv, SessionAgrees, Agree
<1>5. IsCache(resent)
  <2>1. CASE s.id = NO_SESSION BY <1>3, <2>1, OpenedAgrees
  <2>2. CASE s.id # NO_SESSION BY <1>3, <2>2, ServedFacts
  <2> QED BY <2>1, <2>2
<1>6. \A x \in DOMAIN round' : IsFcn(round'[x]) BY <1>2 DEF SessionInv, SessionShape
<1>7. CASE s.id = NO_SESSION
  <2>1. first.delta.id = NO_SESSION BY <1>3, <1>7, NextFacts
  <2>2. sent = first BY <2>1 DEF Refuses
  <2>3. IsSession(t) /\ IsCache(d) /\ Agree(t, d)
    <3> HIDE DEF resent, grant
    <3> QED BY <1>3, <1>5, <1>7, <2>1, <2>2, OpenedAgrees
  <2> HIDE DEF t, d
  <2> QED BY <1>2, <1>6, <2>3, OneBroker
<1>8. CASE s.id # NO_SESSION /\ Refuses(resent, first.delta)
  <2>1. sent = next(FreshSession, w) /\ sent.delta.id = NO_SESSION
    BY <1>3, <1>8, FreshShape, NextFacts DEF reset
  <2>2. IsSession(t) /\ IsCache(d) /\ Agree(t, d)
    <3> HIDE DEF resent, grant
    <3> QED BY <1>3, <1>5, <2>1, FreshShape, OpenedAgrees
  <2> HIDE DEF t, d
  <2> QED BY <1>2, <1>6, <2>2, OneBroker
<1>9. CASE s.id # NO_SESSION /\ ~Refuses(resent, first.delta)
  <2>1. resent = caches[b] BY <1>3, <1>9, ServedFacts
  <2>2. sent = first /\ sent.delta.id = s.id BY <1>3, <1>9, NextFacts
  <2>3. IsSession(t) /\ IsCache(d) /\ (Agree(s, caches[b]) => Agree(t, d))
    <3> HIDE DEF grant
    <3> QED BY <1>3, <1>9, <2>1, <2>2, ServedAgrees
  <2>4. doubt'.unsent = doubt.unsent BY <1>2, <1>9, <2>2
  <2> HIDE DEF t, d
  <2> QED BY <1>2, <1>4, <1>6, <2>3, <2>4, OneBroker
<1> QED BY <1>7, <1>8, <1>9

(* A request that is given up: either the broker never saw it, and the     *)
(* session is in doubt, or it did and now expects another epoch.           *)
LEMMA AbortedStep ==
  ASSUME SessionInv, NEW b \in Brokers, FetchAborted(b)
  PROVE  SessionInv'
<1> DEFINE s    == SessionOf(b)
           sent == next(s, round[b])
           d    == Cached(caches[b], sent.delta, NewId(s, caches[b]))
<1>1. PICK reached \in BOOLEAN :
        /\ fetchers' = [x \in DOMAIN fetchers \cup {b} |-> IF x = b THEN sent.session ELSE fetchers[x]]
        /\ caches' = IF reached /\ ~Refuses(caches[b], sent.delta)
                     THEN [caches EXCEPT ![b] = Cached(@, sent.delta, NewId(s, caches[b]))] ELSE caches
        /\ doubt' = IF reached THEN doubt ELSE [doubt EXCEPT !.unsent = @ \cup {b}]
        /\ round' = <<>> /\ b \in DOMAIN round
  BY Zenon DEF FetchAborted
<1>2. IsSession(s) /\ IsFcn(round[b]) /\ IsCache(caches[b]) /\ DOMAIN caches = Brokers
  BY <1>1, FreshShape DEF SessionOf, SessionInv, SessionShape
<1>3. b \notin doubt.unsent => Agree(s, caches[b])
  BY FreshShape DEF SessionOf, SessionInv, SessionAgrees, Agree
<1>4. /\ IsSession(sent.session) /\ sent.session.id = s.id /\ sent.session.epoch = s.epoch
      /\ sent.delta.id = s.id /\ (s.id # NO_SESSION => sent.delta.epoch = s.epoch)
  BY <1>2, NextFacts
<1>5. \A x \in DOMAIN round' : IsFcn(round'[x]) BY <1>1
<1>6. /\ doubt.unsent \ {b} \subseteq doubt'.unsent /\ DOMAIN doubt' = {"unsent", "lost", "skipped"}
      /\ ~reached => b \in doubt'.unsent
  BY <1>1 DEF SessionInv, SessionShape
<1>7. CASE reached /\ ~Refuses(caches[b], sent.delta)
  <2>1. IsCache(d)
    <3>1. CASE s.id = NO_SESSION BY <1>2, <3>1, OpenedAgrees
    <3>2. CASE s.id # NO_SESSION BY <1>2, <3>2, ServedFacts
    <3> QED BY <3>1, <3>2
  <2>2. Agree(sent.session, d)
    <3>1. CASE s.id = NO_SESSION BY <1>4, <3>1 DEF Agree
    <3>2. CASE s.id # NO_SESSION
      <4>1. s.epoch # Expects(d) BY <1>2, <3>2, ServedFacts
      <4> HIDE DEF d, sent
      <4> QED BY <1>4, <4>1 DEF Agree
    <3> QED BY <3>1, <3>2
  <2>3. caches' = [caches EXCEPT ![b] = d] BY <1>1, <1>7
  <2> HIDE DEF d, sent
  <2> QED BY <1>1, <1>4, <1>5, <1>6, <2>1, <2>2, <2>3, OneBroker
<1>8. CASE ~(reached /\ ~Refuses(caches[b], sent.delta))
  <2>1. caches' = caches BY <1>1, <1>8
  <2>2. caches = [x \in Brokers |-> caches[x]] BY DEF SessionInv, SessionShape
  <2>3. caches' = [caches EXCEPT ![b] = caches[b]] BY <2>1, <2>2
  <2>4. b \notin doubt'.unsent => Agree(sent.session, caches[b])
    <3>1. CASE s.id = NO_SESSION BY <1>4, <3>1 DEF Agree
    <3>2. CASE s.id # NO_SESSION /\ b \notin doubt'.unsent
      <4>1. Refuses(caches[b], sent.delta) BY <1>6, <1>8, <3>2
      <4> HIDE DEF sent
      <4> QED BY <1>4, <3>2, <4>1 DEF Agree, Refuses
    <3> QED BY <3>1, <3>2
  <2> HIDE DEF sent
  <2> QED BY <1>1, <1>2, <1>4, <1>5, <1>6, <2>3, <2>4, OneBroker
<1> QED BY <1>7, <1>8

(* A poll begins: it drops fetchers without a session.                     *)
LEMMA PollTypes ==
  ASSUME SessionInv, PollStart
  PROVE  SessionInv'
<1> DEFINE active == { p \in DOMAIN assignment : ~assignment[p].paused /\ Resolved[p] # NoLeader }
           leaders == { Resolved[p] : p \in active }
           live == { b \in DOMAIN fetchers : b \in leaders \/ fetchers[b].id # NO_SESSION }
           wanted(b) == [p \in { q \in active : Resolved[q] = b } |-> assignment[p].position]
<1>1. /\ fetchers' = [b \in live |-> fetchers[b]]
      /\ round' = [b \in leaders \cup live |-> wanted(b)]
      /\ caches' = caches /\ doubt' = doubt
  BY Zenon DEF PollStart, brokerVars, historyVars
<1>2. live \subseteq DOMAIN fetchers /\ \A b : IsFcn(wanted(b)) BY DEF IsFcn
<1> HIDE DEF live, leaders, wanted
<1>3. /\ DOMAIN fetchers' \subseteq DOMAIN fetchers
      /\ \A b \in DOMAIN fetchers' : fetchers'[b] = fetchers[b]
  BY <1>1, <1>2
<1>4. \A b \in DOMAIN round' : IsFcn(round'[b]) BY <1>1, <1>2
<1>5. SessionShape' BY <1>1, <1>3, <1>4 DEF SessionInv, SessionShape, IsSession, IsCache, IsFcn
<1>6. SessionAgrees' BY <1>1, <1>3 DEF SessionInv, SessionAgrees, Expects
<1> QED BY <1>5, <1>6 DEF SessionInv

(* Steps that touch neither the sessions nor the caches.                   *)
LEMMA SameSessions ==
  ASSUME SessionInv, UNCHANGED <<caches, fetchers, round>>, doubt'.unsent = doubt.unsent,
         DOMAIN doubt' = DOMAIN doubt
  PROVE  SessionInv'
BY DEF SessionInv, SessionShape, SessionAgrees, IsSession, IsCache, IsFcn, Expects

(* The broker drops the session: it accepts no incremental request.        *)
LEMMA EvictStep ==
  ASSUME SessionInv, NEW b \in Brokers, Evict(b)
  PROVE  SessionInv'
<1>1. caches' = [caches EXCEPT ![b] = NoCache] /\ UNCHANGED <<fetchers, round, doubt>>
  BY DEF Evict, clientVars, historyVars
<1>2. caches' = [x \in Brokers |-> caches'[x]] /\ \A x \in Brokers : caches'[x] = IF x = b THEN NoCache ELSE caches[x]
  BY <1>1 DEF SessionInv, SessionShape
<1>3. SessionShape'
  <2>1. \A x \in Brokers : IsCache(caches'[x]) BY <1>2, FreshShape DEF SessionInv, SessionShape
  <2>2. \A x \in Brokers : IsCache(caches[x])' BY <2>1 DEF IsCache, IsFcn
  <2>3. \A x \in DOMAIN fetchers' : IsSession(fetchers[x])'
    BY <1>1 DEF SessionInv, SessionShape, IsSession, IsFcn
  <2>4. \A x \in DOMAIN round' : IsFcn(round[x])' BY <1>1 DEF SessionInv, SessionShape, IsFcn
  <2> QED BY <1>1, <1>2, <2>2, <2>3, <2>4 DEF SessionInv, SessionShape
<1>4. SessionAgrees' BY <1>1, <1>2 DEF SessionInv, SessionShape, SessionAgrees, Expects, NoCache
<1> QED BY <1>3, <1>4 DEF SessionInv

LEMMA RestartStep ==
  ASSUME SessionInv, Restart
  PROVE  SessionInv'
<1>1. fetchers' = <<>> /\ round' = <<>> /\ caches' = caches BY DEF Restart, brokerVars
<1>2. DOMAIN doubt' = DOMAIN doubt BY DEF Restart
<1>3. DOMAIN fetchers' = {} /\ DOMAIN round' = {} BY <1>1
<1>4. SessionShape' BY <1>1, <1>2, <1>3 DEF SessionInv, SessionShape, IsCache, IsFcn
<1> QED BY <1>3, <1>4 DEF SessionInv, SessionAgrees

LEMMA SessionInit == ConsumerInit => SessionInv
<1> SUFFICES ASSUME ConsumerInit
             PROVE  SessionInv
  OBVIOUS
<1>1. DOMAIN fetchers = {} /\ DOMAIN round = {} BY DEF ConsumerInit
<1>2. caches = [b \in Brokers |-> caches[b]] /\ \A b \in Brokers : IsCache(caches[b])
  BY FreshShape DEF ConsumerInit
<1> QED BY <1>1, <1>2 DEF ConsumerInit, SessionInv, SessionShape, SessionAgrees

LEMMA SessionStep == SessionInv /\ [ConsumerNext]_consumerVars => SessionInv'
<1> SUFFICES ASSUME SessionInv, [ConsumerNext]_consumerVars
             PROVE  SessionInv'
  OBVIOUS
<1>1. CASE PollBuffered BY <1>1, SameSessions DEF PollBuffered, brokerVars
<1>2. CASE PollStart BY <1>2, PollTypes
<1>3. CASE \E b \in Brokers : FetchFrom(b) BY <1>3, FetchStep
<1>4. CASE \E parts \in SUBSET Partitions \ {{}}, from \in {"Earliest", "Latest"} : assign(parts, from)
  BY <1>4, SameSessions DEF assign, brokerVars, SessionInv, SessionShape
<1>5. CASE \E p \in Partitions, o \in Starts : seek(p, o)
  BY <1>5, SameSessions DEF seek, brokerVars, SessionInv, SessionShape
<1>6. CASE \E p \in Partitions, on \in BOOLEAN : SetPaused(p, on)
  BY <1>6, SameSessions DEF SetPaused, brokerVars, historyVars
<1>7. CASE commit BY <1>7, SameSessions DEF commit, clientVars, SessionInv, SessionShape
<1>8. CASE seek_to_committed BY <1>8, SameSessions DEF seek_to_committed, brokerVars, SessionInv, SessionShape
<1>9. CASE Restart BY <1>9, RestartStep
<1>10. CASE Cluster
  <2>1. CASE \E p \in Partitions : Grow(p) \/ DeleteFirst(p)
    BY <2>1, SameSessions DEF Grow, DeleteFirst, clientVars, historyVars
  <2>2. CASE \E p \in Partitions, b \in Brokers \cup {NoLeader} : LeaderMoves(p, b)
    BY <2>2, SameSessions DEF LeaderMoves, clientVars, historyVars
  <2>3. CASE \E p \in Partitions, b \in Brokers : LeaderElected(p, b)
    BY <2>3, SameSessions DEF LeaderElected, clientVars, historyVars
  <2>4. CASE \E b \in Brokers : Evict(b) BY <2>4, EvictStep
  <2> QED BY <1>10, <2>1, <2>2, <2>3, <2>4 DEF Cluster
<1>11. CASE \E b \in Brokers : FetchAborted(b) BY <1>11, AbortedStep
<1>12. CASE UNCHANGED consumerVars
  BY <1>12, SameSessions DEF consumerVars, brokerVars, clientVars, historyVars
<1> QED BY <1>1, <1>2, <1>3, <1>4, <1>5, <1>6, <1>7, <1>8, <1>9, <1>10, <1>11, <1>12
        DEF ConsumerNext, Poll, Application

(* The broker and the consumer agree on the session.                       *)
(* As long as a broker would accept the next incremental fetch             *)
(* (FetchSession::next), it holds of every partition what the consumer     *)
(* takes it to hold, whatever was lost, repeated, dropped or moved.        *)
THEOREM SessionsAgree == ConsumerSpecification => []SessionAgrees
<1>1. SessionInv => SessionAgrees BY DEF SessionInv
<1> QED BY <1>1, SessionInit, SessionStep, PTL DEF ConsumerSpecification

-----------------------------------------------------------------------------
(* What an answer yields *)

(* The loop of fetch_once over the outcomes, turn by turn.                 *)
AcceptIter(base, s, S, it) ==
  it = [t \in SUBSET S |-> IF t = {} THEN base ELSE Accept(it[t \ {Max(t)}], s[Max(t)])]

LEMMA AcceptIterExists ==
  ASSUME NEW base, NEW s, NEW n \in Nat
  PROVE  \E it : AcceptIter(base, s, 1..n, it)
<1> DEFINE T == {k \in Nat : \E it : AcceptIter(base, s, 1..k, it)}
<1>1. 0 \in T
  <2>1. SUBSET (1..0) = {{}} OBVIOUS
  <2>2. AcceptIter(base, s, 1..0, [t \in SUBSET (1..0) |-> base]) BY <2>1 DEF AcceptIter
  <2> QED BY <2>2
<1>2. ASSUME NEW k \in Nat, k \in T
      PROVE  k + 1 \in T
  <2>1. PICK it : AcceptIter(base, s, 1..k, it) BY <1>2
  <2> DEFINE more == [t \in SUBSET (1..(k + 1)) |->
                        IF k + 1 \in t THEN Accept(it[t \ {k + 1}], s[k + 1]) ELSE it[t]]
  <2>2. ASSUME NEW t \in SUBSET (1..(k + 1))
        PROVE  more[t] = IF t = {} THEN base ELSE Accept(more[t \ {Max(t)}], s[Max(t)])
    <3>1. CASE k + 1 \in t
      <4>1. Max(t) = k + 1
        <5>1. Max(t) \in t /\ \A y \in t : Max(t) >= y
          <6>1. t \subseteq 0..(k + 1) /\ t # {} /\ k + 1 \in Nat BY <3>1
          <6> QED BY <6>1, GreatestOf
        <5>2. Max(t) \in 1..(k + 1) /\ Max(t) >= k + 1 BY <5>1, <3>1
        <5> QED BY <5>2
      <4>2. t \ {k + 1} \in SUBSET (1..(k + 1)) /\ k + 1 \notin t \ {k + 1} OBVIOUS
      <4>3. more[t \ {k + 1}] = it[t \ {k + 1}] BY <4>2
      <4> QED BY <3>1, <4>1, <4>3
    <3>2. CASE k + 1 \notin t
      <4>1. t \in SUBSET (1..k) BY <3>2
      <4>2. it[t] = IF t = {} THEN base ELSE Accept(it[t \ {Max(t)}], s[Max(t)]) BY <2>1, <4>1 DEF AcceptIter
      <4>3. t # {} => more[t \ {Max(t)}] = it[t \ {Max(t)}]
        <5>1. t \ {Max(t)} \in SUBSET (1..(k + 1)) /\ k + 1 \notin t \ {Max(t)} BY <3>2
        <5> QED BY <5>1
      <4>4. more[t] = it[t] BY <3>2
      <4> QED BY <4>2, <4>3, <4>4
    <3> QED BY <3>1, <3>2
  <2>3. AcceptIter(base, s, 1..(k + 1), more) BY <2>2 DEF AcceptIter
  <2> QED BY <2>3
<1> HIDE DEF T
<1>3. n \in T BY <1>1, <1>2, NatSetInduction
<1> QED BY <1>3 DEF T

AcceptAll(base, s) == FoldLeft(Accept, base, s)

LEMMA AcceptTurns ==
  ASSUME NEW base, NEW s, NEW n \in Nat, DOMAIN s = 1..n
  PROVE  \E r : /\ r[0] = base
                /\ \A i \in 1..n : r[i] = Accept(r[i - 1], s[i])
                /\ AcceptAll(base, s) = r[n]
<1> DEFINE it == CHOOSE it : AcceptIter(base, s, 1..n, it)
<1>1. AcceptAll(base, s) = it[1..n] BY Zenon DEF AcceptAll, FoldLeft, MapThenFoldSet, AcceptIter
<1>2. AcceptIter(base, s, 1..n, it) BY AcceptIterExists
<1> HIDE DEF it
<1> DEFINE r == [i \in 0..n |-> it[1..i]]
<1>3. ASSUME NEW i \in 1..n
      PROVE  r[i] = Accept(r[i - 1], s[i])
  <2>1. (1..i) \in SUBSET (1..n) /\ 1..i # {} OBVIOUS
  <2>2. Max(1..i) = i
    <3>1. 1..i \subseteq 0..i /\ i \in Nat OBVIOUS
    <3>2. Max(1..i) \in 1..i /\ \A y \in 1..i : Max(1..i) >= y BY <2>1, <3>1, GreatestOf
    <3> QED BY <3>2
  <2>3. (1..i) \ {i} = 1..(i - 1) OBVIOUS
  <2>4. it[1..i] = Accept(it[1..(i - 1)], s[i]) BY <1>2, <2>1, <2>2, <2>3 DEF AcceptIter
  <2>5. r[i] = it[1..i] /\ r[i - 1] = it[1..(i - 1)] OBVIOUS
  <2> QED BY <2>4, <2>5
<1>4. r[0] = base
  <2>1. {} \in SUBSET (1..n) /\ 1..0 = {} OBVIOUS
  <2> QED BY <1>2, <2>1 DEF AcceptIter
<1>5. r[n] = it[1..n] OBVIOUS
<1> HIDE DEF r
<1> QED BY <1>1, <1>3, <1>4, <1>5

-----------------------------------------------------------------------------
(* The loop over the outcomes: everything from the position on is taken,   *)
(* in order.                                                               *)
AcceptInv(outs, pos, acc, j) ==
  /\ DOMAIN acc = {"position", "records"} /\ acc.position \in Int /\ acc.position >= pos
  /\ acc.records \in Seq(Nat) /\ Sorted(acc.records)
  /\ \A k \in DOMAIN acc.records : /\ pos <= acc.records[k] /\ acc.records[k] < acc.position
                                   /\ Has(outs, acc.records[k])
  /\ acc.position = pos \/ \E k \in 1..j : acc.position = outs[k].offset + 1
  /\ \A k \in 1..j : outs[k].ok /\ outs[k].offset >= pos => outs[k].offset \in ToSet(acc.records)

LEMMA AcceptStep ==
  ASSUME NEW outs \in Seq(Outcome), Rising(outs), NEW pos \in Int, NEW j \in Nat, j + 1 <= Len(outs),
         NEW acc, AcceptInv(outs, pos, acc, j)
  PROVE  AcceptInv(outs, pos, Accept(acc, outs[j + 1]), j + 1)
<1> DEFINE x == outs[j + 1]
           d == Accept(acc, x)
<1>1. /\ j + 1 \in DOMAIN outs /\ DOMAIN outs = 1..Len(outs) /\ Len(outs) \in Nat
      /\ x \in Outcome
  OBVIOUS
<1>2. x.offset \in Nat /\ x.ok \in BOOLEAN BY <1>1 DEF Outcome
<1>3. \A k \in 1..j : k \in DOMAIN outs /\ outs[k].offset \in Nat /\ outs[k].offset < x.offset
  <2> SUFFICES ASSUME NEW k \in 1..j
               PROVE  k \in DOMAIN outs /\ outs[k].offset \in Nat /\ outs[k].offset < x.offset
    OBVIOUS
  <2>1. k \in DOMAIN outs /\ k < j + 1 BY <1>1
  <2>2. outs[k] \in Outcome BY <2>1
  <2> QED BY <1>1, <2>1, <2>2 DEF Outcome, Rising
<1>4. /\ DOMAIN acc = {"position", "records"} /\ acc.position \in Int /\ acc.position >= pos
      /\ acc.records \in Seq(Nat) /\ Sorted(acc.records)
      /\ \A k \in DOMAIN acc.records : /\ pos <= acc.records[k] /\ acc.records[k] < acc.position
                                       /\ Has(outs, acc.records[k])
      /\ acc.position = pos \/ \E k \in 1..j : acc.position = outs[k].offset + 1
      /\ \A k \in 1..j : outs[k].ok /\ outs[k].offset >= pos => outs[k].offset \in ToSet(acc.records)
  BY DEF AcceptInv
<1>5. acc.position = pos \/ acc.position <= x.offset BY <1>2, <1>3, <1>4
<1>6. 1..(j + 1) = (1..j) \cup {j + 1} OBVIOUS
<1>7. j + 1 \in 1..(j + 1) OBVIOUS
<1>8. CASE x.ok /\ x.offset < acc.position
  <2>1. d = acc BY <1>8 DEF Accept
  <2>2. x.offset < pos BY <1>2, <1>4, <1>5, <1>8
  <2>3. ~(x.offset >= pos) BY <1>2, <2>2
  <2> QED BY <1>4, <1>6, <2>1, <2>3 DEF AcceptInv
<1>9. CASE x.ok /\ ~(x.offset < acc.position)
  <2>1. d = [position |-> x.offset + 1, records |-> Append(acc.records, x.offset)] BY <1>9 DEF Accept
  <2> DEFINE s == acc.records
             t == Append(s, x.offset)
  <2>2. DOMAIN d = {"position", "records"} /\ d.position = x.offset + 1 /\ d.records = t BY <2>1
  <2>3. /\ t \in Seq(Nat) /\ Len(s) \in Nat /\ Len(t) = Len(s) + 1 /\ DOMAIN s = 1..Len(s)
        /\ DOMAIN t = 1..(Len(s) + 1)
        /\ \A k \in DOMAIN s : t[k] = s[k] /\ s[k] \in Nat
        /\ t[Len(s) + 1] = x.offset
    BY <1>2, <1>4
  <2>4. acc.position <= x.offset BY <1>2, <1>4, <1>9
  <2>5. \A k \in DOMAIN s : pos <= s[k] /\ s[k] < x.offset /\ Has(outs, s[k]) BY <1>2, <1>4, <2>3, <2>4
  <2>6. pos <= x.offset /\ x.offset < x.offset + 1 /\ x.offset + 1 \in Int /\ x.offset + 1 >= pos
    BY <1>2, <1>4, <2>4
  <2>7. Has(outs, x.offset) BY <1>1, <1>9 DEF Has
  <2> HIDE DEF t, s
  <2>8. \A k \in DOMAIN t : k \in DOMAIN s \/ k = Len(s) + 1 BY <2>3
  <2>9. Sorted(t)
    <3> SUFFICES ASSUME NEW a \in DOMAIN t, NEW b \in DOMAIN t, a < b
                 PROVE  t[a] < t[b]
      BY DEF Sorted
    <3>1. a \in DOMAIN s BY <2>3
    <3>2. CASE b = Len(s) + 1 BY <2>3, <2>5, <3>1, <3>2
    <3>3. CASE b \in DOMAIN s BY <1>4, <2>3, <3>1, <3>3 DEF Sorted, s
    <3> QED BY <2>8, <3>2, <3>3
  <2>10. ASSUME NEW k \in DOMAIN t
         PROVE  pos <= t[k] /\ t[k] < x.offset + 1 /\ Has(outs, t[k])
    <3>1. CASE k \in DOMAIN s
      <4>1. s[k] < x.offset + 1 BY <1>2, <2>3, <2>5, <3>1
      <4> QED BY <2>3, <2>5, <3>1, <4>1
    <3>2. CASE k = Len(s) + 1 BY <2>3, <2>6, <2>7, <3>2
    <3> QED BY <2>8, <3>1, <3>2
  <2>11. ToSet(s) \subseteq ToSet(t) /\ x.offset \in ToSet(t)
    <3>1. \A k \in DOMAIN s : k \in DOMAIN t BY <2>3
    <3>2. Len(s) + 1 \in DOMAIN t BY <2>3
    <3> QED BY <2>3, <3>1, <3>2 DEF ToSet
  <2>12. \A k \in 1..(j + 1) : outs[k].ok /\ outs[k].offset >= pos => outs[k].offset \in ToSet(t)
    BY <1>4, <1>6, <2>11 DEF s
  <2> HIDE DEF d, x
  <2>13. \E k \in 1..(j + 1) : d.position = outs[k].offset + 1 BY <1>7, <2>2 DEF x
  <2> QED BY <2>2, <2>3, <2>6, <2>9, <2>10, <2>12, <2>13 DEF AcceptInv, d, x
<1>10. CASE ~x.ok
  <2>1. d = [acc EXCEPT !.position = StepPastMalformed(acc.position, x)] BY <1>10 DEF Accept
  <2>2. DOMAIN d = {"position", "records"} /\ d.records = acc.records
        /\ d.position = IF acc.position < x.offset + 1 THEN x.offset + 1 ELSE acc.position
    BY <1>4, <2>1 DEF StepPastMalformed
  <2>3. d.position \in Int /\ d.position >= pos /\ d.position >= acc.position BY <1>2, <1>4, <2>2
  <2>4. d.position = acc.position \/ d.position = x.offset + 1 BY <2>2
  <2> HIDE DEF d
  <2>5. \A k \in DOMAIN acc.records : acc.records[k] \in Nat BY <1>4
  <2>6. \A k \in DOMAIN acc.records : /\ pos <= acc.records[k] /\ acc.records[k] < d.position
                                      /\ Has(outs, acc.records[k])
    BY <1>4, <2>3, <2>5
  <2>7. d.position = pos \/ \E k \in 1..(j + 1) : d.position = outs[k].offset + 1 BY <1>4, <1>6, <1>7, <2>4
  <2>8. \A k \in 1..(j + 1) : outs[k].ok /\ outs[k].offset >= pos => outs[k].offset \in ToSet(acc.records)
    BY <1>4, <1>6, <1>10
  <2> QED BY <1>4, <2>2, <2>3, <2>6, <2>7, <2>8 DEF AcceptInv, d
<1> QED BY <1>2, <1>8, <1>9, <1>10

LEMMA Accepted ==
  ASSUME NEW outs \in Seq(Outcome), Rising(outs), NEW pos \in Int
  PROVE  AcceptInv(outs, pos, AcceptAll([position |-> pos, records |-> <<>>], outs), Len(outs))
<1> DEFINE base == [position |-> pos, records |-> <<>>]
<1>1. PICK n \in Nat : n = Len(outs) /\ DOMAIN outs = 1..n OBVIOUS
<1> HIDE DEF base
<1>2. PICK r : /\ r[0] = base
               /\ \A i \in 1..n : r[i] = Accept(r[i - 1], outs[i])
               /\ AcceptAll(base, outs) = r[n]
  <2>1. \A s : DOMAIN s = 1..n =>
          \E r : /\ r[0] = base
                 /\ \A i \in 1..n : r[i] = Accept(r[i - 1], s[i])
                 /\ AcceptAll(base, s) = r[n]
    BY AcceptTurns
  <2>2. DOMAIN outs = 1..n BY <1>1
  <2> QED BY <2>1, <2>2, Zenon
<1> DEFINE T == {i \in Nat : i <= n => AcceptInv(outs, pos, r[i], i)}
<1>3. 0 \in T
  <2>1. AcceptInv(outs, pos, base, 0)
    <3>1. <<>> \in Seq(Nat) /\ DOMAIN <<>> = {} /\ Sorted(<<>>) /\ 1..0 = {} BY DEF Sorted
    <3>2. DOMAIN base = {"position", "records"} /\ base.position = pos /\ base.records = <<>> BY DEF base
    <3> QED BY <3>1, <3>2 DEF AcceptInv
  <2> QED BY <1>2, <2>1
<1>4. ASSUME NEW i \in Nat, i \in T
      PROVE  i + 1 \in T
  <2> SUFFICES ASSUME i + 1 <= n
               PROVE  AcceptInv(outs, pos, r[i + 1], i + 1)
    OBVIOUS
  <2>1. AcceptInv(outs, pos, r[i], i) BY <1>1, <1>4
  <2>2. i + 1 \in 1..n /\ (i + 1) - 1 = i BY <1>1
  <2>3. r[i + 1] = Accept(r[i], outs[i + 1]) BY <1>2, <2>2
  <2>4. AcceptInv(outs, pos, Accept(r[i], outs[i + 1]), i + 1) BY <1>1, <2>1, AcceptStep
  <2> QED BY <2>3, <2>4
<1> HIDE DEF T
<1>5. n \in T BY <1>1, <1>3, <1>4, NatSetInduction
<1>6. AcceptInv(outs, pos, r[n], n) BY <1>1, <1>5 DEF T
<1> QED BY <1>1, <1>2, <1>6 DEF base

(* What an answer yields from the position on: records of the log that may *)
(* be seen, in order, and when it was asked for the position, all of them  *)
(* up to the new one.                                                      *)
Yields(L, pos, res) ==
  /\ res.position \in Int /\ res.position >= pos
  /\ res.position = pos \/ res.position <= LogEnd(L)
  /\ res.records \in Seq(Nat) /\ Sorted(res.records)
  /\ \A k \in DOMAIN res.records :
       /\ pos <= res.records[k] /\ res.records[k] < res.position
       /\ res.records[k] \in VisibleOffsets(L, Visibility)
       /\ res.records[k] < EndFor(L, Visibility)
Covers(L, pos, res) ==
  \A o \in VisibleOffsets(L, Visibility) :
    pos <= o /\ o < res.position => o \in ToSet(res.records)

LEMMA AnswerYields ==
  ASSUME NEW L, IsLog(L), NEW from \in Int, NEW pos \in Int, NEW outs,
         outs = decode_partition(Answer(L, from, EndFor(L, Visibility), PartitionMax), Visibility).outcomes
  PROVE  LET res == AcceptAll([position |-> pos, records |-> <<>>], outs)
         IN Yields(L, pos, res) /\ (from <= pos => Covers(L, pos, res))
<1> DEFINE v == Visibility
           stable == EndFor(L, v)
           res == AcceptAll([position |-> pos, records |-> <<>>], outs)
<1>1. stable \in Nat /\ stable <= LogEnd(L) /\ \A i \in DOMAIN L : L[i].base < stable => L[i].last < stable
  BY EndForFacts
<1>2. PartitionMax \in Nat \ {0} BY ConsumerAssumption
<1>3. PICK lo, n, br : /\ Stretch(L, lo, n, from, stable) /\ OutInv(L, lo, v, outs, n)
                       /\ Complete(L, lo, v, outs, br, n)
  <2>1. stable \in Int /\ PartitionMax \in Nat BY <1>1, <1>2
  <2> DEFINE answer == Answer(L, from, stable, PartitionMax)
             result == decode_partition(answer, v)
  <2>2. outs = result.outcomes OBVIOUS
  <2> HIDE DEF stable
  <2>3. PICK lo, n, br : /\ Sends(L, from, stable, PartitionMax, answer, lo, n)
                         /\ Decodes(L, v, answer, result, lo, n, br)
    BY <2>1, Decoded
  <2> HIDE DEF answer, result
  <2> QED BY <2>2, <2>3 DEF Sends, Decodes
<1>4. outs \in Seq(Outcome) /\ Rising(outs) /\ \A k \in DOMAIN outs : \E m \in 1..n : From(outs[k], L[lo + m], v)
  BY <1>3 DEF OutInv
<1>5. AcceptInv(outs, pos, res, Len(outs)) BY <1>4, Accepted
<1>6. /\ lo \in Nat /\ n \in Nat /\ lo + n <= Len(L) /\ Len(L) \in Nat /\ DOMAIN L = 1..Len(L)
      /\ \A i \in 1..n : L[lo + i].base < stable
      /\ \A i \in 1..lo : L[i].last < from
  <2>1. Len(L) \in Nat /\ DOMAIN L = 1..Len(L) BY DEF IsLog
  <2> QED BY <1>3, <2>1 DEF Stretch
<1> HIDE DEF res, stable
<1>7. \A i \in 1..n : lo + i \in DOMAIN L BY <1>6
<1>8. Len(outs) \in Nat /\ DOMAIN outs = 1..Len(outs) BY <1>4
<1>9. /\ res.position \in Int /\ res.position >= pos
      /\ res.records \in Seq(Nat) /\ Sorted(res.records)
      /\ \A k \in DOMAIN res.records : /\ pos <= res.records[k] /\ res.records[k] < res.position
                                       /\ Has(outs, res.records[k])
      /\ res.position = pos \/ \E k \in DOMAIN outs : res.position = outs[k].offset + 1
      /\ \A k \in DOMAIN outs : outs[k].ok /\ outs[k].offset >= pos => outs[k].offset \in ToSet(res.records)
  BY <1>5, <1>8 DEF AcceptInv
<1>10. \A k \in DOMAIN outs : outs[k].offset \in Nat
  <2>1. \A k \in DOMAIN outs : outs[k] \in Outcome BY <1>4
  <2> QED BY <2>1 DEF Outcome
<1>11. res.position = pos \/ res.position <= LogEnd(L)
  <2> SUFFICES ASSUME NEW k \in DOMAIN outs, res.position = outs[k].offset + 1
               PROVE  res.position <= LogEnd(L)
    BY <1>9
  <2>1. PICK m \in 1..n : From(outs[k], L[lo + m], v) BY <1>4
  <2>2. L[lo + m].last \in Nat /\ L[lo + m].base \in Nat BY <1>7, LogOne
  <2>3. outs[k].offset <= L[lo + m].last BY <2>1, <2>2 DEF From
  <2>4. L[lo + m].last < LogEnd(L) /\ LogEnd(L) \in Nat BY <1>7, LogEndFacts
  <2> QED BY <1>10, <2>2, <2>3, <2>4
<1>12. ASSUME NEW o, Has(outs, o)
       PROVE  o \in VisibleOffsets(L, v) /\ o < stable
  <2>1. PICK k \in DOMAIN outs : outs[k].ok /\ outs[k].offset = o BY <1>12 DEF Has
  <2>2. PICK m \in 1..n : From(outs[k], L[lo + m], v) BY <1>4
  <2>3. o \in L[lo + m].offs /\ Seen(L[lo + m], v) /\ o \in L[lo + m].base..L[lo + m].last
    BY <2>1, <2>2 DEF From
  <2>4. L[lo + m].last < stable /\ L[lo + m].last \in Nat /\ L[lo + m].base \in Nat
    BY <1>1, <1>6, <1>7, LogOne
  <2>5. o \in VisibleOffsets(L, v) BY <1>7, <2>3, VisibleIs
  <2> QED BY <1>1, <2>3, <2>4, <2>5
<1>13. Yields(L, pos, res) BY <1>9, <1>11, <1>12 DEF Yields, stable
<1>14. ASSUME from <= pos, NEW o \in VisibleOffsets(L, v), pos <= o, o < res.position
       PROVE  o \in ToSet(res.records)
  <2>1. PICK x \in DOMAIN L : o \in L[x].offs /\ Seen(L[x], v) BY VisibleIs
  <2>2. /\ L[x].base \in Nat /\ L[x].last \in Nat /\ L[x].offs \subseteq L[x].base..L[x].last /\ x \in Nat
    BY <1>6, LogOne
  <2>3. o \in Nat /\ L[x].base <= o /\ o <= L[x].last BY <2>1, <2>2
  <2>4. PICK k \in DOMAIN outs : res.position = outs[k].offset + 1 BY <1>9, <1>14, <2>3
  <2>5. o <= outs[k].offset BY <1>10, <1>14, <2>3, <2>4
  <2>6. PICK m \in 1..n : From(outs[k], L[lo + m], v) BY <1>4
  <2>7. PICK y : y = lo + m OBVIOUS
  <2>8. y \in DOMAIN L /\ y \in Nat /\ outs[k].offset \in L[y].base..L[y].last
    BY <1>6, <1>7, <2>6, <2>7 DEF From
  <2>9. L[y].base \in Nat /\ L[y].last \in Nat BY <2>8, LogOne
  <2>10. ~(y < x)
    <3> SUFFICES ASSUME y < x PROVE FALSE OBVIOUS
    <3>1. L[y].last < L[x].base BY <2>8, LogTwo
    <3> QED BY <1>10, <2>2, <2>3, <2>5, <2>8, <2>9, <3>1
  <2>11. ~(x \in 1..lo) BY <1>6, <1>14, <2>2, <2>3
  <2>12. x - lo \in 1..n /\ lo + (x - lo) = x BY <1>6, <2>1, <2>2, <2>7, <2>8, <2>10, <2>11
  <2>13. Has(outs, o) \/ \A j \in DOMAIN outs : outs[j].offset < o BY <1>3, <2>1, <2>12 DEF Complete
  <2>14. Has(outs, o) BY <1>10, <2>3, <2>5, <2>13
  <2> QED BY <1>9, <1>14, <2>14 DEF Has
<1>15. from <= pos => Covers(L, pos, res) BY <1>14 DEF Covers
<1> QED BY <1>13, <1>15 DEF res

(* What fetch_once takes of a partition's part of an answer.               *)
LEMMA AbsorbedYields ==
  ASSUME NEW p, IsLog(log[p].batches), assignment[p].position \in Int, NEW b, NEW from \in Int
  PROVE  LET L == log[p].batches
             pos == assignment[p].position
             res == Absorbed(p, PartAnswer(b, p, from))
         IN Yields(L, pos, res) /\ (from <= pos => Covers(L, pos, res))
<1> DEFINE L == log[p].batches
           pos == assignment[p].position
           a == PartAnswer(b, p, from)
           res == Absorbed(p, a)
           keep == [position |-> pos, records |-> <<>>]
<1>1. CASE a.error # "none"
  <2>1. res = keep BY <1>1 DEF Absorbed
  <2>2. res.position = pos /\ res.records = <<>> BY <2>1
  <2> HIDE DEF res
  <2>3. Yields(L, pos, res) BY <2>2 DEF Yields, Sorted
  <2>4. Covers(L, pos, res)
    <3>1. \A o \in VisibleOffsets(L, Visibility) : o \in Int
      <4> SUFFICES ASSUME NEW o \in VisibleOffsets(L, Visibility)
                   PROVE  o \in Int
        OBVIOUS
      <4>1. PICK m \in DOMAIN L : o \in L[m].offs BY VisibleIs
      <4>2. L[m].offs \subseteq L[m].base..L[m].last /\ L[m].base \in Nat /\ L[m].last \in Nat BY LogOne
      <4> QED BY <4>1, <4>2
    <3> QED BY <2>2, <3>1 DEF Covers
  <2> QED BY <2>3, <2>4 DEF res
<1>2. CASE a.error = "none"
  <2>1. a.of = Answer(L, from, EndFor(L, Visibility), PartitionMax) BY <1>2 DEF PartAnswer
  <2>2. PICK outs : outs = decode_partition(a.of, Visibility).outcomes OBVIOUS
  <2> HIDE DEF a
  <2>3. res = AcceptAll(keep, outs) BY <1>2, <2>2 DEF Absorbed, AcceptAll
  <2>4. Yields(L, pos, AcceptAll(keep, outs)) /\ (from <= pos => Covers(L, pos, AcceptAll(keep, outs)))
    BY <2>1, <2>2, AnswerYields
  <2> HIDE DEF res, L, pos
  <2>5. Yields(L, pos, res) /\ (from <= pos => Covers(L, pos, res)) BY <2>3, <2>4
  <2> QED BY <2>5 DEF res, L, pos, a
<1> QED BY <1>1, <1>2

-----------------------------------------------------------------------------
(* What was read, and the log it was read from *)

CursorOf(pl, del) == IF del = <<>> THEN pl ELSE del[Len(del)] + 1

(* An offset that may be handed out, or was deleted since it was read.     *)
InLog(L, st, o) ==
  (o \in VisibleOffsets(L, Visibility) /\ o < EndFor(L, Visibility)) \/ o < st

(* What waits in the buffer comes after what was handed out and before the *)
(* position, in order.                                                     *)
Ordered(L, st, cur, pos, buf) ==
  /\ cur <= pos /\ Sorted(buf)
  /\ \A i \in DOMAIN buf : cur <= buf[i] /\ buf[i] < pos /\ InLog(L, st, buf[i])

(* Between where a partition was placed and its position, all was handed   *)
(* out or waits.                                                           *)
Gapless(L, pl, pos, del, buf) ==
  /\ pos <= LogEnd(L) \/ pos <= pl
  /\ \A o \in VisibleOffsets(L, Visibility) :
       pl <= o /\ o < pos => o \in ToSet(del) \/ o \in ToSet(buf)

(* Everything before `upto` was received once or waits.                    *)
Kept(L, upto, rec, buf) ==
  /\ upto <= LogEnd(L)
  /\ \A o \in VisibleOffsets(L, Visibility) : o < upto => o \in rec \/ o \in ToSet(buf)

-----------------------------------------------------------------------------
(* A log that grew or lost its beginning.                                  *)
LogMoved(L, st, M, nst) ==
  /\ IsLog(L) /\ IsLog(M) /\ st \in Nat /\ nst \in Nat /\ st <= nst
  /\ LogEnd(L) <= LogEnd(M) /\ EndFor(L, Visibility) <= EndFor(M, Visibility)
  /\ \A o \in VisibleOffsets(L, Visibility) : o \in VisibleOffsets(M, Visibility) \/ o < nst
  /\ \A o \in VisibleOffsets(M, Visibility) : o \in VisibleOffsets(L, Visibility) \/ o >= LogEnd(L)

LEMMA MovedTypes ==
  ASSUME NEW L, NEW st, NEW M, NEW nst, LogMoved(L, st, M, nst)
  PROVE  /\ LogEnd(L) \in Nat /\ LogEnd(M) \in Nat
         /\ EndFor(L, Visibility) \in Nat /\ EndFor(M, Visibility) \in Nat
         /\ EndFor(L, Visibility) <= LogEnd(L)
BY LogEndFacts, EndForFacts DEF LogMoved

LEMMA MovedOrdered ==
  ASSUME NEW L, NEW st, NEW M, NEW nst, LogMoved(L, st, M, nst),
         NEW cur \in Int, NEW pos \in Int, NEW buf \in Seq(Nat), Ordered(L, st, cur, pos, buf)
  PROVE  Ordered(M, nst, cur, pos, buf)
<1>1. ASSUME NEW i \in DOMAIN buf
      PROVE  InLog(M, nst, buf[i])
  <2>1. buf[i] \in Nat OBVIOUS
  <2>2. InLog(L, st, buf[i]) BY DEF Ordered
  <2>3. st \in Nat /\ nst \in Nat /\ st <= nst /\ EndFor(L, Visibility) <= EndFor(M, Visibility)
    BY DEF LogMoved
  <2>4. EndFor(L, Visibility) \in Nat /\ EndFor(M, Visibility) \in Nat BY MovedTypes
  <2>5. CASE buf[i] < st BY <2>1, <2>3, <2>5 DEF InLog
  <2>6. CASE buf[i] \in VisibleOffsets(L, Visibility) /\ buf[i] < EndFor(L, Visibility)
    <3>1. buf[i] < EndFor(M, Visibility) BY <2>1, <2>3, <2>4, <2>6
    <3> QED BY <2>6, <3>1 DEF InLog, LogMoved
  <2> QED BY <2>2, <2>5, <2>6 DEF InLog
<1> QED BY <1>1 DEF Ordered

LEMMA MovedGapless ==
  ASSUME NEW L, NEW st, NEW M, NEW nst, LogMoved(L, st, M, nst),
         NEW pl \in Int, NEW pos \in Int, NEW del, NEW buf, Gapless(L, pl, pos, del, buf)
  PROVE  Gapless(M, pl, pos, del, buf)
<1>1. pos <= LogEnd(M) \/ pos <= pl BY MovedTypes DEF Gapless, LogMoved
<1>2. ASSUME NEW o \in VisibleOffsets(M, Visibility), pl <= o, o < pos
      PROVE  o \in ToSet(del) \/ o \in ToSet(buf)
  <2>1. o \in Nat BY VisibleNat DEF LogMoved
  <2>2. ~(o >= LogEnd(L)) BY <1>2, <2>1, MovedTypes DEF Gapless
  <2>3. o \in VisibleOffsets(L, Visibility) BY <2>2 DEF LogMoved
  <2> QED BY <1>2, <2>3 DEF Gapless
<1> QED BY <1>1, <1>2 DEF Gapless

LEMMA MovedKept ==
  ASSUME NEW L, NEW st, NEW M, NEW nst, LogMoved(L, st, M, nst),
         NEW upto \in Int, NEW rec, NEW buf, Kept(L, upto, rec, buf)
  PROVE  Kept(M, upto, rec, buf)
<1>1. upto <= LogEnd(M) BY MovedTypes DEF Kept, LogMoved
<1>2. ASSUME NEW o \in VisibleOffsets(M, Visibility), o < upto
      PROVE  o \in rec \/ o \in ToSet(buf)
  <2>1. o \in Nat BY VisibleNat DEF LogMoved
  <2>2. ~(o >= LogEnd(L)) BY <1>2, <2>1, MovedTypes DEF Kept
  <2>3. o \in VisibleOffsets(L, Visibility) BY <2>2 DEF LogMoved
  <2> QED BY <1>2, <2>3 DEF Kept
<1> QED BY <1>1, <1>2 DEF Kept

-----------------------------------------------------------------------------
(* A batch is appended.                                                    *)
Grown(L) == Append(L, Plain(LogEnd(L), LogEnd(L), {LogEnd(L)}))

LEMMA GrownContinues ==
  ASSUME NEW L, IsLog(L)
  PROVE  Continues(L, Plain(LogEnd(L), LogEnd(L), {LogEnd(L)}))
<1>1. LogEnd(L) \in Nat BY LogEndFacts
<1> QED BY <1>1 DEF Continues, Plain, BatchRecord, IsBatch

LEMMA GrownFacts ==
  ASSUME NEW L, IsLog(L)
  PROVE  /\ Grown(L) \in Seq(BatchRecord) /\ DOMAIN Grown(L) = 1..(Len(L) + 1)
         /\ Len(Grown(L)) = Len(L) + 1 /\ DOMAIN L = 1..Len(L) /\ Len(L) \in Nat
         /\ \A i \in DOMAIN L : i \in DOMAIN Grown(L) /\ Grown(L)[i] = L[i]
         /\ Grown(L)[Len(L) + 1] = Plain(LogEnd(L), LogEnd(L), {LogEnd(L)})
         /\ \A i \in DOMAIN Grown(L) : i \in DOMAIN L \/ i = Len(L) + 1
         /\ LogEnd(Grown(L)) = LogEnd(L) + 1
<1> DEFINE b == Plain(LogEnd(L), LogEnd(L), {LogEnd(L)})
<1>1. Continues(L, b) BY GrownContinues
<1>2. b.last = LogEnd(L) BY DEF Plain
<1> HIDE DEF b
<1> QED BY <1>1, <1>2, AppendFacts DEF Grown, b

LEMMA GrownIsLog ==
  ASSUME NEW L, IsLog(L)
  PROVE  IsLog(Grown(L)) /\ EndFor(L, Visibility) <= EndFor(Grown(L), Visibility)
BY GrownContinues, AppendIsLog, AppendStable DEF Grown

LEMMA GrownMoved ==
  ASSUME NEW L, IsLog(L), NEW st \in Nat
  PROVE  LogMoved(L, st, Grown(L), st)
<1> DEFINE M == Grown(L)
<1>1. LogEnd(L) \in Nat /\ LogEnd(M) = LogEnd(L) + 1 BY LogEndFacts, GrownFacts
<1>2. IsLog(M) /\ EndFor(L, Visibility) <= EndFor(M, Visibility) BY GrownIsLog
<1>3. /\ \A i \in DOMAIN L : i \in DOMAIN M /\ M[i] = L[i]
      /\ M[Len(L) + 1].offs = {LogEnd(L)}
      /\ \A i \in DOMAIN M : i \in DOMAIN L \/ i = Len(L) + 1
  <2>1. /\ \A i \in DOMAIN L : i \in DOMAIN M /\ M[i] = L[i]
        /\ M[Len(L) + 1] = Plain(LogEnd(L), LogEnd(L), {LogEnd(L)})
        /\ \A i \in DOMAIN M : i \in DOMAIN L \/ i = Len(L) + 1
    BY GrownFacts
  <2> HIDE DEF M
  <2>2. M[Len(L) + 1].offs = {LogEnd(L)} BY <2>1 DEF Plain
  <2> QED BY <2>1, <2>2
<1> HIDE DEF M
<1>4. \A o \in VisibleOffsets(L, Visibility) : o \in VisibleOffsets(M, Visibility) BY <1>3, VisibleIs
<1>5. ASSUME NEW o \in VisibleOffsets(M, Visibility)
      PROVE  o \in VisibleOffsets(L, Visibility) \/ o >= LogEnd(L)
  <2>1. PICK m \in DOMAIN M : o \in M[m].offs /\ Seen(M[m], Visibility) BY VisibleIs
  <2>2. CASE m \in DOMAIN L BY <1>3, <2>1, <2>2, VisibleIs
  <2>3. CASE m = Len(L) + 1 BY <1>1, <1>3, <2>1, <2>3
  <2> QED BY <1>3, <2>2, <2>3
<1> QED BY <1>1, <1>2, <1>4, <1>5 DEF LogMoved, M

(* The first batch is deleted.                                             *)
LEMMA TailMoved ==
  ASSUME NEW L, IsLog(L), Len(L) > 1, NEW st \in Nat, \A i \in DOMAIN L : st <= L[i].base
  PROVE  LET M == Tail(L)
             nst == Head(L).last + 1
         IN /\ LogMoved(L, st, M, nst)
            /\ nst <= LogEnd(M) /\ \A i \in DOMAIN M : nst <= M[i].base
<1> DEFINE M == Tail(L)
           nst == Head(L).last + 1
<1>1. /\ \A i \in DOMAIN M : i \in Nat /\ i + 1 \in DOMAIN L /\ M[i] = L[i + 1]
      /\ \A j \in DOMAIN L : j \in Nat /\ (j = 1 \/ (j - 1 \in DOMAIN M /\ M[j - 1] = L[j]))
      /\ LogEnd(M) = LogEnd(L) /\ 1 \in DOMAIN L /\ DOMAIN M = 1..Len(M) /\ nst = L[1].last + 1
  BY TailFacts
<1>2. IsLog(M) /\ EndFor(L, Visibility) <= EndFor(M, Visibility) BY TailIsLog, TailStable
<1>3. /\ L[1].base \in Nat /\ L[1].last \in Nat /\ L[1].base <= L[1].last
      /\ L[1].offs \subseteq L[1].base..L[1].last /\ L[1].last < LogEnd(L) /\ LogEnd(L) \in Nat
      /\ st <= L[1].base
  BY <1>1, LogOne, LogEndFacts
<1> HIDE DEF M, nst
<1>4. nst \in Nat /\ st <= nst /\ nst <= LogEnd(M) /\ LogEnd(L) <= LogEnd(M) BY <1>1, <1>3
<1>5. ASSUME NEW i \in DOMAIN M
      PROVE  nst <= M[i].base
  <2>1. PICK k \in DOMAIN L : k = i + 1 /\ M[i] = L[k] /\ 1 < k BY <1>1
  <2>2. L[1].last < L[k].base /\ L[k].base \in Nat BY <1>1, <2>1, LogTwo, LogOne
  <2> QED BY <1>1, <1>3, <2>1, <2>2
<1>6. ASSUME NEW o \in VisibleOffsets(L, Visibility)
      PROVE  o \in VisibleOffsets(M, Visibility) \/ o < nst
  <2>1. PICK m \in DOMAIN L : o \in L[m].offs /\ Seen(L[m], Visibility) BY VisibleIs
  <2>2. CASE m = 1 BY <1>1, <1>3, <2>1, <2>2
  <2>3. CASE m - 1 \in DOMAIN M /\ M[m - 1] = L[m]
    <3>1. \E x \in DOMAIN M : o \in M[x].offs /\ Seen(M[x], Visibility) BY <2>1, <2>3
    <3> QED BY <3>1, VisibleIs
  <2> QED BY <1>1, <2>2, <2>3
<1>7. ASSUME NEW o \in VisibleOffsets(M, Visibility)
      PROVE  o \in VisibleOffsets(L, Visibility)
  <2>1. PICK m \in DOMAIN M : o \in M[m].offs /\ Seen(M[m], Visibility) BY VisibleIs
  <2>2. \E x \in DOMAIN L : o \in L[x].offs /\ Seen(L[x], Visibility) BY <1>1, <2>1
  <2> QED BY <2>2, VisibleIs
<1>8. LogMoved(L, st, M, nst) BY <1>2, <1>4, <1>6, <1>7 DEF LogMoved
<1> QED BY <1>4, <1>5, <1>8 DEF M, nst

-----------------------------------------------------------------------------
(* Placing a partition.                                                    *)
LEMMA FreshReads ==
  ASSUME NEW L, NEW st, NEW o \in Int
  PROVE  /\ CursorOf(o, <<>>) = o
         /\ Ordered(L, st, o, o, <<>>)
         /\ IsLog(L) => Gapless(L, o, o, <<>>, <<>>)
<1>1. DOMAIN <<>> = {} OBVIOUS
<1>2. Ordered(L, st, o, o, <<>>) BY <1>1 DEF Ordered, Sorted
<1>3. ASSUME IsLog(L)
      PROVE  Gapless(L, o, o, <<>>, <<>>)
  <2>1. \A x \in VisibleOffsets(L, Visibility) : x \in Nat BY <1>3, VisibleNat
  <2>2. \A x \in VisibleOffsets(L, Visibility) : ~(o <= x /\ x < o) BY <2>1
  <2> QED BY <2>2 DEF Gapless
<1> QED BY <1>2, <1>3 DEF CursorOf

(* At the beginning of the log nothing was missed.                         *)
LEMMA StartKept ==
  ASSUME NEW L, IsLog(L), NEW st \in Nat, st <= LogEnd(L), \A i \in DOMAIN L : st <= L[i].base, NEW rec, NEW buf
  PROVE  Kept(L, st, rec, buf)
<1>1. ASSUME NEW o \in VisibleOffsets(L, Visibility)
      PROVE  ~(o < st)
  <2>1. PICK m \in DOMAIN L : o \in L[m].offs BY VisibleIs
  <2>2. L[m].offs \subseteq L[m].base..L[m].last /\ L[m].base \in Nat /\ L[m].last \in Nat BY LogOne
  <2> QED BY <2>1, <2>2
<1> QED BY <1>1 DEF Kept

-----------------------------------------------------------------------------
LEMMA JoinFacts ==
  ASSUME NEW s \in Seq(Nat), NEW t \in Seq(Nat)
  PROVE  /\ s \o t \in Seq(Nat) /\ Len(s \o t) = Len(s) + Len(t) /\ DOMAIN (s \o t) = 1..(Len(s) + Len(t))
         /\ Len(s) \in Nat /\ Len(t) \in Nat /\ DOMAIN s = 1..Len(s) /\ DOMAIN t = 1..Len(t)
         /\ \A i \in DOMAIN s : (s \o t)[i] = s[i]
         /\ \A i \in DOMAIN t : (s \o t)[Len(s) + i] = t[i]
         /\ \A i \in DOMAIN (s \o t) : i \in Nat /\ (i \in DOMAIN s \/ (i > Len(s) /\ i - Len(s) \in DOMAIN t /\ (s \o t)[i] = t[i - Len(s)]))
         /\ ToSet(s \o t) = ToSet(s) \cup ToSet(t)
<1> DEFINE u == s \o t
<1>1. /\ u \in Seq(Nat) /\ Len(u) = Len(s) + Len(t) /\ DOMAIN u = 1..(Len(s) + Len(t))
      /\ Len(s) \in Nat /\ Len(t) \in Nat /\ DOMAIN s = 1..Len(s) /\ DOMAIN t = 1..Len(t)
      /\ \A i \in 1..(Len(s) + Len(t)) : u[i] = IF i <= Len(s) THEN s[i] ELSE t[i - Len(s)]
  OBVIOUS
<1> HIDE DEF u
<1>2. \A i \in DOMAIN s : i \in DOMAIN u /\ u[i] = s[i] BY <1>1
<1>3. ASSUME NEW i \in DOMAIN t
      PROVE  Len(s) + i \in DOMAIN u /\ u[Len(s) + i] = t[i]
  <2>1. i \in Nat /\ i >= 1 /\ i <= Len(t) /\ Len(s) + i \in 1..(Len(s) + Len(t)) /\ ~(Len(s) + i <= Len(s))
    BY <1>1
  <2>2. (Len(s) + i) - Len(s) = i BY <1>1, <2>1
  <2>3. u[Len(s) + i] = t[(Len(s) + i) - Len(s)] BY <1>1, <2>1
  <2> QED BY <1>1, <2>1, <2>2, <2>3
<1>4. \A i \in DOMAIN u : i \in Nat /\ (i \in DOMAIN s \/ (i > Len(s) /\ i - Len(s) \in DOMAIN t /\ u[i] = t[i - Len(s)]))
  BY <1>1
<1>5. ToSet(u) = ToSet(s) \cup ToSet(t)
  <2>1. ASSUME NEW x \in ToSet(s) \cup ToSet(t)
        PROVE  x \in ToSet(u)
    BY <1>2, <1>3, <2>1 DEF ToSet
  <2>2. ASSUME NEW x \in ToSet(u)
        PROVE  x \in ToSet(s) \cup ToSet(t)
    BY <1>2, <1>4, <2>2 DEF ToSet
  <2> QED BY <2>1, <2>2
<1> QED BY <1>1, <1>2, <1>3, <1>4, <1>5 DEF u

(* An answer is absorbed.                                                  *)
LEMMA AbsorbOrdered ==
  ASSUME NEW L, IsLog(L), NEW st, NEW cur \in Int, NEW pos \in Int, NEW buf \in Seq(Nat), NEW res,
         Ordered(L, st, cur, pos, buf), Yields(L, pos, res)
  PROVE  /\ Ordered(L, st, cur, res.position, buf \o res.records)
         /\ buf \o res.records \in Seq(Nat)
<1>1. PICK t \in Seq(Nat) : t = res.records BY DEF Yields
<1>2. PICK np \in Int : np = res.position BY DEF Yields
<1>3. /\ np >= pos /\ Sorted(t)
      /\ \A k \in DOMAIN t : /\ pos <= t[k] /\ t[k] < np
                             /\ t[k] \in VisibleOffsets(L, Visibility) /\ t[k] < EndFor(L, Visibility)
  BY <1>1, <1>2 DEF Yields
<1>4. /\ cur <= pos /\ Sorted(buf)
      /\ \A i \in DOMAIN buf : cur <= buf[i] /\ buf[i] < pos /\ InLog(L, st, buf[i])
  BY DEF Ordered
<1>5. (\A k \in DOMAIN t : t[k] \in Nat) /\ (\A i \in DOMAIN buf : buf[i] \in Nat) OBVIOUS
<1> DEFINE u == buf \o t
<1>6. /\ u \in Seq(Nat) /\ DOMAIN buf = 1..Len(buf) /\ Len(buf) \in Nat
      /\ \A i \in DOMAIN buf : u[i] = buf[i]
      /\ \A i \in DOMAIN u : i \in Nat /\ (i \in DOMAIN buf \/ (i > Len(buf) /\ i - Len(buf) \in DOMAIN t /\ u[i] = t[i - Len(buf)]))
  BY JoinFacts
<1> HIDE DEF u
<1>7. ASSUME NEW i \in DOMAIN u
      PROVE  cur <= u[i] /\ u[i] < np /\ InLog(L, st, u[i])
  <2>1. CASE i \in DOMAIN buf BY <1>3, <1>4, <1>5, <1>6, <2>1
  <2>2. CASE i - Len(buf) \in DOMAIN t /\ u[i] = t[i - Len(buf)]
    <3>1. PICK k \in DOMAIN t : u[i] = t[k] BY <2>2
    <3>2. InLog(L, st, u[i]) BY <1>3, <3>1 DEF InLog
    <3> QED BY <1>3, <1>4, <1>5, <3>1, <3>2
  <2> QED BY <1>6, <2>1, <2>2
<1>8. ASSUME NEW i \in DOMAIN u, NEW j \in DOMAIN u, i < j
      PROVE  u[i] < u[j]
  <2>1. CASE i \in DOMAIN buf /\ j \in DOMAIN buf BY <1>4, <1>6, <1>8, <2>1 DEF Sorted
  <2>2. CASE i \in DOMAIN buf /\ j - Len(buf) \in DOMAIN t /\ u[j] = t[j - Len(buf)]
    <3>1. PICK k \in DOMAIN t : u[j] = t[k] BY <2>2
    <3> QED BY <1>3, <1>4, <1>5, <1>6, <2>2, <3>1
  <2>3. CASE /\ i > Len(buf) /\ i - Len(buf) \in DOMAIN t /\ u[i] = t[i - Len(buf)]
             /\ j > Len(buf) /\ j - Len(buf) \in DOMAIN t /\ u[j] = t[j - Len(buf)]
    <3>1. i - Len(buf) < j - Len(buf) BY <1>6, <1>8
    <3> QED BY <1>3, <2>3, <3>1 DEF Sorted
  <2>4. CASE i > Len(buf) /\ j \in DOMAIN buf BY <1>6, <1>8, <2>4
  <2> QED BY <1>6, <2>1, <2>2, <2>3, <2>4
<1>9. Ordered(L, st, cur, np, u)
  <2>1. cur <= np BY <1>3, <1>4
  <2> QED BY <1>7, <1>8, <2>1 DEF Ordered, Sorted
<1> QED BY <1>1, <1>2, <1>6, <1>9 DEF u

LEMMA AbsorbGapless ==
  ASSUME NEW L, IsLog(L), NEW pl \in Int, NEW pos \in Int, NEW del, NEW buf \in Seq(Nat), NEW res,
         Gapless(L, pl, pos, del, buf), Yields(L, pos, res), Covers(L, pos, res)
  PROVE  Gapless(L, pl, res.position, del, buf \o res.records)
<1>1. PICK t \in Seq(Nat) : t = res.records BY DEF Yields
<1>2. PICK np \in Int : np = res.position BY DEF Yields
<1>3. (np = pos \/ np <= LogEnd(L)) /\ \A o \in VisibleOffsets(L, Visibility) : pos <= o /\ o < np => o \in ToSet(t)
  BY <1>1, <1>2 DEF Yields, Covers
<1>4. ToSet(buf \o t) = ToSet(buf) \cup ToSet(t) BY JoinFacts
<1>5. np <= LogEnd(L) \/ np <= pl BY <1>3 DEF Gapless
<1>6. ASSUME NEW o \in VisibleOffsets(L, Visibility), pl <= o, o < np
      PROVE  o \in ToSet(del) \/ o \in ToSet(buf \o t)
  <2>1. o \in Nat BY VisibleNat
  <2>2. CASE o < pos BY <1>4, <1>6, <2>2 DEF Gapless
  <2>3. CASE pos <= o BY <1>3, <1>4, <1>6, <2>3
  <2> QED BY <2>1, <2>2, <2>3
<1>7. Gapless(L, pl, np, del, buf \o t) BY <1>5, <1>6 DEF Gapless
<1> QED BY <1>1, <1>2, <1>7

LEMMA AbsorbKept ==
  ASSUME NEW L, IsLog(L), NEW pos \in Int, NEW rec, NEW buf \in Seq(Nat), NEW res,
         Kept(L, pos, rec, buf), Yields(L, pos, res), Covers(L, pos, res)
  PROVE  Kept(L, res.position, rec, buf \o res.records)
<1>1. PICK t \in Seq(Nat) : t = res.records BY DEF Yields
<1>2. PICK np \in Int : np = res.position BY DEF Yields
<1>3. (np = pos \/ np <= LogEnd(L)) /\ \A o \in VisibleOffsets(L, Visibility) : pos <= o /\ o < np => o \in ToSet(t)
  BY <1>1, <1>2 DEF Yields, Covers
<1>4. ToSet(buf \o t) = ToSet(buf) \cup ToSet(t) BY JoinFacts
<1>5. np <= LogEnd(L) BY <1>3 DEF Kept
<1>6. ASSUME NEW o \in VisibleOffsets(L, Visibility), o < np
      PROVE  o \in rec \/ o \in ToSet(buf \o t)
  <2>1. o \in Nat BY VisibleNat
  <2>2. CASE o < pos BY <1>4, <1>6, <2>2 DEF Kept
  <2>3. CASE pos <= o BY <1>3, <1>4, <1>6, <2>3
  <2> QED BY <2>1, <2>2, <2>3
<1>7. Kept(L, np, rec, buf \o t) BY <1>5, <1>6 DEF Kept
<1> QED BY <1>1, <1>2, <1>7

-----------------------------------------------------------------------------
(* What waits is handed out.                                               *)
LEMMA HandOutReads ==
  ASSUME NEW L, NEW st, NEW pl \in Int, NEW pos \in Int, NEW del \in Seq(Nat), NEW buf \in Seq(Nat), NEW rec
  PROVE  /\ Ordered(L, st, CursorOf(pl, del), pos, buf) => Ordered(L, st, CursorOf(pl, del \o buf), pos, <<>>)
         /\ Gapless(L, pl, pos, del, buf) => Gapless(L, pl, pos, del \o buf, <<>>)
         /\ Kept(L, pos, rec, buf) => Kept(L, pos, rec \cup ToSet(buf), <<>>)
         /\ \A upto : Kept(L, upto, rec, <<>>) => Kept(L, upto, rec \cup ToSet(buf), <<>>)
<1> DEFINE u == del \o buf
<1>1. /\ u \in Seq(Nat) /\ Len(u) = Len(del) + Len(buf) /\ DOMAIN buf = 1..Len(buf) /\ Len(buf) \in Nat /\ Len(del) \in Nat
      /\ \A i \in DOMAIN buf : u[Len(del) + i] = buf[i]
      /\ ToSet(u) = ToSet(del) \cup ToSet(buf)
  BY JoinFacts
<1>2. buf = <<>> => u = del OBVIOUS
<1> HIDE DEF u
<1>3. ASSUME Ordered(L, st, CursorOf(pl, del), pos, buf)
      PROVE  Ordered(L, st, CursorOf(pl, u), pos, <<>>)
  <2>1. CASE buf = <<>> BY <1>2, <1>3, <2>1
  <2>2. CASE buf # <<>>
    <3>1. Len(buf) \in DOMAIN buf /\ u # <<>> BY <1>1, <2>2
    <3>2. u[Len(u)] = buf[Len(buf)] /\ buf[Len(buf)] \in Nat
      <4>1. \A i \in DOMAIN buf : buf[i] \in Nat OBVIOUS
      <4> QED BY <1>1, <3>1, <4>1
    <3>3. buf[Len(buf)] < pos BY <1>3, <3>1 DEF Ordered
    <3>4. CursorOf(pl, u) <= pos BY <3>1, <3>2, <3>3 DEF CursorOf
    <3> QED BY <3>4 DEF Ordered, Sorted
  <2> QED BY <2>1, <2>2
<1>4. ASSUME Gapless(L, pl, pos, del, buf)
      PROVE  Gapless(L, pl, pos, u, <<>>)
  BY <1>1, <1>4 DEF Gapless
<1>5. ASSUME Kept(L, pos, rec, buf)
      PROVE  Kept(L, pos, rec \cup ToSet(buf), <<>>)
  BY <1>5 DEF Kept
<1>6. ASSUME NEW upto, Kept(L, upto, rec, <<>>)
      PROVE  Kept(L, upto, rec \cup ToSet(buf), <<>>)
  <2>1. ToSet(<<>>) = {} BY DEF ToSet
  <2> QED BY <1>6, <2>1 DEF Kept
<1> QED BY <1>3, <1>4, <1>5, <1>6 DEF u

-----------------------------------------------------------------------------
(* A partition's log never has less before its start than was deleted.     *)
LogOK(p) ==
  /\ DOMAIN log[p] = {"batches", "start"} /\ IsLog(log[p].batches)
  /\ log[p].start \in Nat /\ log[p].start <= LogEnd(log[p].batches)
  /\ \A i \in DOMAIN log[p].batches : log[p].start <= log[p].batches[i].base

ReadShape ==
  /\ DOMAIN log = Partitions /\ DOMAIN doubt = {"unsent", "lost", "skipped"}
  /\ DOMAIN assignment \subseteq Partitions
  /\ \A p \in DOMAIN assignment : /\ DOMAIN assignment[p] = {"position", "paused", "high_watermark"}
                                  /\ assignment[p].position \in Int
  /\ buffered \in [Partitions -> Seq(Nat)] /\ delivered \in [Partitions -> Seq(Nat)]
  /\ DOMAIN placed = Partitions /\ DOMAIN received = Partitions
  /\ \A p \in Partitions : placed[p] \in Int /\ committed[p] \in Int

(* A round asks for offsets the positions may only have passed.            *)
RoundOK ==
  /\ ~polling => DOMAIN round = {}
  /\ \A b \in DOMAIN round : \A p \in DOMAIN round[b] :
       p \in DOMAIN assignment /\ round[b][p] \in Int /\ round[b][p] <= assignment[p].position
CachesOK == \A b \in Brokers : \A p \in DOMAIN caches[b].parts : caches[b].parts[p] \in Int

ReadOK(p) ==
  /\ p \notin DOMAIN assignment => buffered[p] = <<>>
  /\ p \in DOMAIN assignment =>
       Ordered(log[p].batches, log[p].start, CursorOf(placed[p], delivered[p]),
               assignment[p].position, buffered[p])
  /\ p \in DOMAIN assignment /\ p \notin doubt.lost =>
       Gapless(log[p].batches, placed[p], assignment[p].position, delivered[p], buffered[p])
  /\ p \notin doubt.skipped => Kept(log[p].batches, committed[p], received[p], <<>>)
  /\ p \in DOMAIN assignment /\ p \notin doubt.skipped =>
       Kept(log[p].batches, assignment[p].position, received[p], buffered[p])

(* The inductive invariant.                                                *)
ReadInv ==
  ReadShape /\ RoundOK /\ CachesOK /\ (\A p \in Partitions : LogOK(p)) /\ \A p \in Partitions : ReadOK(p)

-----------------------------------------------------------------------------
LEMMA SameLogs ==
  ASSUME \A p \in Partitions : LogOK(p), log' = log
  PROVE  \A p \in Partitions : LogOK(p)'
BY DEF LogOK

LEMMA SameReads ==
  ASSUME NEW p \in Partitions, ReadOK(p), log' = log,
         p \in DOMAIN assignment' <=> p \in DOMAIN assignment,
         p \in DOMAIN assignment => assignment'[p].position = assignment[p].position,
         buffered'[p] = buffered[p], delivered'[p] = delivered[p], received'[p] = received[p],
         placed'[p] = placed[p], committed'[p] = committed[p],
         p \in doubt.lost => p \in doubt'.lost, p \in doubt.skipped => p \in doubt'.skipped
  PROVE  ReadOK(p)'
BY DEF ReadOK

(* Steps that concern neither the logs nor the records.                    *)
LEMMA FrameReads ==
  ASSUME ReadInv, UNCHANGED <<log, assignment, buffered, delivered, received, placed, committed>>,
         doubt.lost \subseteq doubt'.lost, doubt.skipped \subseteq doubt'.skipped, DOMAIN doubt' = DOMAIN doubt,
         RoundOK', CachesOK'
  PROVE  ReadInv'
<1>1. \A p \in Partitions : LogOK(p)' BY SameLogs DEF ReadInv
<1>2. ReadShape' BY DEF ReadInv, ReadShape
<1>3. ASSUME NEW p \in Partitions
      PROVE  ReadOK(p)'
  BY SameReads DEF ReadInv
<1> QED BY <1>1, <1>2, <1>3 DEF ReadInv

LEMMA SameRound ==
  ASSUME RoundOK, UNCHANGED <<round, polling, assignment>>
  PROVE  RoundOK'
BY DEF RoundOK

LEMMA NoRound ==
  ASSUME RoundOK, ~polling, UNCHANGED <<round, polling>>
  PROVE  RoundOK'
BY DEF RoundOK

LEMMA SameCaches ==
  ASSUME CachesOK, caches' = caches
  PROVE  CachesOK'
BY DEF CachesOK

LEMMA PollReads ==
  ASSUME ReadInv, PollStart
  PROVE  ReadInv'
<1> DEFINE active == { p \in DOMAIN assignment : ~assignment[p].paused /\ Resolved[p] # NoLeader }
           leaders == { Resolved[p] : p \in active }
           live == { b \in DOMAIN fetchers : b \in leaders \/ fetchers[b].id # NO_SESSION }
           wanted(b) == [p \in { q \in active : Resolved[q] = b } |-> assignment[p].position]
<1>1. /\ round' = [b \in leaders \cup live |-> wanted(b)]
      /\ polling' = (leaders \cup live # {})
      /\ UNCHANGED <<log, caches, assignment, buffered, delivered, received, placed, committed, doubt>>
  BY Zenon DEF PollStart, brokerVars, historyVars
<1>2. \A b : \A p \in DOMAIN wanted(b) : p \in DOMAIN assignment /\ wanted(b)[p] = assignment[p].position
  OBVIOUS
<1> HIDE DEF leaders, live, wanted
<1>3. DOMAIN round' = leaders \cup live /\ \A b \in DOMAIN round' : round'[b] = wanted(b) BY <1>1
<1>4. RoundOK'
  <2>1. ~polling' => DOMAIN round' = {} BY <1>1, <1>3
  <2>2. ASSUME NEW b \in DOMAIN round', NEW p \in DOMAIN round'[b]
        PROVE  p \in DOMAIN assignment' /\ round'[b][p] \in Int /\ round'[b][p] <= assignment'[p].position
    <3>1. p \in DOMAIN wanted(b) /\ round'[b][p] = wanted(b)[p] BY <1>3
    <3>2. p \in DOMAIN assignment /\ round'[b][p] = assignment[p].position /\ assignment[p].position \in Int
      BY <1>2, <3>1 DEF ReadInv, ReadShape
    <3> QED BY <1>1, <3>2
  <2> QED BY <2>1, <2>2 DEF RoundOK
<1>5. CachesOK' BY <1>1, SameCaches DEF ReadInv
<1> QED BY <1>1, <1>4, <1>5, FrameReads

(* Records are handed out.                                                 *)
LEMMA HandedReads ==
  ASSUME ReadInv, HandOut(buffered), UNCHANGED <<log, caches, committed, assignment, placed, doubt>>, RoundOK'
  PROVE  ReadInv'
<1>1. /\ buffered' = [p \in Partitions |-> <<>>]
      /\ delivered' = [p \in Partitions |-> delivered[p] \o buffered[p]]
      /\ received' = [p \in Partitions |-> received[p] \cup ToSet(buffered[p])]
  BY DEF HandOut, Empty
<1>2. ASSUME NEW p \in Partitions
      PROVE  buffered[p] \in Seq(Nat) /\ delivered[p] \in Seq(Nat)
  BY DEF ReadInv, ReadShape
<1>3. ReadShape'
  <2>1. buffered' \in [Partitions -> Seq(Nat)] /\ DOMAIN received' = Partitions BY <1>1
  <2>2. \A p \in Partitions : delivered[p] \o buffered[p] \in Seq(Nat) BY <1>2, JoinFacts
  <2>3. delivered' \in [Partitions -> Seq(Nat)] BY <1>1, <2>2
  <2> QED BY <2>1, <2>3 DEF ReadInv, ReadShape
<1>4. ASSUME NEW p \in Partitions
      PROVE  ReadOK(p)'
  <2>1. PICK L, st, pl, pos, del, rec, buf :
          /\ L = log[p].batches /\ st = log[p].start /\ pl = placed[p] /\ del = delivered[p]
          /\ rec = received[p] /\ buf = buffered[p]
          /\ p \in DOMAIN assignment => pos = assignment[p].position
          /\ p \notin DOMAIN assignment => pos = 0
    OBVIOUS
  <2>2. pl \in Int /\ pos \in Int /\ del \in Seq(Nat) /\ buf \in Seq(Nat) BY <2>1 DEF ReadInv, ReadShape
  <2>3. buffered'[p] = <<>> /\ delivered'[p] = del \o buf /\ received'[p] = rec \cup ToSet(buf) BY <1>1, <2>1
  <2>4. /\ Ordered(L, st, CursorOf(pl, del), pos, buf) => Ordered(L, st, CursorOf(pl, del \o buf), pos, <<>>)
        /\ Gapless(L, pl, pos, del, buf) => Gapless(L, pl, pos, del \o buf, <<>>)
        /\ Kept(L, pos, rec, buf) => Kept(L, pos, rec \cup ToSet(buf), <<>>)
        /\ \A upto : Kept(L, upto, rec, <<>>) => Kept(L, upto, rec \cup ToSet(buf), <<>>)
    BY <2>2, HandOutReads
  <2>5. ReadOK(p) BY DEF ReadInv
  <2> QED BY <2>1, <2>3, <2>4, <2>5 DEF ReadOK
<1>5. CachesOK' /\ \A p \in Partitions : LogOK(p)' BY SameCaches, SameLogs DEF ReadInv
<1> QED BY <1>3, <1>4, <1>5 DEF ReadInv

-----------------------------------------------------------------------------
(* The application moves partitions.                                       *)

(* A partition that is placed at an offset, with nothing of it waiting.    *)
LEMMA PlacedReads ==
  ASSUME NEW p \in Partitions, NEW o \in Int, LogOK(p), log' = log,
         p \in DOMAIN assignment', assignment'[p].position = o,
         buffered'[p] = <<>>, delivered'[p] = <<>>, placed'[p] = o, committed'[p] = committed[p], received'[p] = received[p],
         p \notin doubt'.skipped => /\ Kept(log[p].batches, committed[p], received[p], <<>>)
                                    /\ Kept(log[p].batches, o, received[p], <<>>)
  PROVE  ReadOK(p)'
<1>1. IsLog(log[p].batches) BY DEF LogOK
<1>2. PICK L, st : L = log[p].batches /\ st = log[p].start OBVIOUS
<1>3. /\ CursorOf(o, <<>>) = o /\ Ordered(L, st, o, o, <<>>) /\ Gapless(L, o, o, <<>>, <<>>)
  BY <1>1, <1>2, FreshReads
<1> QED BY <1>2, <1>3 DEF ReadOK

LEMMA AssignReads ==
  ASSUME ReadInv, NEW parts \in SUBSET Partitions, NEW from \in {"Earliest", "Latest"}, assign(parts, from)
  PROVE  ReadInv'
<1>1. /\ ~polling /\ UNCHANGED <<log, caches, committed, round, polling, received>>
      /\ assignment' = [p \in parts |-> Place(p, resolve(p, from))]
      /\ buffered' = [p \in Partitions |-> <<>>]
      /\ delivered' = [p \in Partitions |-> IF p \in parts THEN <<>> ELSE delivered[p]]
      /\ placed' = [p \in Partitions |-> IF p \in parts THEN resolve(p, from) ELSE placed[p]]
      /\ doubt' = [doubt EXCEPT !.lost = @ \ parts,
                                !.skipped = IF from = "Latest" THEN @ \cup parts ELSE @]
  BY DEF assign, brokerVars, Empty
<1>2. RoundOK' /\ CachesOK' /\ \A p \in Partitions : LogOK(p)'
  BY <1>1, NoRound, SameCaches, SameLogs DEF ReadInv
<1>3. ASSUME NEW p \in Partitions
      PROVE  /\ resolve(p, from) \in Int
             /\ from = "Earliest" => resolve(p, from) = log[p].start
  <2>1. log[p].start \in Int /\ LogEnd(log[p].batches) \in Int BY LogEndFacts DEF ReadInv, LogOK
  <2> QED BY <2>1 DEF resolve
<1>4. /\ DOMAIN doubt' = {"unsent", "lost", "skipped"}
      /\ doubt'.lost = doubt.lost \ parts
      /\ doubt'.skipped = IF from = "Latest" THEN doubt.skipped \cup parts ELSE doubt.skipped
  BY <1>1 DEF ReadInv, ReadShape
<1>5. ASSUME NEW p \in parts
      PROVE  /\ DOMAIN assignment'[p] = {"position", "paused", "high_watermark"}
             /\ assignment'[p].position = resolve(p, from)
  BY <1>1 DEF Place
<1>6. ReadShape'
  <2>1. DOMAIN assignment' = parts BY <1>1
  <2>2. \A p \in DOMAIN assignment' : /\ DOMAIN assignment'[p] = {"position", "paused", "high_watermark"}
                                      /\ assignment'[p].position \in Int
    BY <1>3, <1>5, <2>1
  <2>3. buffered' \in [Partitions -> Seq(Nat)] BY <1>1
  <2>4. delivered' \in [Partitions -> Seq(Nat)] BY <1>1 DEF ReadInv, ReadShape
  <2>5. DOMAIN placed' = Partitions /\ \A p \in Partitions : placed'[p] \in Int
    BY <1>1, <1>3 DEF ReadInv, ReadShape
  <2> QED BY <1>1, <1>4, <2>1, <2>2, <2>3, <2>4, <2>5 DEF ReadInv, ReadShape
<1>7. ASSUME NEW p \in Partitions
      PROVE  ReadOK(p)'
  <2>1. LogOK(p) /\ ReadOK(p) BY DEF ReadInv
  <2>2. CASE p \in parts
    <3>1. PICK o \in Int : o = resolve(p, from) BY <1>3
    <3>2. from = "Earliest" => Kept(log[p].batches, o, received[p], <<>>)
      BY <1>3, <2>1, <3>1, StartKept DEF LogOK
    <3>3. p \notin doubt'.skipped => p \notin doubt.skipped /\ from = "Earliest" BY <1>4, <2>2
    <3>4. p \notin doubt'.skipped => /\ Kept(log[p].batches, committed[p], received[p], <<>>)
                                     /\ Kept(log[p].batches, o, received[p], <<>>)
      BY <2>1, <3>2, <3>3 DEF ReadOK
    <3>5. /\ p \in DOMAIN assignment' /\ assignment'[p].position = o
          /\ buffered'[p] = <<>> /\ delivered'[p] = <<>> /\ placed'[p] = o
      BY <1>1, <1>5, <2>2, <3>1
    <3> QED BY <1>1, <2>1, <3>4, <3>5, PlacedReads
  <2>3. CASE p \notin parts
    <3>1. p \notin DOMAIN assignment' /\ buffered'[p] = <<>> /\ (p \notin doubt'.skipped => p \notin doubt.skipped)
      BY <1>1, <1>4, <2>3
    <3> QED BY <1>1, <2>1, <3>1 DEF ReadOK
  <2> QED BY <2>2, <2>3
<1> QED BY <1>2, <1>6, <1>7 DEF ReadInv

LEMMA SeekReads ==
  ASSUME ReadInv, NEW p \in Partitions, NEW o \in Starts, seek(p, o)
  PROVE  ReadInv'
<1>1. /\ ~polling /\ p \in DOMAIN assignment /\ UNCHANGED <<log, caches, committed, round, polling, received>>
      /\ assignment' = [assignment EXCEPT ![p].position = o]
      /\ buffered' = [buffered EXCEPT ![p] = <<>>]
      /\ delivered' = [delivered EXCEPT ![p] = <<>>] /\ placed' = [placed EXCEPT ![p] = o]
      /\ doubt' = [doubt EXCEPT !.lost = @ \ {p}, !.skipped = @ \cup {p}]
  BY DEF seek, brokerVars
<1>2. RoundOK' /\ CachesOK' /\ \A q \in Partitions : LogOK(q)'
  BY <1>1, NoRound, SameCaches, SameLogs DEF ReadInv
<1>3. o \in Int BY ConsumerAssumption
<1>4. /\ DOMAIN doubt' = {"unsent", "lost", "skipped"}
      /\ doubt'.lost = doubt.lost \ {p} /\ doubt'.skipped = doubt.skipped \cup {p}
  BY <1>1 DEF ReadInv, ReadShape
<1>5. /\ DOMAIN assignment' = DOMAIN assignment
      /\ assignment'[p].position = o /\ DOMAIN assignment'[p] = DOMAIN assignment[p]
      /\ \A q \in DOMAIN assignment \ {p} : assignment'[q] = assignment[q]
  BY <1>1 DEF ReadInv, ReadShape
<1>6. ReadShape'
  <2>1. buffered' \in [Partitions -> Seq(Nat)] /\ delivered' \in [Partitions -> Seq(Nat)]
    BY <1>1 DEF ReadInv, ReadShape
  <2>2. DOMAIN placed' = Partitions /\ \A q \in Partitions : placed'[q] \in Int
    BY <1>1, <1>3 DEF ReadInv, ReadShape
  <2>3. \A q \in DOMAIN assignment' : /\ DOMAIN assignment'[q] = {"position", "paused", "high_watermark"}
                                      /\ assignment'[q].position \in Int
    BY <1>3, <1>5 DEF ReadInv, ReadShape
  <2> QED BY <1>1, <1>4, <1>5, <2>1, <2>2, <2>3 DEF ReadInv, ReadShape
<1>7. ASSUME NEW q \in Partitions
      PROVE  ReadOK(q)'
  <2>1. LogOK(q) /\ ReadOK(q) BY DEF ReadInv
  <2>2. CASE q = p
    <3>1. /\ q \in DOMAIN assignment' /\ assignment'[q].position = o
          /\ buffered'[q] = <<>> /\ delivered'[q] = <<>> /\ placed'[q] = o /\ q \in doubt'.skipped
      BY <1>1, <1>4, <1>5, <2>2 DEF ReadInv, ReadShape
    <3> QED BY <1>1, <1>3, <2>1, <3>1, PlacedReads
  <2>3. CASE q # p
    <3>1. /\ buffered'[q] = buffered[q] /\ delivered'[q] = delivered[q] /\ placed'[q] = placed[q]
          /\ q \in doubt.lost => q \in doubt'.lost
          /\ q \in doubt.skipped => q \in doubt'.skipped
          /\ q \in DOMAIN assignment => assignment'[q].position = assignment[q].position
      BY <1>1, <1>4, <1>5, <2>3 DEF ReadInv, ReadShape
    <3> QED BY <1>1, <1>5, <2>1, <3>1, SameReads
  <2> QED BY <2>2, <2>3
<1> QED BY <1>2, <1>6, <1>7 DEF ReadInv

LEMMA PauseReads ==
  ASSUME ReadInv, NEW p \in Partitions, NEW on, SetPaused(p, on)
  PROVE  ReadInv'
<1>1. /\ ~polling /\ p \in DOMAIN assignment
      /\ UNCHANGED <<log, caches, committed, round, polling, buffered, delivered, received, placed, doubt>>
      /\ assignment' = [assignment EXCEPT ![p].paused = on]
  BY DEF SetPaused, brokerVars, historyVars
<1>2. RoundOK' /\ CachesOK' /\ \A q \in Partitions : LogOK(q)'
  BY <1>1, NoRound, SameCaches, SameLogs DEF ReadInv
<1>3. /\ DOMAIN assignment' = DOMAIN assignment
      /\ \A q \in DOMAIN assignment : /\ assignment'[q].position = assignment[q].position
                                      /\ DOMAIN assignment'[q] = DOMAIN assignment[q]
  <2>1. assignment'[p].position = assignment[p].position /\ DOMAIN assignment'[p] = DOMAIN assignment[p]
    BY <1>1 DEF ReadInv, ReadShape
  <2>2. DOMAIN assignment' = DOMAIN assignment /\ \A q \in DOMAIN assignment \ {p} : assignment'[q] = assignment[q]
    BY <1>1
  <2> QED BY <2>1, <2>2
<1>4. ReadShape' BY <1>1, <1>3 DEF ReadInv, ReadShape
<1>5. ASSUME NEW q \in Partitions
      PROVE  ReadOK(q)'
  BY <1>1, <1>3, SameReads DEF ReadInv
<1> QED BY <1>2, <1>4, <1>5 DEF ReadInv

(* The positions are committed: where records wait, they are in doubt.     *)
LEMMA CommitReads ==
  ASSUME ReadInv, commit
  PROVE  ReadInv'
<1>1. /\ UNCHANGED <<log, caches, assignment, round, polling, buffered, delivered, received, placed>>
      /\ committed' = [p \in Partitions |->
           IF p \in DOMAIN assignment THEN assignment[p].position ELSE committed[p]]
      /\ doubt' = [doubt EXCEPT !.skipped = @ \cup { p \in DOMAIN assignment : Undelivered(p) }]
  BY DEF commit, clientVars
<1>2. RoundOK' /\ CachesOK' /\ \A q \in Partitions : LogOK(q)'
  BY <1>1, SameRound, SameCaches, SameLogs DEF ReadInv
<1>3. /\ DOMAIN doubt' = {"unsent", "lost", "skipped"} /\ doubt'.lost = doubt.lost
      /\ doubt'.skipped = doubt.skipped \cup { p \in DOMAIN assignment : Undelivered(p) }
  BY <1>1 DEF ReadInv, ReadShape
<1>4. ReadShape' BY <1>1, <1>3 DEF ReadInv, ReadShape
<1>5. ASSUME NEW p \in Partitions
      PROVE  ReadOK(p)'
  <2>1. ReadOK(p) /\ (p \notin doubt'.skipped => p \notin doubt.skipped) BY <1>3 DEF ReadInv
  <2>2. CASE p \in DOMAIN assignment
    <3>1. committed'[p] = assignment[p].position /\ (p \notin doubt'.skipped => buffered[p] = <<>>)
      BY <1>1, <1>3, <2>2 DEF Undelivered
    <3> QED BY <1>1, <1>3, <2>1, <2>2, <3>1 DEF ReadOK
  <2>3. CASE p \notin DOMAIN assignment
    <3>1. committed'[p] = committed[p] BY <1>1, <2>3
    <3> QED BY <1>1, <1>3, <2>1, <2>3, <3>1 DEF ReadOK
  <2> QED BY <2>2, <2>3
<1> QED BY <1>2, <1>4, <1>5 DEF ReadInv

LEMMA SeekCommittedReads ==
  ASSUME ReadInv, seek_to_committed
  PROVE  ReadInv'
<1> DEFINE dropped == { p \in DOMAIN assignment \ Sought : Undelivered(p) }
<1>1. /\ ~polling /\ UNCHANGED <<log, caches, committed, round, polling, received>>
      /\ assignment' = [p \in DOMAIN assignment |->
           IF p \in Sought THEN [assignment[p] EXCEPT !.position = committed[p]] ELSE assignment[p]]
      /\ buffered' = [p \in Partitions |-> <<>>]
      /\ placed' = [p \in Partitions |-> IF p \in Sought THEN committed[p] ELSE placed[p]]
      /\ delivered' = [p \in Partitions |-> IF p \in Sought THEN <<>> ELSE delivered[p]]
      /\ doubt' = [doubt EXCEPT !.lost = (@ \ Sought) \cup dropped, !.skipped = @ \cup dropped]
  BY DEF seek_to_committed, brokerVars, Empty
<1>2. RoundOK' /\ CachesOK' /\ \A q \in Partitions : LogOK(q)'
  BY <1>1, NoRound, SameCaches, SameLogs DEF ReadInv
<1>3. /\ DOMAIN doubt' = {"unsent", "lost", "skipped"}
      /\ doubt'.lost = (doubt.lost \ Sought) \cup dropped /\ doubt'.skipped = doubt.skipped \cup dropped
  BY <1>1 DEF ReadInv, ReadShape
<1>4. /\ DOMAIN assignment' = DOMAIN assignment /\ Sought \subseteq DOMAIN assignment
      /\ \A p \in DOMAIN assignment : DOMAIN assignment'[p] = DOMAIN assignment[p]
      /\ \A p \in Sought : assignment'[p].position = committed[p]
      /\ \A p \in DOMAIN assignment \ Sought : assignment'[p].position = assignment[p].position
  <2>1. Sought \subseteq DOMAIN assignment BY DEF Sought
  <2>2. ASSUME NEW p \in DOMAIN assignment
        PROVE  "position" \in DOMAIN assignment[p]
    BY DEF ReadInv, ReadShape
  <2> QED BY <1>1, <2>1, <2>2
<1>5. ReadShape'
  <2>1. buffered' \in [Partitions -> Seq(Nat)] BY <1>1
  <2>2. delivered' \in [Partitions -> Seq(Nat)] BY <1>1 DEF ReadInv, ReadShape
  <2>3. DOMAIN placed' = Partitions /\ \A p \in Partitions : placed'[p] \in Int BY <1>1 DEF ReadInv, ReadShape
  <2>4. \A q \in DOMAIN assignment' : /\ DOMAIN assignment'[q] = {"position", "paused", "high_watermark"}
                                      /\ assignment'[q].position \in Int
    BY <1>4 DEF ReadInv, ReadShape
  <2> QED BY <1>1, <1>3, <1>4, <2>1, <2>2, <2>3, <2>4 DEF ReadInv, ReadShape
<1>6. ASSUME NEW p \in Partitions
      PROVE  ReadOK(p)'
  <2>1. LogOK(p) /\ ReadOK(p) /\ committed[p] \in Int BY DEF ReadInv, ReadShape
  <2>2. CASE p \in Sought
    <3>1. /\ p \in DOMAIN assignment' /\ assignment'[p].position = committed[p]
          /\ buffered'[p] = <<>> /\ delivered'[p] = <<>> /\ placed'[p] = committed[p]
          /\ p \notin doubt'.skipped => p \notin doubt.skipped
      BY <1>1, <1>3, <1>4, <2>2
    <3>2. p \notin doubt'.skipped => Kept(log[p].batches, committed[p], received[p], <<>>)
      BY <2>1, <3>1 DEF ReadOK
    <3>3. PICK o \in Int : o = committed[p] BY <2>1
    <3> QED BY <1>1, <2>1, <3>1, <3>2, <3>3, PlacedReads
  <2>3. CASE p \in DOMAIN assignment \ Sought
    <3>1. /\ assignment'[p].position = assignment[p].position /\ p \in DOMAIN assignment'
          /\ buffered'[p] = <<>> /\ delivered'[p] = delivered[p] /\ placed'[p] = placed[p]
      BY <1>1, <1>4, <2>3
    <3>2. CASE buffered[p] = <<>>
      <4>1. /\ p \in doubt.lost => p \in doubt'.lost
            /\ p \in doubt.skipped => p \in doubt'.skipped
        BY <1>3, <2>3
      <4> QED BY <1>1, <2>1, <2>3, <3>1, <3>2, <4>1, SameReads
    <3>3. CASE buffered[p] # <<>>
      <4>1. p \in doubt'.lost /\ p \in doubt'.skipped BY <1>3, <2>3, <3>3 DEF Undelivered
      <4>2. Ordered(log[p].batches, log[p].start, CursorOf(placed[p], delivered[p]), assignment[p].position, <<>>)
        BY <2>1, <2>3 DEF ReadOK, Ordered, Sorted
      <4> QED BY <1>1, <3>1, <4>1, <4>2 DEF ReadOK
    <3> QED BY <3>2, <3>3
  <2>4. CASE p \notin DOMAIN assignment
    <3>1. /\ p \notin DOMAIN assignment' /\ buffered'[p] = <<>>
          /\ p \notin doubt'.skipped => p \notin doubt.skipped
      BY <1>1, <1>3, <1>4, <2>4
    <3> QED BY <1>1, <2>1, <3>1 DEF ReadOK
  <2> QED BY <2>2, <2>3, <2>4
<1> QED BY <1>2, <1>5, <1>6 DEF ReadInv

LEMMA RestartReads ==
  ASSUME ReadInv, Restart
  PROVE  ReadInv'
<1> DEFINE from(p) == IF committed[p] = None THEN log[p].start ELSE committed[p]
<1>1. /\ UNCHANGED <<log, caches, committed, received>>
      /\ assignment' = [p \in DOMAIN assignment |-> Place(p, from(p))]
      /\ buffered' = [p \in Partitions |-> <<>>] /\ round' = <<>>
      /\ placed' = [p \in Partitions |-> IF p \in DOMAIN assignment THEN from(p) ELSE placed[p]]
      /\ delivered' = [p \in Partitions |-> IF p \in DOMAIN assignment THEN <<>> ELSE delivered[p]]
      /\ doubt' = [doubt EXCEPT !.unsent = {}, !.lost = {}]
  BY DEF Restart, brokerVars, Empty
<1>2. DOMAIN round' = {} BY <1>1
<1>3. RoundOK' /\ CachesOK' /\ \A q \in Partitions : LogOK(q)'
  BY <1>1, <1>2, SameCaches, SameLogs DEF ReadInv, RoundOK
<1>4. DOMAIN doubt' = {"unsent", "lost", "skipped"} /\ doubt'.skipped = doubt.skipped
  BY <1>1 DEF ReadInv, ReadShape
<1>5. ASSUME NEW p \in Partitions
      PROVE  from(p) \in Int
  BY DEF ReadInv, ReadShape, LogOK
<1>6. /\ DOMAIN assignment' = DOMAIN assignment
      /\ \A p \in DOMAIN assignment : /\ DOMAIN assignment'[p] = {"position", "paused", "high_watermark"}
                                      /\ assignment'[p].position = from(p)
  BY <1>1 DEF Place
<1>7. ReadShape'
  <2>1. buffered' \in [Partitions -> Seq(Nat)] BY <1>1
  <2>2. delivered' \in [Partitions -> Seq(Nat)] BY <1>1 DEF ReadInv, ReadShape
  <2>3. DOMAIN placed' = Partitions /\ \A p \in Partitions : placed'[p] \in Int
    <3> HIDE DEF from
    <3> QED BY <1>1, <1>5 DEF ReadInv, ReadShape
  <2>4. \A q \in DOMAIN assignment' : /\ DOMAIN assignment'[q] = {"position", "paused", "high_watermark"}
                                      /\ assignment'[q].position \in Int
    <3> HIDE DEF from
    <3> QED BY <1>5, <1>6 DEF ReadInv, ReadShape
  <2> QED BY <1>1, <1>4, <1>6, <2>1, <2>2, <2>3, <2>4 DEF ReadInv, ReadShape
<1>8. ASSUME NEW p \in Partitions
      PROVE  ReadOK(p)'
  <2>1. LogOK(p) /\ ReadOK(p) BY DEF ReadInv
  <2>2. CASE p \in DOMAIN assignment
    <3>1. PICK o \in Int : o = from(p) BY <1>5
    <3>2. /\ p \in DOMAIN assignment' /\ assignment'[p].position = o
          /\ buffered'[p] = <<>> /\ delivered'[p] = <<>> /\ placed'[p] = o
      <4> HIDE DEF from
      <4> QED BY <1>1, <1>6, <2>2, <3>1
    <3>3. Kept(log[p].batches, log[p].start, received[p], <<>>) BY <2>1, StartKept DEF LogOK
    <3>4. p \notin doubt'.skipped => /\ Kept(log[p].batches, committed[p], received[p], <<>>)
                                     /\ Kept(log[p].batches, o, received[p], <<>>)
      BY <1>4, <2>1, <3>1, <3>3 DEF ReadOK
    <3> QED BY <1>1, <2>1, <3>2, <3>4, PlacedReads
  <2>3. CASE p \notin DOMAIN assignment
    <3>1. p \notin DOMAIN assignment' /\ buffered'[p] = <<>> BY <1>1, <1>6, <2>3
    <3> QED BY <1>1, <1>4, <2>1, <3>1 DEF ReadOK
  <2> QED BY <2>2, <2>3
<1> QED BY <1>3, <1>7, <1>8 DEF ReadInv

-----------------------------------------------------------------------------
(* The brokers.                                                            *)

(* A log that grew or lost its beginning changes nothing for the readers.  *)
LogStep(p, M, nst) ==
  /\ LogMoved(log[p].batches, log[p].start, M, nst)
  /\ nst <= LogEnd(M) /\ \A i \in DOMAIN M : nst <= M[i].base
  /\ DOMAIN log' = Partitions /\ DOMAIN log'[p] = {"batches", "start"}
  /\ log'[p].batches = M /\ log'[p].start = nst
  /\ \A q \in Partitions \ {p} : log'[q] = log[q]
  /\ UNCHANGED <<caches, committed, assignment, round, polling, buffered, delivered, received, placed, doubt>>

LEMMA MovedReads ==
  ASSUME ReadInv, NEW p \in Partitions, NEW M, NEW nst, LogStep(p, M, nst)
  PROVE  ReadInv'
<1> USE DEF LogStep
<1>1. RoundOK' /\ CachesOK' BY SameRound, SameCaches DEF ReadInv
<1>2. ReadShape' BY DEF ReadInv, ReadShape
<1>3. ASSUME NEW q \in Partitions
      PROVE  LogOK(q)'
  <2>1. CASE q = p BY <2>1 DEF LogOK, LogMoved
  <2>2. CASE q # p BY <2>2 DEF ReadInv, LogOK
  <2> QED BY <2>1, <2>2
<1>4. ASSUME NEW q \in Partitions
      PROVE  ReadOK(q)'
  <2>1. ReadOK(q) BY DEF ReadInv
  <2>2. CASE q # p BY <2>1, <2>2 DEF ReadOK
  <2>3. CASE q = p
    <3>1. PICK L, st, pl, pos, com, del, rec, buf :
            /\ L = log[p].batches /\ st = log[p].start /\ pl = placed[p] /\ del = delivered[p]
            /\ rec = received[p] /\ buf = buffered[p] /\ com = committed[p]
            /\ p \in DOMAIN assignment => pos = assignment[p].position
            /\ p \notin DOMAIN assignment => pos = 0
      OBVIOUS
    <3>2. /\ pl \in Int /\ pos \in Int /\ com \in Int /\ del \in Seq(Nat) /\ buf \in Seq(Nat)
          /\ LogMoved(L, st, M, nst)
      BY <3>1 DEF ReadInv, ReadShape
    <3>3. PICK cur : cur = CursorOf(pl, del) OBVIOUS
    <3>4. cur \in Int
      <4>1. CASE del = <<>> BY <3>2, <3>3, <4>1 DEF CursorOf
      <4>2. CASE del # <<>>
        <5>1. Len(del) \in DOMAIN del BY <3>2, <4>2
        <5>2. del[Len(del)] \in Nat BY <3>2, <5>1
        <5> QED BY <3>3, <4>2, <5>2 DEF CursorOf
      <4> QED BY <4>1, <4>2
    <3>5. /\ Ordered(L, st, cur, pos, buf) => Ordered(M, nst, cur, pos, buf)
          /\ Gapless(L, pl, pos, del, buf) => Gapless(M, pl, pos, del, buf)
          /\ Kept(L, com, rec, <<>>) => Kept(M, com, rec, <<>>)
          /\ Kept(L, pos, rec, buf) => Kept(M, pos, rec, buf)
      BY <3>2, <3>4, MovedOrdered, MovedGapless, MovedKept
    <3> QED BY <2>1, <2>3, <3>1, <3>3, <3>5 DEF ReadOK
  <2> QED BY <2>2, <2>3
<1> QED BY <1>1, <1>2, <1>3, <1>4 DEF ReadInv

LEMMA GrowMoves ==
  ASSUME ReadInv, NEW p \in Partitions, Grow(p)
  PROVE  \E M, nst : LogStep(p, M, nst)
<1>1. /\ log' = [log EXCEPT ![p].batches = Append(@, Plain(LogEnd(log[p].batches), LogEnd(log[p].batches),
                                                          {LogEnd(log[p].batches)}))]
      /\ UNCHANGED <<caches, committed, assignment, round, polling, buffered, delivered, received, placed, doubt>>
  BY DEF Grow, clientVars, historyVars
<1>2. PICK L, st : L = log[p].batches /\ st = log[p].start OBVIOUS
<1>3. /\ IsLog(L) /\ st \in Nat /\ st <= LogEnd(L) /\ \A i \in DOMAIN L : st <= L[i].base
      /\ DOMAIN log = Partitions /\ DOMAIN log[p] = {"batches", "start"}
  BY <1>2 DEF ReadInv, LogOK, ReadShape
<1>4. LogMoved(L, st, Grown(L), st) BY <1>3, GrownMoved
<1>5. PICK M : M = Grown(L) OBVIOUS
<1>6. /\ DOMAIN log' = Partitions /\ DOMAIN log'[p] = {"batches", "start"}
      /\ log'[p].batches = M /\ log'[p].start = st
      /\ \A q \in Partitions \ {p} : log'[q] = log[q]
  <2>1. log' = [log EXCEPT ![p].batches = M] BY <1>1, <1>2, <1>5 DEF Grown
  <2> QED BY <1>2, <1>3, <2>1
<1>7. st <= LogEnd(M) /\ \A i \in DOMAIN M : st <= M[i].base
  <2>1. /\ \A i \in DOMAIN L : M[i] = L[i]
        /\ M[Len(L) + 1] = Plain(LogEnd(L), LogEnd(L), {LogEnd(L)})
        /\ \A i \in DOMAIN M : i \in DOMAIN L \/ i = Len(L) + 1
        /\ LogEnd(M) = LogEnd(L) + 1
    BY <1>3, <1>5, GrownFacts
  <2>2. M[Len(L) + 1].base = LogEnd(L) BY <2>1 DEF Plain
  <2>3. LogEnd(L) \in Nat BY <1>3, LogEndFacts
  <2> QED BY <1>3, <2>1, <2>2, <2>3
<1>8. LogMoved(log[p].batches, log[p].start, M, st) BY <1>2, <1>4, <1>5
<1> QED BY <1>1, <1>6, <1>7, <1>8 DEF LogStep

LEMMA DeleteMoves ==
  ASSUME ReadInv, NEW p \in Partitions, DeleteFirst(p)
  PROVE  \E M, nst : LogStep(p, M, nst)
<1>1. PICK L, st, M, nst : L = log[p].batches /\ st = log[p].start /\ M = Tail(L) /\ nst = Head(L).last + 1
  OBVIOUS
<1>2. /\ log' = [log EXCEPT ![p].start = nst, ![p].batches = M] /\ Len(L) > 1
      /\ UNCHANGED <<caches, committed, assignment, round, polling, buffered, delivered, received, placed, doubt>>
  BY <1>1 DEF DeleteFirst, clientVars, historyVars
<1>3. /\ IsLog(L) /\ st \in Nat /\ \A i \in DOMAIN L : st <= L[i].base
      /\ DOMAIN log = Partitions /\ DOMAIN log[p] = {"batches", "start"}
  BY <1>1 DEF ReadInv, LogOK, ReadShape
<1>4. LogMoved(L, st, M, nst) /\ nst <= LogEnd(M) /\ \A i \in DOMAIN M : nst <= M[i].base
  BY <1>1, <1>2, <1>3, TailMoved
<1>5. /\ DOMAIN log' = Partitions /\ DOMAIN log'[p] = {"batches", "start"}
      /\ log'[p].batches = M /\ log'[p].start = nst
      /\ \A q \in Partitions \ {p} : log'[q] = log[q]
  BY <1>2, <1>3
<1>6. LogMoved(log[p].batches, log[p].start, M, nst) BY <1>1, <1>4
<1> QED BY <1>2, <1>4, <1>5, <1>6 DEF LogStep

(* What a request asks for are offsets.                                    *)
IntValued(f) == \A p \in DOMAIN f : f[p] \in Int

LEMMA CachedInts ==
  ASSUME NEW s, NEW c, NEW w, NEW grant, IntValued(c.parts), IntValued(w), IsCache(c), IsFcn(w)
  PROVE  /\ IntValued(next(s, w).delta.include)
         /\ IntValued(Cached(c, next(s, w).delta, grant).parts)
         /\ IntValued(Asked(c, next(s, w).delta))
<1> DEFINE d == next(s, w).delta
           merged == [p \in (DOMAIN c.parts \ d.forget) \cup DOMAIN d.include |->
                        IF p \in DOMAIN d.include THEN d.include[p] ELSE c.parts[p]]
<1>1. IntValued(d.include) BY DEF next, IntValued
<1> HIDE DEF d
<1>2. IntValued(merged) BY <1>1 DEF IntValued
<1> HIDE DEF merged
<1>3. \A g : Cached(c, d, g).parts = merged \/ Cached(c, d, g).parts = c.parts \/ Cached(c, d, g).parts = d.include
  <2>1. \A g : Cached(c, d, g) = IF d.id # NO_SESSION
                 THEN [c EXCEPT !.epoch = d.epoch, !.parts = merged]
               ELSE IF g = NO_SESSION THEN c
               ELSE [id |-> g, epoch |-> INITIAL_EPOCH, parts |-> d.include]
    BY DEF Cached, merged
  <2>2. [c EXCEPT !.epoch = d.epoch, !.parts = merged].parts = merged BY DEF IsCache
  <2>3. ASSUME NEW g
        PROVE  Cached(c, d, g).parts = merged \/ Cached(c, d, g).parts = c.parts \/ Cached(c, d, g).parts = d.include
    <3>1. CASE d.id # NO_SESSION BY <2>1, <2>2, <3>1
    <3>2. CASE ~(d.id # NO_SESSION) /\ g = NO_SESSION
      <4>1. Cached(c, d, g) = c BY <2>1, <3>2
      <4> QED BY <4>1
    <3>3. CASE ~(d.id # NO_SESSION) /\ g # NO_SESSION
      <4>1. Cached(c, d, g) = [id |-> g, epoch |-> INITIAL_EPOCH, parts |-> d.include] BY <2>1, <3>3
      <4> QED BY <4>1
    <3> QED BY <3>1, <3>2, <3>3
  <2> QED BY <2>3
<1>4. \A g : IntValued(Cached(c, d, g).parts) BY <1>1, <1>2, <1>3
<1>5. IntValued(Asked(c, d)) BY <1>1, <1>4 DEF Asked
<1> QED BY <1>1, <1>4, <1>5 DEF d

LEMMA AbortedReads ==
  ASSUME ReadInv, SessionInv, NEW b \in Brokers, FetchAborted(b)
  PROVE  ReadInv'
<1> DEFINE s    == SessionOf(b)
           sent == next(s, round[b])
           d    == Cached(caches[b], sent.delta, NewId(s, caches[b]))
<1>1. PICK reached \in BOOLEAN :
        /\ caches' = IF reached /\ ~Refuses(caches[b], sent.delta)
                     THEN [caches EXCEPT ![b] = Cached(@, sent.delta, NewId(s, caches[b]))] ELSE caches
        /\ doubt' = IF reached THEN doubt ELSE [doubt EXCEPT !.unsent = @ \cup {b}]
  BY Zenon DEF FetchAborted
<1>2. /\ round' = <<>> /\ b \in DOMAIN round
      /\ UNCHANGED <<log, committed, assignment, buffered, delivered, received, placed>>
  BY Zenon DEF FetchAborted
<1>3. IsFcn(round[b]) /\ IsCache(caches[b]) /\ DOMAIN caches = Brokers BY <1>2 DEF SessionInv, SessionShape
<1>4. IntValued(round[b]) /\ IntValued(caches[b].parts) BY <1>2 DEF ReadInv, RoundOK, CachesOK, IntValued
<1>5. IntValued(d.parts) BY <1>3, <1>4, CachedInts
<1> HIDE DEF d
<1>6. \A x \in Brokers : caches'[x] = caches[x] \/ caches'[x] = d BY <1>1, <1>3 DEF d
<1>7. CachesOK' BY <1>5, <1>6 DEF ReadInv, CachesOK, IntValued
<1>8. DOMAIN round' = {} BY <1>2
<1>9. RoundOK' BY <1>8 DEF RoundOK
<1>10. doubt'.lost = doubt.lost /\ doubt'.skipped = doubt.skipped /\ DOMAIN doubt' = DOMAIN doubt
  BY <1>1 DEF ReadInv, ReadShape
<1> QED BY <1>2, <1>7, <1>9, <1>10, FrameReads

LEMMA EvictReads ==
  ASSUME ReadInv, SessionInv, NEW b \in Brokers, Evict(b)
  PROVE  ReadInv'
<1>1. /\ caches' = [caches EXCEPT ![b] = NoCache]
      /\ UNCHANGED <<log, committed, assignment, round, polling, buffered, delivered, received, placed, doubt>>
  BY DEF Evict, clientVars, historyVars
<1>2. DOMAIN NoCache.parts = {} BY DEF NoCache
<1>3. \A x \in Brokers : caches'[x] = caches[x] \/ caches'[x] = NoCache BY <1>1 DEF SessionInv, SessionShape
<1>4. CachesOK' BY <1>2, <1>3 DEF ReadInv, CachesOK
<1>5. RoundOK' BY <1>1, SameRound DEF ReadInv
<1> QED BY <1>1, <1>4, <1>5, FrameReads

(* What a broker is asked for is what the round wants of it, unless it was *)
(* not told (see SessionAgrees).                                           *)
Told(b, asked) ==
  /\ IntValued(asked)
  /\ b \notin doubt.unsent => asked = round[b]

LEMMA FetchTold ==
  ASSUME SessionInv, ReadInv, NEW b \in Brokers, b \in DOMAIN round, NEW anew \in BOOLEAN, NEW room \in BOOLEAN
  PROVE  LET s        == SessionOf(b)
             first    == next(s, round[b])
             resent   == IF anew /\ ~Refuses(caches[b], first.delta)
                         THEN Cached(caches[b], first.delta, NewId(s, caches[b]))
                         ELSE caches[b]
             grant    == IF room THEN NewId(s, resent) ELSE NO_SESSION
             refused  == Refuses(resent, first.delta)
             sent     == IF refused THEN next(reset, round[b]) ELSE first
         IN Told(b, Asked(resent, sent.delta)) /\ IntValued(Cached(resent, sent.delta, grant).parts)
<1> DEFINE s        == SessionOf(b)
           w        == round[b]
           first    == next(s, w)
           resent   == IF anew /\ ~Refuses(caches[b], first.delta)
                       THEN Cached(caches[b], first.delta, NewId(s, caches[b]))
                       ELSE caches[b]
           grant    == IF room THEN NewId(s, resent) ELSE NO_SESSION
           sent     == IF Refuses(resent, first.delta) THEN next(reset, w) ELSE first
<1>1. IsSession(s) /\ IsFcn(w) /\ IsCache(caches[b]) BY FreshShape DEF SessionOf, SessionInv, SessionShape
<1>2. b \notin doubt.unsent => Agree(s, caches[b])
  BY FreshShape DEF SessionOf, SessionInv, SessionAgrees, Agree
<1>3. IntValued(w) /\ IntValued(caches[b].parts) BY DEF ReadInv, RoundOK, CachesOK, IntValued
<1>4. IsCache(resent)
  <2>1. CASE s.id = NO_SESSION BY <1>1, <2>1, OpenedAgrees
  <2>2. CASE s.id # NO_SESSION BY <1>1, <2>2, ServedFacts
  <2> QED BY <2>1, <2>2
<1>5. IntValued(resent.parts)
  <2>1. IntValued(Cached(caches[b], first.delta, NewId(s, caches[b])).parts) BY <1>1, <1>3, CachedInts
  <2> HIDE DEF first, s
  <2> QED BY <1>3, <2>1
<1>6. IntValued(Asked(resent, sent.delta)) /\ IntValued(Cached(resent, sent.delta, grant).parts)
  <2>1. sent = next(reset, w) \/ sent = next(s, w) OBVIOUS
  <2> HIDE DEF resent, sent, grant
  <2> QED BY <1>1, <1>3, <1>4, <1>5, <2>1, CachedInts
<1>7. ASSUME b \notin doubt.unsent
      PROVE  Asked(resent, sent.delta) = w
  <2>1. CASE s.id = NO_SESSION
    <3>1. first.delta.id = NO_SESSION /\ first.delta.include = w BY <1>1, <2>1, NextFacts
    <3>2. sent = first BY <3>1 DEF Refuses
    <3> QED BY <3>1, <3>2 DEF Asked
  <2>2. CASE s.id # NO_SESSION /\ Refuses(resent, first.delta)
    <3>1. sent = next(FreshSession, w) /\ sent.delta.id = NO_SESSION /\ sent.delta.include = w
      BY <1>1, <2>2, FreshShape, NextFacts DEF reset
    <3> HIDE DEF sent
    <3> QED BY <3>1 DEF Asked
  <2>3. CASE s.id # NO_SESSION /\ ~Refuses(resent, first.delta)
    <3>1. resent = caches[b] BY <1>1, <2>3, ServedFacts
    <3>2. sent = first /\ sent.delta.id = s.id /\ sent.delta.epoch = s.epoch BY <1>1, <2>3, NextFacts
    <3>3. s.known = caches[b].parts
      <4>1. ~Refuses(caches[b], first.delta) /\ first.delta.id = s.id /\ first.delta.epoch = s.epoch
        BY <2>3, <3>1, <3>2
      <4> HIDE DEF first
      <4> QED BY <1>2, <1>7, <2>3, <4>1 DEF Agree, Refuses
    <3>4. Cached(caches[b], first.delta, NO_SESSION).parts = w BY <1>1, <2>3, <3>3, ServedFacts
    <3> HIDE DEF first, resent, sent
    <3> QED BY <2>3, <3>1, <3>2, <3>4 DEF Asked
  <2> QED BY <2>1, <2>2, <2>3
<1> HIDE DEF resent, sent, grant
<1>8. Told(b, Asked(resent, sent.delta)) BY <1>6, <1>7 DEF Told
<1> QED BY <1>6, <1>8 DEF resent, sent, grant

(* The effect of an answer on the partitions.                              *)
Took(b, asked) ==
  [p \in DOMAIN asked \cap DOMAIN assignment |-> Absorbed(p, PartAnswer(b, p, asked[p]))]
Misread(b, asked) ==
  IF b \notin doubt.unsent THEN {}
  ELSE { p \in DOMAIN asked \cap DOMAIN assignment : p \notin DOMAIN round[b] \/ asked[p] # round[b][p] }
Heard(b, asked) == Buffer(Took(b, asked), DOMAIN asked \cap DOMAIN assignment)

Fetches(b, asked, cache) ==
  /\ Told(b, asked) /\ IntValued(cache.parts)
  /\ caches' = [caches EXCEPT ![b] = cache]
  /\ assignment' = [p \in DOMAIN assignment |->
       IF p \in DOMAIN asked \cap DOMAIN assignment /\ PartAnswer(b, p, asked[p]).error = "none"
       THEN [assignment[p] EXCEPT !.position = Took(b, asked)[p].position,
                                  !.high_watermark = PartAnswer(b, p, asked[p]).hw]
       ELSE assignment[p]]
  /\ round' = [c \in DOMAIN round \ {b} |-> round[c]]
  /\ polling' = ([c \in DOMAIN round \ {b} |-> round[c]] # <<>>)
  /\ DOMAIN doubt' = {"unsent", "lost", "skipped"}
  /\ doubt'.lost = doubt.lost \cup Misread(b, asked)
  /\ doubt'.skipped = doubt.skipped \cup Misread(b, asked)
  /\ \/ HandOut(Heard(b, asked))
     \/ buffered' = Heard(b, asked) /\ UNCHANGED <<delivered, received>>

LEMMA FetchFetches ==
  ASSUME SessionInv, ReadInv, NEW b \in Brokers, FetchFrom(b)
  PROVE  \E asked, cache : Fetches(b, asked, cache)
<1>1. PICK room \in BOOLEAN, anew \in BOOLEAN : Fetched(b, room, anew) BY Zenon DEF FetchFrom
<1> DEFINE s        == SessionOf(b)
           first    == next(s, round[b])
           resent   == IF anew /\ ~Refuses(caches[b], first.delta)
                       THEN Cached(caches[b], first.delta, NewId(s, caches[b]))
                       ELSE caches[b]
           grant    == IF room THEN NewId(s, resent) ELSE NO_SESSION
           refused  == Refuses(resent, first.delta)
           sent     == IF refused THEN next(reset, round[b]) ELSE first
           asked    == Asked(resent, sent.delta)
           answers  == [p \in DOMAIN asked |-> PartAnswer(b, p, asked[p])]
           mine     == DOMAIN asked \cap DOMAIN assignment
           took     == [p \in mine |-> Absorbed(p, answers[p])]
           cache    == Cached(resent, sent.delta, grant)
           left     == [c \in DOMAIN round \ {b} |-> round[c]]
           records  == Buffer(took, mine)
           misread  == IF b \notin doubt.unsent THEN {}
                       ELSE { p \in mine : p \notin DOMAIN round[b] \/ asked[p] # round[b][p] }
<1>2. Told(b, asked) /\ IntValued(cache.parts)
  <2>1. b \in DOMAIN round BY DEF FetchFrom
  <2> QED BY <2>1, FetchTold
<1>3. caches' = [caches EXCEPT ![b] = cache] BY <1>1, Zenon DEF Fetched
<1>4. assignment' = [p \in DOMAIN assignment |->
        IF p \in mine /\ answers[p].error = "none"
        THEN [assignment[p] EXCEPT !.position = took[p].position,
                                   !.high_watermark = answers[p].hw]
        ELSE assignment[p]]
  BY <1>1, Zenon DEF Fetched
<1>5. round' = left /\ polling' = (left # <<>>) BY <1>1, Zenon DEF Fetched
<1>6. \E u : doubt' = [unsent |-> u, lost |-> doubt.lost \cup misread, skipped |-> doubt.skipped \cup misread]
  BY <1>1, Zenon DEF Fetched
<1>7. IF left = <<>> /\ records # Empty
      THEN HandOut(records)
      ELSE buffered' = records /\ UNCHANGED <<delivered, received>>
  BY <1>1, Zenon DEF Fetched
<1> HIDE DEF asked, cache
<1>8. took = Took(b, asked) BY DEF Took
<1>9. records = Heard(b, asked)
  <2> HIDE DEF took
  <2> QED BY <1>8 DEF Heard
<1>10. misread = Misread(b, asked) BY DEF Misread
<1>11. \/ HandOut(Heard(b, asked))
       \/ buffered' = Heard(b, asked) /\ UNCHANGED <<delivered, received>>
  <2> HIDE DEF records, left
  <2> QED BY <1>7, <1>9
<1>12. /\ DOMAIN doubt' = {"unsent", "lost", "skipped"}
       /\ doubt'.lost = doubt.lost \cup Misread(b, asked)
       /\ doubt'.skipped = doubt.skipped \cup Misread(b, asked)
  <2> HIDE DEF misread
  <2> QED BY <1>6, <1>10
<1>13. assignment' = [p \in DOMAIN assignment |->
        IF p \in DOMAIN asked \cap DOMAIN assignment /\ PartAnswer(b, p, asked[p]).error = "none"
        THEN [assignment[p] EXCEPT !.position = Took(b, asked)[p].position,
                                   !.high_watermark = PartAnswer(b, p, asked[p]).hw]
        ELSE assignment[p]]
  <2>1. \A p \in mine : answers[p] = PartAnswer(b, p, asked[p]) OBVIOUS
  <2> HIDE DEF took, answers
  <2> QED BY <1>4, <1>8, <2>1
<1>14. Fetches(b, asked, cache) BY <1>2, <1>3, <1>5, <1>11, <1>12, <1>13 DEF Fetches
<1> QED BY <1>14

(* What an answer makes of a partition, before anything is handed out.     *)
Heeds(p, np, t) ==
  /\ np \in Int /\ t \in Seq(Nat)
  /\ p \in DOMAIN assignment => assignment[p].position <= np
  /\ p \notin DOMAIN assignment => t = <<>>
  /\ p \in DOMAIN assignment =>
       Ordered(log[p].batches, log[p].start, CursorOf(placed[p], delivered[p]), np, t)
  /\ p \in DOMAIN assignment /\ p \notin doubt'.lost =>
       Gapless(log[p].batches, placed[p], np, delivered[p], t)
  /\ p \notin doubt'.skipped => Kept(log[p].batches, committed[p], received[p], <<>>)
  /\ p \in DOMAIN assignment /\ p \notin doubt'.skipped =>
       Kept(log[p].batches, np, received[p], t)

LEMMA CursorInt ==
  ASSUME NEW pl \in Int, NEW del \in Seq(Nat)
  PROVE  CursorOf(pl, del) \in Int
<1>1. CASE del = <<>> BY <1>1 DEF CursorOf
<1>2. CASE del # <<>>
  <2>1. Len(del) \in DOMAIN del BY <1>2
  <2>2. del[Len(del)] \in Nat BY <2>1
  <2> QED BY <1>2, <2>2 DEF CursorOf
<1> QED BY <1>1, <1>2

LEMMA FetchHeeds ==
  ASSUME ReadInv, NEW b \in Brokers, b \in DOMAIN round, NEW asked, NEW cache, Fetches(b, asked, cache),
         NEW p \in Partitions
  PROVE  /\ p \in DOMAIN assignment => /\ DOMAIN assignment'[p] = DOMAIN assignment[p]
                                       /\ Heeds(p, assignment'[p].position, Heard(b, asked)[p])
         /\ p \notin DOMAIN assignment => Heeds(p, 0, Heard(b, asked)[p])
<1>1. ReadOK(p) /\ LogOK(p) BY DEF ReadInv
<1>2. /\ doubt'.lost = doubt.lost \cup Misread(b, asked)
      /\ doubt'.skipped = doubt.skipped \cup Misread(b, asked)
      /\ Told(b, asked)
  BY DEF Fetches
<1>3. buffered[p] \in Seq(Nat) /\ delivered[p] \in Seq(Nat) /\ placed[p] \in Int /\ committed[p] \in Int
  BY DEF ReadInv, ReadShape
<1> DEFINE mine == DOMAIN asked \cap DOMAIN assignment
           res == Absorbed(p, PartAnswer(b, p, asked[p]))
<1>4. Heard(b, asked)[p] = IF p \in mine THEN buffered[p] \o res.records ELSE buffered[p]
  BY DEF Heard, Buffer, Took
<1>5. CASE p \notin mine
  <2>1. Heard(b, asked)[p] = buffered[p] BY <1>4, <1>5
  <2>2. p \in DOMAIN assignment => assignment'[p] = assignment[p] /\ assignment[p].position \in Int
    BY <1>5 DEF Fetches, ReadInv, ReadShape
  <2>3. p \in DOMAIN assignment => assignment[p].position <= assignment[p].position BY <2>2
  <2>4. p \in DOMAIN assignment => Heeds(p, assignment[p].position, buffered[p])
    BY <1>1, <1>2, <1>3, <2>2, <2>3 DEF Heeds, ReadOK
  <2>5. p \notin DOMAIN assignment => Heeds(p, 0, buffered[p]) BY <1>1, <1>2, <1>3 DEF Heeds, ReadOK
  <2> QED BY <2>1, <2>2, <2>4, <2>5
<1>6. CASE p \in mine
  <2>1. PICK L, st, pl, pos, com, del, rec, buf, cur, r :
          /\ L = log[p].batches /\ st = log[p].start /\ pl = placed[p] /\ del = delivered[p]
          /\ rec = received[p] /\ buf = buffered[p] /\ com = committed[p]
          /\ pos = assignment[p].position /\ cur = CursorOf(pl, del) /\ r = res
    OBVIOUS
  <2>2. /\ pl \in Int /\ pos \in Int /\ del \in Seq(Nat) /\ buf \in Seq(Nat) /\ IsLog(L)
        /\ asked[p] \in Int
    BY <1>1, <1>2, <1>6, <2>1 DEF ReadInv, ReadShape, LogOK, Told, IntValued
  <2>3. Yields(L, pos, r) /\ (asked[p] <= pos => Covers(L, pos, r)) BY <2>1, <2>2, AbsorbedYields
  <2>4. p \notin Misread(b, asked) => Covers(L, pos, r)
    <3>1. p \notin Misread(b, asked) => p \in DOMAIN round[b] /\ asked[p] = round[b][p]
      BY <1>2, <1>6 DEF Misread, Told
    <3>2. p \in DOMAIN round[b] => round[b][p] <= pos BY <2>1 DEF ReadInv, RoundOK
    <3> QED BY <2>3, <3>1, <3>2
  <2>5. r.position \in Int /\ pos <= r.position BY <2>2, <2>3 DEF Yields
  <2>6. cur \in Int BY <2>1, <2>2, CursorInt
  <2>7. Ordered(L, st, cur, r.position, buf \o r.records) /\ buf \o r.records \in Seq(Nat)
    <3>1. Ordered(L, st, cur, pos, buf) BY <1>1, <1>6, <2>1 DEF ReadOK
    <3> QED BY <2>2, <2>3, <2>6, <3>1, AbsorbOrdered
  <2>8. p \notin doubt'.lost => Gapless(L, pl, r.position, del, buf \o r.records)
    <3>1. p \notin doubt'.lost => Gapless(L, pl, pos, del, buf) /\ Covers(L, pos, r)
      BY <1>1, <1>2, <1>6, <2>1, <2>4 DEF ReadOK
    <3> QED BY <2>2, <2>3, <3>1, AbsorbGapless
  <2>9. p \notin doubt'.skipped => Kept(L, r.position, rec, buf \o r.records) /\ Kept(L, com, rec, <<>>)
    <3>1. p \notin doubt'.skipped => Kept(L, pos, rec, buf) /\ Covers(L, pos, r) /\ Kept(L, com, rec, <<>>)
      BY <1>1, <1>2, <1>6, <2>1, <2>4 DEF ReadOK
    <3> QED BY <2>2, <2>3, <3>1, AbsorbKept
  <2>10. Heeds(p, r.position, buf \o r.records) BY <1>6, <2>1, <2>5, <2>7, <2>8, <2>9 DEF Heeds
  <2>11. Heard(b, asked)[p] = buf \o r.records BY <1>4, <1>6, <2>1
  <2>12. assignment'[p].position = r.position /\ DOMAIN assignment'[p] = DOMAIN assignment[p]
    <3>1. Took(b, asked)[p] = r BY <1>6, <2>1 DEF Took
    <3>2. DOMAIN assignment[p] = {"position", "paused", "high_watermark"} BY <1>6 DEF ReadInv, ReadShape
    <3>3. CASE PartAnswer(b, p, asked[p]).error = "none"
      <4>1. assignment'[p] = [assignment[p] EXCEPT !.position = r.position,
                                                   !.high_watermark = PartAnswer(b, p, asked[p]).hw]
        BY <1>6, <3>1, <3>3 DEF Fetches
      <4> QED BY <3>2, <4>1
    <3>4. CASE PartAnswer(b, p, asked[p]).error # "none"
      <4>1. assignment'[p] = assignment[p] BY <1>6, <3>4 DEF Fetches
      <4>2. r = [position |-> pos, records |-> <<>>] BY <2>1, <3>4 DEF Absorbed
      <4> QED BY <2>1, <4>1, <4>2
    <3> QED BY <3>3, <3>4
  <2> HIDE DEF mine
  <2> QED BY <1>6, <2>10, <2>11, <2>12 DEF mine
<1> QED BY <1>5, <1>6

LEMMA FetchReads ==
  ASSUME ReadInv, SessionInv, NEW b \in Brokers, FetchFrom(b)
  PROVE  ReadInv'
<1>1. PICK asked, cache : Fetches(b, asked, cache) BY FetchFetches
<1>2. b \in DOMAIN round /\ UNCHANGED <<log, committed, placed>> BY DEF FetchFrom
<1>3. ASSUME NEW p \in DOMAIN assignment
      PROVE  DOMAIN assignment'[p] = DOMAIN assignment[p] /\ Heeds(p, assignment'[p].position, Heard(b, asked)[p])
  BY <1>1, <1>2, FetchHeeds DEF ReadInv, ReadShape
<1>4. ASSUME NEW p \in Partitions
      PROVE  Heeds(p, IF p \in DOMAIN assignment THEN assignment'[p].position ELSE 0, Heard(b, asked)[p])
  <2>1. p \notin DOMAIN assignment => Heeds(p, 0, Heard(b, asked)[p]) BY <1>1, <1>2, FetchHeeds
  <2> QED BY <1>3, <2>1
<1>5. DOMAIN assignment' = DOMAIN assignment BY <1>1 DEF Fetches
<1>6. CachesOK'
  <2>1. \A x \in Brokers : caches'[x] = caches[x] \/ caches'[x] = cache
    BY <1>1 DEF Fetches, SessionInv, SessionShape
  <2>2. IntValued(cache.parts) BY <1>1 DEF Fetches
  <2> QED BY <2>1, <2>2 DEF ReadInv, CachesOK, IntValued
<1>7. RoundOK'
  <2>1. /\ round' = [c \in DOMAIN round \ {b} |-> round[c]]
        /\ polling' = ([c \in DOMAIN round \ {b} |-> round[c]] # <<>>)
    BY <1>1 DEF Fetches
  <2>2. ~polling' => DOMAIN round' = {}
    <3> DEFINE left == [c \in DOMAIN round \ {b} |-> round[c]]
    <3>1. round' = left /\ polling' = (left # <<>>) BY <2>1
    <3> HIDE DEF left
    <3>2. ~polling' => left = <<>> BY <3>1, Zenon
    <3> QED BY <3>1, <3>2
  <2>3. ASSUME NEW c \in DOMAIN round', NEW p \in DOMAIN round'[c]
        PROVE  p \in DOMAIN assignment' /\ round'[c][p] \in Int /\ round'[c][p] <= assignment'[p].position
    <3>1. c \in DOMAIN round /\ round'[c] = round[c] BY <2>1
    <3>2. p \in DOMAIN assignment /\ round[c][p] \in Int /\ round[c][p] <= assignment[p].position /\ assignment[p].position \in Int
      BY <3>1 DEF ReadInv, RoundOK, ReadShape
    <3>3. assignment[p].position <= assignment'[p].position /\ assignment'[p].position \in Int
      BY <1>3, <3>2 DEF Heeds
    <3> QED BY <1>5, <3>1, <3>2, <3>3
  <2> QED BY <2>2, <2>3 DEF RoundOK
<1>8. \A p \in Partitions : LogOK(p)' BY <1>2, SameLogs DEF ReadInv
<1>9. \A p \in Partitions : Heard(b, asked)[p] \in Seq(Nat) BY <1>4 DEF Heeds
<1>10. Heard(b, asked) = [p \in Partitions |-> Heard(b, asked)[p]] BY DEF Heard, Buffer
<1>11. PICK h : h = Heard(b, asked) OBVIOUS
<1>12. HandOut(h) \/ (buffered' = h /\ UNCHANGED <<delivered, received>>) BY <1>1, <1>11 DEF Fetches
<1>13. ASSUME NEW p \in Partitions
       PROVE  h[p] \in Seq(Nat) /\ delivered[p] \in Seq(Nat) /\ placed[p] \in Int
  BY <1>9, <1>11 DEF ReadInv, ReadShape
<1>14. \A p \in DOMAIN assignment' : /\ DOMAIN assignment'[p] = {"position", "paused", "high_watermark"}
                                     /\ assignment'[p].position \in Int
  <2>1. ASSUME NEW p \in DOMAIN assignment'
        PROVE  /\ DOMAIN assignment'[p] = {"position", "paused", "high_watermark"}
               /\ assignment'[p].position \in Int
    <3>1. p \in DOMAIN assignment BY <1>5
    <3> QED BY <1>3, <3>1 DEF Heeds, ReadInv, ReadShape
  <2> QED BY <2>1
<1>15. DOMAIN doubt' = {"unsent", "lost", "skipped"} BY <1>1 DEF Fetches
<1>16. CASE buffered' = h /\ UNCHANGED <<delivered, received>>
  <2>1. ReadShape'
    <3>1. buffered' \in [Partitions -> Seq(Nat)] BY <1>9, <1>10, <1>11, <1>16
    <3> QED BY <1>2, <1>5, <1>14, <1>15, <1>16, <3>1 DEF ReadInv, ReadShape
  <2>2. ASSUME NEW p \in Partitions
        PROVE  ReadOK(p)'
    <3>1. Heeds(p, IF p \in DOMAIN assignment THEN assignment'[p].position ELSE 0, h[p]) BY <1>4, <1>11
    <3> QED BY <1>2, <1>5, <1>16, <3>1 DEF Heeds, ReadOK
  <2> QED BY <1>6, <1>7, <1>8, <2>1, <2>2 DEF ReadInv
<1>17. CASE HandOut(h)
  <2>1. /\ buffered' = [p \in Partitions |-> <<>>]
        /\ delivered' = [p \in Partitions |-> delivered[p] \o h[p]]
        /\ received' = [p \in Partitions |-> received[p] \cup ToSet(h[p])]
    BY <1>17 DEF HandOut, Empty
  <2>2. ReadShape'
    <3>1. buffered' \in [Partitions -> Seq(Nat)] /\ DOMAIN received' = Partitions BY <2>1
    <3>2. \A p \in Partitions : delivered[p] \o h[p] \in Seq(Nat) BY <1>13, JoinFacts
    <3>3. delivered' \in [Partitions -> Seq(Nat)] BY <2>1, <3>2
    <3> QED BY <1>2, <1>5, <1>14, <1>15, <3>1, <3>3 DEF ReadInv, ReadShape
  <2>3. ASSUME NEW p \in Partitions
        PROVE  ReadOK(p)'
    <3>1. PICK L, st, pl, pos, com, del, rec, buf :
            /\ L = log[p].batches /\ st = log[p].start /\ pl = placed[p] /\ del = delivered[p]
            /\ rec = received[p] /\ buf = h[p] /\ com = committed[p]
            /\ pos = IF p \in DOMAIN assignment THEN assignment'[p].position ELSE 0
      OBVIOUS
    <3>2. Heeds(p, pos, buf) BY <1>4, <1>11, <3>1
    <3>3. pl \in Int /\ pos \in Int /\ del \in Seq(Nat) /\ buf \in Seq(Nat) BY <1>13, <3>1, <3>2 DEF Heeds
    <3>4. buffered'[p] = <<>> /\ delivered'[p] = del \o buf /\ received'[p] = rec \cup ToSet(buf)
      BY <2>1, <3>1
    <3>5. /\ Ordered(L, st, CursorOf(pl, del), pos, buf) => Ordered(L, st, CursorOf(pl, del \o buf), pos, <<>>)
          /\ Gapless(L, pl, pos, del, buf) => Gapless(L, pl, pos, del \o buf, <<>>)
          /\ Kept(L, pos, rec, buf) => Kept(L, pos, rec \cup ToSet(buf), <<>>)
          /\ Kept(L, com, rec, <<>>) => Kept(L, com, rec \cup ToSet(buf), <<>>)
      BY <3>3, HandOutReads
    <3> QED BY <1>2, <1>5, <3>1, <3>2, <3>4, <3>5 DEF ReadOK, Heeds
  <2> QED BY <1>6, <1>7, <1>8, <2>2, <2>3 DEF ReadInv
<1> QED BY <1>12, <1>16, <1>17

-----------------------------------------------------------------------------
LEMMA ReadInit == ConsumerInit => ReadInv
<1> SUFFICES ASSUME ConsumerInit
             PROVE  ReadInv
  OBVIOUS
<1>1. PICK l \in Logs : log = [p \in Partitions |-> [batches |-> l[p], start |-> 0]] BY DEF ConsumerInit
<1>2. /\ caches = [b \in Brokers |-> NoCache] /\ committed \in Commits /\ polling = FALSE
      /\ DOMAIN assignment = {} /\ DOMAIN round = {} /\ buffered = [p \in Partitions |-> <<>>]
      /\ delivered = [p \in Partitions |-> <<>>] /\ placed = [p \in Partitions |-> -1]
      /\ doubt = [unsent |-> {}, lost |-> {}, skipped |-> {}]
      /\ received = [p \in Partitions |->
           { o \in VisibleOffsets(log[p].batches, Visibility) : o < committed[p] }]
  BY DEF ConsumerInit, Empty, None
<1>3. ASSUME NEW p \in Partitions
      PROVE  /\ DOMAIN log[p] = {"batches", "start"} /\ log[p].batches = l[p] /\ log[p].start = 0
             /\ IsLog(l[p]) /\ committed[p] \in Int /\ committed[p] <= LogEnd(l[p])
  BY <1>1, <1>2, ConsumerAssumption
<1>4. ASSUME NEW p \in Partitions
      PROVE  LogOK(p)
  <2>1. LogEnd(l[p]) \in Nat /\ \A i \in DOMAIN l[p] : l[p][i].base \in Nat BY <1>3, LogEndFacts, LogOne
  <2> QED BY <1>3, <2>1 DEF LogOK
<1>5. ASSUME NEW p \in Partitions
      PROVE  ReadOK(p)
  <2>1. Kept(log[p].batches, committed[p], received[p], <<>>) BY <1>2, <1>3 DEF Kept
  <2> QED BY <1>2, <2>1 DEF ReadOK
<1>6. ReadShape
  <2>1. <<>> \in Seq(Nat) OBVIOUS
  <2>2. buffered \in [Partitions -> Seq(Nat)] /\ delivered \in [Partitions -> Seq(Nat)] BY <1>2, <2>1
  <2>3. \A p \in Partitions : placed[p] \in Int /\ committed[p] \in Int BY <1>2, <1>3
  <2>4. DOMAIN doubt = {"unsent", "lost", "skipped"} /\ DOMAIN log = Partitions
        /\ DOMAIN placed = Partitions /\ DOMAIN received = Partitions
    BY <1>1, <1>2
  <2> QED BY <1>2, <2>2, <2>3, <2>4 DEF ReadShape
<1>7. RoundOK /\ CachesOK
  <2>1. DOMAIN NoCache.parts = {} BY DEF NoCache
  <2> QED BY <1>2, <2>1 DEF RoundOK, CachesOK
<1> QED BY <1>4, <1>5, <1>6, <1>7 DEF ReadInv

LEMMA StutterReads ==
  ASSUME ReadInv,
         UNCHANGED <<log, caches, committed, assignment, round, polling, buffered, delivered, received, placed, doubt>>
  PROVE  ReadInv'
BY SameRound, SameCaches, FrameReads DEF ReadInv

LEMMA ReadKept == ReadInv /\ SessionInv /\ [ConsumerNext]_consumerVars => ReadInv'
<1> SUFFICES ASSUME ReadInv, SessionInv, [ConsumerNext]_consumerVars
             PROVE  ReadInv'
  OBVIOUS
<1>1. CASE PollBuffered
  <2>1. HandOut(buffered) /\ UNCHANGED <<log, caches, committed, assignment, placed, doubt, round, polling>>
    BY <1>1 DEF PollBuffered, brokerVars
  <2>2. RoundOK' BY <2>1, SameRound DEF ReadInv
  <2> QED BY <2>1, <2>2, HandedReads
<1>2. CASE PollStart BY <1>2, PollReads
<1>3. CASE \E b \in Brokers : FetchFrom(b) BY <1>3, FetchReads
<1>4. CASE \E parts \in SUBSET Partitions \ {{}}, from \in {"Earliest", "Latest"} : assign(parts, from)
  BY <1>4, AssignReads
<1>5. CASE \E p \in Partitions, o \in Starts : seek(p, o) BY <1>5, SeekReads
<1>6. CASE \E p \in Partitions, on \in BOOLEAN : SetPaused(p, on) BY <1>6, PauseReads
<1>7. CASE commit BY <1>7, CommitReads
<1>8. CASE seek_to_committed BY <1>8, SeekCommittedReads
<1>9. CASE Restart BY <1>9, RestartReads
<1>10. CASE Cluster
  <2>1. CASE \E p \in Partitions : Grow(p) \/ DeleteFirst(p) BY <2>1, GrowMoves, DeleteMoves, MovedReads
  <2>2. CASE \E p \in Partitions, b \in Brokers \cup {NoLeader} : LeaderMoves(p, b)
    BY <2>2, StutterReads DEF LeaderMoves, clientVars, historyVars
  <2>3. CASE \E p \in Partitions, b \in Brokers : LeaderElected(p, b)
    BY <2>3, StutterReads DEF LeaderElected, clientVars, historyVars
  <2>4. CASE \E b \in Brokers : Evict(b) BY <2>4, EvictReads
  <2> QED BY <1>10, <2>1, <2>2, <2>3, <2>4 DEF Cluster
<1>11. CASE \E b \in Brokers : FetchAborted(b) BY <1>11, AbortedReads
<1>12. CASE UNCHANGED consumerVars
  BY <1>12, StutterReads DEF consumerVars, brokerVars, clientVars, historyVars
<1> QED BY <1>1, <1>2, <1>3, <1>4, <1>5, <1>6, <1>7, <1>8, <1>9, <1>10, <1>11, <1>12
        DEF ConsumerNext, Poll, Application

(* No record is passed over by fetch_once, by a seek_to_committed or by a  *)
(* restart: what lies between where a partition was placed and its         *)
(* position was handed out or waits, and what the group committed was      *)
(* received, whatever sessions were lost, requests repeated, batches       *)
(* damaged or aborted, logs trimmed, leaders moved or polls dropped.       *)
THEOREM ConsumerSkipsNothing == ConsumerSpecification => []NothingSkipped
<1>1. ReadInv => NothingSkipped
  <2> SUFFICES ASSUME ReadInv
               PROVE  NothingSkipped
    OBVIOUS
  <2>1. NoGap BY DEF ReadInv, ReadShape, ReadOK, NoGap, Gapless, Visible, InBuffer
  <2>2. AtLeastOnce
    <3>1. ToSet(<<>>) = {} BY DEF ToSet
    <3> QED BY <3>1 DEF ReadInv, ReadOK, AtLeastOnce, Kept, Visible
  <2> QED BY <2>1, <2>2 DEF NothingSkipped
<1> QED BY <1>1, ReadInit, ReadKept, SessionInit, SessionStep, PTL DEF ConsumerSpecification

-----------------------------------------------------------------------------
(* The refinement of Cursor.                                               *)

Readable(L) == { o \in VisibleOffsets(L, Visibility) : o < EndFor(L, Visibility) }

(* What a poll returns, of one partition.                                  *)
Returned(L, st, cur, ncur, del, u) ==
  LET new == SubSeq(u, Len(del) + 1, Len(u))
  IN /\ Len(del) <= Len(u) /\ SubSeq(del, 1, Len(del)) = SubSeq(u, 1, Len(del))
     /\ \A i \in DOMAIN new : new[i] >= cur /\ (new[i] \in Readable(L) \/ new[i] < st)
     /\ \A i, j \in DOMAIN new : i < j => new[i] < new[j]
     /\ ncur = IF new = <<>> THEN cur ELSE new[Len(new)] + 1

LEMMA ReturnsBuffered ==
  ASSUME NEW L, NEW st, NEW pl, NEW pos, NEW del \in Seq(Nat), NEW buf \in Seq(Nat),
         buf # <<>> => Ordered(L, st, CursorOf(pl, del), pos, buf), CursorOf(pl, del) \in Int
  PROVE  Returned(L, st, CursorOf(pl, del), CursorOf(pl, del \o buf), del, del \o buf)
<1>1. PICK u : u = del \o buf OBVIOUS
<1>2. /\ u \in Seq(Nat) /\ Len(u) = Len(del) + Len(buf) /\ Len(buf) \in Nat /\ Len(del) \in Nat
      /\ DOMAIN buf = 1..Len(buf) /\ DOMAIN del = 1..Len(del) /\ DOMAIN u = 1..Len(u)
      /\ \A i \in DOMAIN del : u[i] = del[i]
      /\ \A i \in DOMAIN buf : u[Len(del) + i] = buf[i]
  BY <1>1, JoinFacts
<1>3. SubSeq(u, Len(del) + 1, Len(u)) = buf
  <2> DEFINE new == SubSeq(u, Len(del) + 1, Len(u))
  <2>1. new = [i \in 1..Len(buf) |-> u[(Len(del) + 1) + i - 1]] BY <1>2
  <2>2. \A i \in 1..Len(buf) : (Len(del) + 1) + i - 1 = Len(del) + i BY <1>2
  <2>3. buf = [i \in 1..Len(buf) |-> buf[i]] BY <1>2
  <2>4. \A i \in 1..Len(buf) : u[(Len(del) + 1) + i - 1] = buf[i] BY <1>2, <2>2
  <2> QED BY <2>1, <2>3, <2>4
<1>4. SubSeq(del, 1, Len(del)) = SubSeq(u, 1, Len(del)) /\ Len(del) <= Len(u)
  <2>1. SubSeq(del, 1, Len(del)) = [i \in 1..Len(del) |-> del[1 + i - 1]] BY <1>2
  <2>2. SubSeq(u, 1, Len(del)) = [i \in 1..Len(del) |-> u[1 + i - 1]] BY <1>2
  <2>3. ASSUME NEW i \in 1..Len(del)
        PROVE  u[1 + i - 1] = del[1 + i - 1]
    <3>1. 1 + i - 1 = i BY <1>2
    <3> QED BY <1>2, <3>1
  <2> QED BY <1>2, <2>1, <2>2, <2>3
<1>5. PICK cur \in Int : cur = CursorOf(pl, del) OBVIOUS
<1>6. CASE buf = <<>>
  <2>1. u = del /\ DOMAIN buf = {} BY <1>1, <1>6
  <2> QED BY <1>1, <1>3, <1>4, <1>6, <2>1 DEF Returned
<1>7. CASE buf # <<>>
  <2>1. Ordered(L, st, cur, pos, buf) BY <1>5, <1>7
  <2>2. Len(buf) \in DOMAIN buf /\ u # <<>> BY <1>2, <1>7
  <2>3. CursorOf(pl, u) = buf[Len(buf)] + 1 BY <1>2, <2>2 DEF CursorOf
  <2>4. \A i \in DOMAIN buf : buf[i] \in Nat OBVIOUS
  <2>5. \A i \in DOMAIN buf : buf[i] >= cur BY <2>1, <2>4 DEF Ordered
  <2>6. \A i \in DOMAIN buf : buf[i] \in Readable(L) \/ buf[i] < st BY <2>1 DEF Ordered, InLog, Readable
  <2>7. \A i, j \in DOMAIN buf : i < j => buf[i] < buf[j] BY <2>1 DEF Ordered, Sorted
  <2>8. Returned(L, st, cur, CursorOf(pl, u), del, u) BY <1>3, <1>4, <1>7, <2>3, <2>5, <2>6, <2>7 DEF Returned
  <2> QED BY <1>1, <1>5, <2>8
<1> QED BY <1>6, <1>7

LEMMA HandsOutIs ==
  ASSUME log' = log,
         \A p \in Partitions :
           Returned(log[p].batches, log[p].start, CursorOf(placed[p], delivered[p]),
                    CursorOf(placed'[p], delivered'[p]), delivered[p], delivered'[p])
  PROVE  Abstract!HandsOut
<1>1. ASSUME NEW p \in Partitions
      PROVE  LET new == SubSeq(delivered'[p], Len(delivered[p]) + 1, Len(delivered'[p]))
             IN /\ Len(delivered[p]) <= Len(delivered'[p])
                /\ SubSeq(delivered[p], 1, Len(delivered[p])) = SubSeq(delivered'[p], 1, Len(delivered[p]))
                /\ \A i \in DOMAIN new :
                     /\ new[i] >= (IF delivered[p] = <<>> THEN placed[p] ELSE delivered[p][Len(delivered[p])] + 1)
                     /\ new[i] \in { o \in Visible(p) : o < EndFor(log[p].batches, Visibility) } \/ new[i] < log[p].start
                /\ \A i, j \in DOMAIN new : i < j => new[i] < new[j]
                /\ (IF delivered'[p] = <<>> THEN placed'[p] ELSE delivered'[p][Len(delivered'[p])] + 1) =
                     IF new = <<>>
                     THEN IF delivered[p] = <<>> THEN placed[p] ELSE delivered[p][Len(delivered[p])] + 1
                     ELSE new[Len(new)] + 1
  BY Zenon DEF Returned, CursorOf, Readable, Visible
<1> QED BY <1>1 DEF Abstract!HandsOut, Abstract!IsPrefix, Abstract!Last, Visible
LEMMA PlacesIs ==
  ASSUME log' = log,
         \A p \in Partitions :
           \/ delivered'[p] = <<>>
           \/ delivered'[p] = delivered[p] /\ placed'[p] = placed[p]
  PROVE  Abstract!Places
<1>1. \A p \in Partitions :
        \/ delivered'[p] = <<>>
        \/ /\ delivered'[p] = delivered[p]
           /\ (IF delivered'[p] = <<>> THEN placed'[p] ELSE delivered'[p][Len(delivered'[p])] + 1) =
              (IF delivered[p] = <<>> THEN placed[p] ELSE delivered[p][Len(delivered[p])] + 1)
  OBVIOUS
<1> QED BY <1>1 DEF Abstract!Places, Visible

LEMMA StuttersIs ==
  ASSUME UNCHANGED <<log, delivered, placed>>
  PROVE  UNCHANGED Abstract!cursorVars
BY DEF Abstract!cursorVars, Visible

(* A log that changed as logs do changes what is readable as logs do.      *)
LEMMA MovedReadable ==
  ASSUME NEW L, NEW st, NEW M, NEW nst, LogMoved(L, st, M, nst)
  PROVE  /\ st <= nst
         /\ \A o \in Readable(L) : o >= nst => o \in Readable(M)
         /\ \A o \in Readable(M) \ Readable(L) : \A r \in Readable(L) : r < o
<1>1. /\ LogEnd(L) \in Nat /\ EndFor(L, Visibility) \in Nat /\ EndFor(M, Visibility) \in Nat
      /\ EndFor(L, Visibility) <= LogEnd(L) /\ IsLog(L) /\ IsLog(M) /\ nst \in Nat
      /\ EndFor(L, Visibility) <= EndFor(M, Visibility) /\ st <= nst
  BY MovedTypes DEF LogMoved
<1>2. (\A o \in Readable(L) : o \in Nat) /\ (\A o \in Readable(M) : o \in Nat)
  BY <1>1, VisibleNat DEF Readable
<1>3. ASSUME NEW o \in Readable(L), o >= nst
      PROVE  o \in Readable(M)
  <2>1. o \in VisibleOffsets(M, Visibility) BY <1>1, <1>2, <1>3 DEF LogMoved, Readable
  <2>2. o < EndFor(M, Visibility) BY <1>1, <1>2 DEF Readable
  <2> QED BY <2>1, <2>2 DEF Readable
<1>4. ASSUME NEW o \in Readable(M), o \notin Readable(L), NEW r \in Readable(L)
      PROVE  r < o
  <2>1. o \in Nat /\ r \in Nat /\ r < EndFor(L, Visibility) BY <1>2 DEF Readable
  <2>2. CASE o \in VisibleOffsets(L, Visibility)
    <3>1. ~(o < EndFor(L, Visibility)) BY <1>4, <2>2 DEF Readable
    <3> QED BY <1>1, <2>1, <3>1
  <2>3. CASE o >= LogEnd(L) BY <1>1, <2>1, <2>3
  <2> QED BY <2>2, <2>3 DEF LogMoved, Readable
<1> QED BY <1>1, <1>3, <1>4

LEMMA LogChangesIs ==
  ASSUME UNCHANGED <<delivered, placed>>,
         \A p \in Partitions :
           /\ log[p].start <= log'[p].start
           /\ \A o \in Readable(log[p].batches) : o >= log'[p].start => o \in Readable(log'[p].batches)
           /\ \A o \in Readable(log'[p].batches) \ Readable(log[p].batches) :
                \A r \in Readable(log[p].batches) : r < o
  PROVE  Abstract!LogChanges
<1> DEFINE R  == [p \in Partitions |-> Readable(log[p].batches)]
           RR == [p \in Partitions |-> Readable(log'[p].batches)]
           S  == [p \in Partitions |-> log[p].start]
           SS == [p \in Partitions |-> log'[p].start]
<1>1. ASSUME NEW p \in Partitions
      PROVE  /\ S[p] <= SS[p]
             /\ \A o \in R[p] : o >= SS[p] => o \in RR[p]
             /\ \A o \in RR[p] \ R[p] : \A r \in R[p] : r < o
  OBVIOUS
<1>2. /\ R = [p \in Partitions |-> { o \in Visible(p) : o < EndFor(log[p].batches, Visibility) }]
      /\ RR = [p \in Partitions |-> { o \in Visible(p)' : o < EndFor(log[p].batches, Visibility)' }]
  BY DEF Readable, Visible
<1> HIDE DEF R, RR
<1> QED BY <1>1, <1>2 DEF Abstract!LogChanges

LEMMA OneLogChanges ==
  ASSUME ReadInv, NEW p \in Partitions, NEW M, NEW nst, LogStep(p, M, nst)
  PROVE  Abstract!LogChanges
<1> USE DEF LogStep
<1>1. ASSUME NEW q \in Partitions
      PROVE  /\ log[q].start <= log'[q].start
             /\ \A o \in Readable(log[q].batches) : o >= log'[q].start => o \in Readable(log'[q].batches)
             /\ \A o \in Readable(log'[q].batches) \ Readable(log[q].batches) :
                  \A r \in Readable(log[q].batches) : r < o
  <2>1. CASE q = p
    <3>1. PICK L, st : L = log[p].batches /\ st = log[p].start OBVIOUS
    <3>2. LogMoved(L, st, M, nst) BY <3>1
    <3> QED BY <2>1, <3>1, <3>2, MovedReadable
  <2>2. CASE q # p
    <3>1. log[q].start \in Nat BY DEF ReadInv, LogOK
    <3> QED BY <2>2, <3>1
  <2> QED BY <2>1, <2>2
<1> QED BY <1>1, LogChangesIs
LEMMA HandedIs ==
  ASSUME ReadInv, UNCHANGED <<log, placed>>, NEW h, HandOut(h), NEW np,
         \A p \in Partitions :
           /\ h[p] \in Seq(Nat)
           /\ h[p] # <<>> => Ordered(log[p].batches, log[p].start, CursorOf(placed[p], delivered[p]), np[p], h[p])
  PROVE  Abstract!HandsOut
<1>1. ASSUME NEW p \in Partitions
      PROVE  Returned(log[p].batches, log[p].start, CursorOf(placed[p], delivered[p]),
                      CursorOf(placed'[p], delivered'[p]), delivered[p], delivered'[p])
  <2>1. PICK L, st, pl, del, buf, pos :
          /\ L = log[p].batches /\ st = log[p].start /\ pl = placed[p] /\ del = delivered[p] /\ buf = h[p]
          /\ pos = np[p]
    OBVIOUS
  <2>2. pl \in Int /\ del \in Seq(Nat) /\ buf \in Seq(Nat) BY <2>1 DEF ReadInv, ReadShape
  <2>3. buf # <<>> => Ordered(L, st, CursorOf(pl, del), pos, buf) BY <2>1
  <2>4. CursorOf(pl, del) \in Int BY <2>2, CursorInt
  <2>5. Returned(L, st, CursorOf(pl, del), CursorOf(pl, del \o buf), del, del \o buf)
    BY <2>2, <2>3, <2>4, ReturnsBuffered
  <2>6. delivered'[p] = del \o buf /\ placed'[p] = pl BY <2>1 DEF HandOut
  <2> QED BY <2>1, <2>5, <2>6
<1> QED BY <1>1, HandsOutIs

LEMMA BufferedIs ==
  ASSUME ReadInv, PollBuffered
  PROVE  Abstract!HandsOut
<1>1. HandOut(buffered) /\ UNCHANGED <<log, placed>> BY DEF PollBuffered, brokerVars
<1>2. PICK h, np : h = buffered /\ np = [p \in DOMAIN assignment |-> assignment[p].position] OBVIOUS
<1>3. ASSUME NEW p \in Partitions
      PROVE  /\ h[p] \in Seq(Nat)
             /\ h[p] # <<>> => Ordered(log[p].batches, log[p].start, CursorOf(placed[p], delivered[p]), np[p], h[p])
  <2>1. ReadOK(p) /\ buffered[p] \in Seq(Nat) BY DEF ReadInv, ReadShape
  <2>2. CASE p \in DOMAIN assignment BY <1>2, <2>1, <2>2 DEF ReadOK
  <2>3. CASE p \notin DOMAIN assignment BY <1>2, <2>1, <2>3 DEF ReadOK
  <2> QED BY <2>2, <2>3
<1>4. HandOut(h) BY <1>1, <1>2
<1> QED BY <1>1, <1>3, <1>4, HandedIs

LEMMA FetchIs ==
  ASSUME ReadInv, SessionInv, NEW b \in Brokers, FetchFrom(b)
  PROVE  Abstract!HandsOut \/ UNCHANGED Abstract!cursorVars
<1>1. PICK asked, cache : Fetches(b, asked, cache) BY FetchFetches
<1>2. b \in DOMAIN round /\ UNCHANGED <<log, placed>> BY DEF FetchFrom
<1>3. PICK h, np : h = Heard(b, asked) /\ np = [p \in DOMAIN assignment |-> assignment'[p].position] OBVIOUS
<1>4. ASSUME NEW p \in Partitions
      PROVE  /\ h[p] \in Seq(Nat)
             /\ h[p] # <<>> => Ordered(log[p].batches, log[p].start, CursorOf(placed[p], delivered[p]), np[p], h[p])
  <2>1. CASE p \in DOMAIN assignment
    <3>1. Heeds(p, assignment'[p].position, h[p]) BY <1>1, <1>2, <1>3, <2>1, FetchHeeds
    <3> QED BY <1>3, <2>1, <3>1 DEF Heeds
  <2>2. CASE p \notin DOMAIN assignment
    <3>1. Heeds(p, 0, h[p]) BY <1>1, <1>2, <1>3, <2>2, FetchHeeds
    <3> QED BY <2>2, <3>1 DEF Heeds
  <2> QED BY <2>1, <2>2
<1>5. CASE HandOut(h) BY <1>2, <1>4, <1>5, HandedIs
<1>6. CASE delivered' = delivered BY <1>2, <1>6, StuttersIs
<1> QED BY <1>1, <1>3, <1>5, <1>6 DEF Fetches

LEMMA CursorStep ==
  ReadInv /\ SessionInv /\ [ConsumerNext]_consumerVars => [Abstract!CursorNext]_(Abstract!cursorVars)
<1> SUFFICES ASSUME ReadInv, SessionInv, [ConsumerNext]_consumerVars
             PROVE  Abstract!HandsOut \/ Abstract!Places \/ Abstract!LogChanges \/ UNCHANGED Abstract!cursorVars
  BY DEF Abstract!CursorNext
<1>1. CASE PollBuffered BY <1>1, BufferedIs
<1>2. CASE PollStart BY <1>2, StuttersIs DEF PollStart, brokerVars, historyVars
<1>3. CASE \E b \in Brokers : FetchFrom(b) BY <1>3, FetchIs
<1>4. CASE \E parts \in SUBSET Partitions \ {{}}, from \in {"Earliest", "Latest"} : assign(parts, from)
  <2>1. PICK parts, from : assign(parts, from) BY <1>4
  <2>2. /\ log' = log
        /\ delivered' = [p \in Partitions |-> IF p \in parts THEN <<>> ELSE delivered[p]]
        /\ placed' = [p \in Partitions |-> IF p \in parts THEN resolve(p, from) ELSE placed[p]]
    BY <2>1 DEF assign, brokerVars
  <2> QED BY <2>2, PlacesIs
<1>5. CASE \E p \in Partitions, o \in Starts : seek(p, o)
  <2>1. PICK p \in Partitions, o \in Starts : seek(p, o) BY <1>5
  <2>2. /\ log' = log /\ delivered' = [delivered EXCEPT ![p] = <<>>] /\ placed' = [placed EXCEPT ![p] = o]
    BY <2>1 DEF seek, brokerVars
  <2>3. DOMAIN delivered = Partitions /\ DOMAIN placed = Partitions BY DEF ReadInv, ReadShape
  <2> QED BY <2>2, <2>3, PlacesIs
<1>6. CASE \E p \in Partitions, on \in BOOLEAN : SetPaused(p, on)
  BY <1>6, StuttersIs DEF SetPaused, brokerVars, historyVars
<1>7. CASE commit BY <1>7, StuttersIs DEF commit
<1>8. CASE seek_to_committed
  <2>1. /\ log' = log
        /\ placed' = [p \in Partitions |-> IF p \in Sought THEN committed[p] ELSE placed[p]]
        /\ delivered' = [p \in Partitions |-> IF p \in Sought THEN <<>> ELSE delivered[p]]
    BY <1>8 DEF seek_to_committed, brokerVars
  <2> QED BY <2>1, PlacesIs
<1>9. CASE Restart
  <2> DEFINE from(p) == IF committed[p] = None THEN log[p].start ELSE committed[p]
  <2>1. /\ log' = log
        /\ placed' = [p \in Partitions |-> IF p \in DOMAIN assignment THEN from(p) ELSE placed[p]]
        /\ delivered' = [p \in Partitions |-> IF p \in DOMAIN assignment THEN <<>> ELSE delivered[p]]
    BY <1>9 DEF Restart, brokerVars
  <2> HIDE DEF from
  <2> QED BY <2>1, PlacesIs
<1>10. CASE Cluster
  <2>1. CASE \E p \in Partitions : Grow(p) \/ DeleteFirst(p)
    <3>1. PICK p \in Partitions : Grow(p) \/ DeleteFirst(p) BY <2>1
    <3>2. PICK M, nst : LogStep(p, M, nst) BY <3>1, GrowMoves, DeleteMoves
    <3> QED BY <3>2, OneLogChanges
  <2>2. CASE \E p \in Partitions, b \in Brokers \cup {NoLeader} : LeaderMoves(p, b)
    BY <2>2, StuttersIs DEF LeaderMoves, clientVars, historyVars
  <2>3. CASE \E p \in Partitions, b \in Brokers : LeaderElected(p, b)
    BY <2>3, StuttersIs DEF LeaderElected, clientVars, historyVars
  <2>4. CASE \E b \in Brokers : Evict(b) BY <2>4, StuttersIs DEF Evict, clientVars, historyVars
  <2> QED BY <1>10, <2>1, <2>2, <2>3, <2>4 DEF Cluster
<1>11. CASE \E b \in Brokers : FetchAborted(b) BY <1>11, StuttersIs DEF FetchAborted
<1>12. CASE UNCHANGED consumerVars BY <1>12, StuttersIs DEF consumerVars, brokerVars, clientVars, historyVars
<1> QED BY <1>1, <1>2, <1>3, <1>4, <1>5, <1>6, <1>7, <1>8, <1>9, <1>10, <1>11, <1>12
        DEF ConsumerNext, Poll, Application

(* The consumer implements Cursor.                                         *)
(* From where assign, a seek or a restart placed a partition, poll hands   *)
(* out its records in log order and each once, and none that was aborted   *)
(* or is still undecided, for every log, visibility and size of a fetch.   *)
THEOREM ConsumerIsCursor == ConsumerSpecification => InOrderOnce
<1>1. ConsumerInit => Abstract!CursorInit BY DEF ConsumerInit, Empty, Abstract!CursorInit
<1> QED BY <1>1, ReadInit, ReadKept, SessionInit, SessionStep, CursorStep, PTL
        DEF ConsumerSpecification, InOrderOnce, Abstract!CursorSpec

-----------------------------------------------------------------------------
(* Groups: a member of either protocol.  Its invariant is a conjunction    *)
(* over the members: nothing below depends on the manual assignment above. *)

AtMostOne(S) == \A x, y \in S : x = y
MemberFields ==
  {"protocol", "id", "epoch", "rejoin", "owned", "ack", "ever", "pending", "todo", "held", "listener", "pc"}

(* A consumer: who waits for the group has nothing left to settle.         *)
MemberShape(m) ==
  /\ DOMAIN m = MemberFields /\ m.protocol \in {"consumer", "classic"}
  /\ m.rejoin \in BOOLEAN /\ m.listener \in BOOLEAN
  /\ AtMostOne(m.pending) /\ AtMostOne(m.todo) /\ \A w \in m.todo : w.rejoin \in BOOLEAN
  /\ m.pc \in {"joining", "joined", "syncing"} => m.rejoin /\ m.pending = {} /\ m.todo = {}

(* What a consumer is about to lose it was told of, or is yet to be told,  *)
(* or is what it held when its membership was reset.  A classic member of  *)
(* an eager group gives all up before it joins again.                      *)
Announced(m, t, f, cooperative) ==
  /\ m.listener /\ m.protocol = "classic" =>
       /\ \A w \in m.todo : DOMAIN m.held \ w.parts \subseteq t \cup UNION m.pending
       /\ ~cooperative =>
            /\ m.rejoin => DOMAIN m.held \subseteq t \cup UNION m.pending
            /\ \A w \in m.todo : w.rejoin => w.parts = {}
  /\ m.listener /\ m.protocol = "consumer" =>
       DOMAIN m.held \ m.owned \subseteq t \cup f \cup UNION m.pending
  /\ m.protocol = "consumer" /\ m.pending = {} => DOMAIN m.held \subseteq m.owned \cup f

(* Where a consumer stands everything before was handed out by somebody,   *)
(* waits in a buffer, or was stranded there.                               *)
Out == seen \cup stranded \cup UNION { buffer[c] : c \in Members }
Delivered(o, p) == o \in Int /\ \A i \in 0..(o - 1) : <<p, i>> \in Out
Progress(m) == \A p \in DOMAIN m.held \cap Parts : Delivered(m.held[p], p)

(* The inductive invariant.                                                *)
GroupInv ==
  /\ {"kind", "protocol"} \subseteq DOMAIN coord
  /\ member = [c \in Members |-> member[c]] /\ told = [c \in Members |-> told[c]]
  /\ forgotten = [c \in Members |-> forgotten[c]] /\ buffer = [c \in Members |-> buffer[c]]
  /\ groupOffsets = [p \in Parts |-> groupOffsets[p]]
  /\ \A c \in Members :
       /\ MemberShape(member[c]) /\ Progress(member[c])
       /\ Announced(member[c], told[c], forgotten[c], is_cooperative)
       /\ forgotten[c] # {} => c \in excused
       /\ member[c].listener \/ c \in bereft
  /\ untold \subseteq Members /\ \A c \in untold : ~member[c].listener
  /\ \A p \in Parts : Delivered(groupOffsets[p], p)

(* In a KIP-848 group the coordinator has given no partition to two, and   *)
(* a consumer holds nothing but what the coordinator has it down for.      *)
Down(g, i) == g.members[i].given \cup g.members[i].revoking
CoordOK(g) ==
  /\ {"kind", "epoch", "members", "next"} \subseteq DOMAIN g
  /\ DOMAIN g.members \subseteq Nat \ {NoId} /\ g.next \in Nat
  /\ \A i \in DOMAIN g.members :
       i < g.next /\ DOMAIN g.members[i] = {"epoch", "before", "given", "revoking", "topics"}
  /\ \A i, j \in DOMAIN g.members : i # j => Down(g, i) \cap Down(g, j) = {}
IdsOK(g, all) ==
  \A c \in Members :
    /\ all[c].protocol = "consumer" /\ all[c].id \in Nat /\ all[c].id < g.next
    /\ all[c].id = NoId => all[c].pc = "gone"
    /\ \A d \in Members : c # d /\ all[c].id = all[d].id => all[c].id = NoId
HoldsOK(g, m) ==
  IF m.id \in DOMAIN g.members
  THEN m.owned = g.members[m.id].given /\ DOMAIN m.held \subseteq Down(g, m.id)
  ELSE DOMAIN m.held = {} /\ m.owned = {}
KipOK(g, all, but) ==
  CoordOK(g) /\ IdsOK(g, all) /\ \A c \in Members \ but : HoldsOK(g, all[c])
KipInv == coord.kind = "consumer" => KipOK(coord, member, excused)

(* What it comes to: in such a group no partition has two owners.          *)
KipOneOwner == coord.kind = "consumer" => OneOwner

-----------------------------------------------------------------------------
(* What a step keeps.                                                      *)

(* Whatever is committed was delivered before.                             *)
CommitsOK ==
  groupOffsets' = [p \in Parts |-> groupOffsets'[p]] /\ \A p \in Parts : Delivered(groupOffsets'[p], p)

LEMMA CommitSame == ASSUME GroupInv, UNCHANGED groupOffsets PROVE CommitsOK
BY DEF GroupInv, CommitsOK

LEMMA CommitDelivered ==
  ASSUME GroupInv, NEW c \in Members, NEW accepted, CommitAs(c, accepted)
  PROVE  CommitsOK
<1>1. ASSUME NEW p \in Parts PROVE Delivered(groupOffsets'[p], p)
  <2>1. groupOffsets'[p] = IF accepted /\ p \in Held(c) THEN member[c].held[p] ELSE groupOffsets[p]
    BY DEF CommitAs
  <2>2. p \in Held(c) => Delivered(member[c].held[p], p) BY DEF GroupInv, Progress, Held
  <2> QED BY <2>1, <2>2 DEF GroupInv
<1> QED BY <1>1 DEF CommitsOK, CommitAs

(* What is handed out, buffered or stranded is so for good.                *)
OutKept == buffer' = [d \in Members |-> buffer'[d]] /\ Out \subseteq Out'

LEMMA OutSame == ASSUME GroupInv, UNCHANGED readVars PROVE OutKept
BY DEF GroupInv, OutKept, Out, readVars

LEMMA KeptBuffered ==
  ASSUME GroupInv, NEW c \in Members, NEW parts, KeepBuffered(c, parts)
  PROVE  OutKept
<1> DEFINE gone == { r \in buffer[c] : r[1] \notin parts }
<1>1. buffer' = [buffer EXCEPT ![c] = @ \ gone] /\ stranded' = stranded \cup gone /\ UNCHANGED seen
  BY DEF KeepBuffered
<1> HIDE DEF gone
<1>2. /\ buffer' = [d \in Members |-> buffer'[d]] /\ buffer'[c] = buffer[c] \ gone
      /\ \A d \in Members \ {c} : buffer'[d] = buffer[d]
  BY <1>1 DEF GroupInv
<1>3. ASSUME NEW d \in Members, NEW r \in buffer[d] PROVE r \in Out' BY <1>1, <1>2 DEF Out
<1> QED BY <1>1, <1>2, <1>3 DEF OutKept, Out

(* What was announced and forgotten after a step; and if only of c's.      *)
ToldFor ==
  /\ told' = [d \in Members |-> told'[d]] /\ forgotten' = [d \in Members |-> forgotten'[d]]
  /\ \A d \in Members : forgotten'[d] # {} => d \in excused'
ToldOK(c) ==
  ToldFor /\ \A d \in Members \ {c} : told'[d] = told[d] /\ forgotten'[d] = forgotten[d]

(* Whose listener is l after a step, and every consumer's: it is taken in  *)
(* a failed handoff only, and who has one is told.                         *)
Voice(c, l) == (c \in untold' => ~l) /\ (l \/ c \in bereft') /\ bereft \subseteq bereft'
Voices ==
  /\ untold' \subseteq Members /\ \A d \in untold' : ~member'[d].listener
  /\ \A d \in Members : member'[d].listener \/ d \in bereft'

LEMMA ToldSame ==
  ASSUME GroupInv, UNCHANGED toldVars, excused \subseteq excused'
  PROVE  /\ ToldFor /\ (\A c \in Members : ToldOK(c)) /\ UNCHANGED <<told, forgotten, untold, bereft>>
BY DEF GroupInv, ToldFor, ToldOK, toldVars

(* The invariant, from the values after a step.                            *)
LEMMA InvAfter ==
  ASSUME GroupInv, ToldFor,
         {"kind", "protocol"} \subseteq DOMAIN coord', coord'.protocol = coord.protocol,
         member' = [d \in Members |-> member'[d]], OutKept, CommitsOK,
         Voices,
         \A d \in Members : MemberShape(member'[d]) /\ Progress(member'[d])
                            /\ Announced(member'[d], told'[d], forgotten'[d], is_cooperative)
  PROVE  GroupInv'
<1>1. is_cooperative' = is_cooperative BY DEF is_cooperative
<1>2. \A d \in Members : MemberShape(member[d])' BY DEF MemberShape, AtMostOne
<1>3. \A d \in Members : Progress(member[d])' BY DEF Progress, Delivered, OutKept
<1>4. \A d \in Members : Announced(member[d], told[d], forgotten[d], is_cooperative)' BY <1>1 DEF Announced
<1>5. \A p \in Parts : Delivered(groupOffsets[p], p)' BY DEF CommitsOK, Delivered, OutKept
<1> QED BY <1>2, <1>3, <1>4, <1>5 DEF GroupInv, CommitsOK, OutKept, ToldFor, Voices

(* One consumer changes.                                                   *)
LEMMA OneMember ==
  ASSUME GroupInv, NEW c \in Members, NEW m, Become(c, m), MemberShape(m), Progress(m),
         {"kind", "protocol"} \subseteq DOMAIN coord', coord'.protocol = coord.protocol,
         OutKept, CommitsOK, ToldOK(c), untold' \subseteq untold \cup {c}, Voice(c, m.listener),
         Announced(m, told'[c], forgotten'[c], is_cooperative)
  PROVE  GroupInv'
<1>1. /\ member' = [d \in Members |-> member'[d]] /\ member'[c] = m
      /\ \A d \in Members \ {c} : member'[d] = member[d]
  BY DEF GroupInv, Become
<1>2. \A d \in Members : /\ MemberShape(member'[d]) /\ Progress(member'[d])
                         /\ Announced(member'[d], told'[d], forgotten'[d], is_cooperative)
  BY <1>1 DEF GroupInv, ToldFor, ToldOK
<1>3. Voices BY <1>1 DEF GroupInv, Voice, Voices
<1> QED BY <1>1, <1>2, <1>3, InvAfter DEF ToldOK

(* ... and nobody is told, handed or committed anything.                   *)
LEMMA Changes ==
  ASSUME GroupInv, NEW c \in Members, NEW m, Become(c, m), MemberShape(m), Progress(m),
         m.listener = member[c].listener, Announced(m, told[c], forgotten[c], is_cooperative),
         {"kind", "protocol"} \subseteq DOMAIN coord', coord'.protocol = coord.protocol,
         UNCHANGED <<readVars, groupOffsets, toldVars>>, excused \subseteq excused'
  PROVE  GroupInv'
<1>1. ToldOK(c) /\ UNCHANGED <<told, forgotten, untold, bereft>> BY ToldSame
<1>2. Voice(c, m.listener) BY <1>1 DEF GroupInv, Voice
<1> QED BY <1>1, <1>2, OutSame, CommitSame, OneMember

(* ... and goes elsewhere, with all it holds.                              *)
Same(m, n) ==
  /\ m.protocol = n.protocol /\ m.pending = n.pending /\ m.todo = n.todo /\ m.held = n.held
  /\ m.owned = n.owned /\ m.listener = n.listener /\ m.rejoin = n.rejoin

LEMMA SameKept ==
  ASSUME NEW m, NEW n, Same(m, n), NEW t, NEW f, NEW coop
  PROVE  /\ Announced(n, t, f, coop) => Announced(m, t, f, coop)
         /\ Progress(n) => Progress(m)
BY DEF Same, Announced, Progress

LEMMA GoesOn ==
  ASSUME GroupInv, NEW c \in Members, NEW m, Become(c, m), MemberShape(m), Same(m, member[c]),
         {"kind", "protocol"} \subseteq DOMAIN coord', coord'.protocol = coord.protocol,
         UNCHANGED <<readVars, groupOffsets, toldVars>>, excused \subseteq excused'
  PROVE  GroupInv'
<1>1. Progress(m) /\ Announced(m, told[c], forgotten[c], is_cooperative) /\ m.listener = member[c].listener
  BY SameKept DEF GroupInv, Same
<1> QED BY <1>1, Changes

(* The coordinator keeps what it is.                                       *)
LEMMA SameCoord ==
  ASSUME GroupInv, UNCHANGED coord
  PROVE  {"kind", "protocol"} \subseteq DOMAIN coord' /\ coord'.protocol = coord.protocol
BY DEF GroupInv

LEMMA Shaped ==
  ASSUME GroupInv, NEW c \in Members
  PROVE  /\ MemberShape(member[c]) /\ Progress(member[c])
         /\ DOMAIN member[c] = MemberFields /\ (c \in untold => ~member[c].listener)
         /\ (member[c].listener \/ c \in bereft)
         /\ Announced(member[c], told[c], forgotten[c], is_cooperative)
BY DEF GroupInv, MemberShape

LEMMA SoleIn == ASSUME NEW S, S # {} PROVE Sole(S) \in S
BY DEF Sole

LEMMA SoleUnion ==
  ASSUME NEW S, S # {}, AtMostOne(S)
  PROVE  UNION S = Sole(S)
<1>1. S = {Sole(S)} BY SoleIn DEF AtMostOne
<1>2. UNION {Sole(S)} = Sole(S) OBVIOUS
<1> QED BY <1>1, <1>2

-----------------------------------------------------------------------------
(* Reading and committing.                                                 *)

LEMMA DeliverOut ==
  ASSUME GroupInv, NEW c \in Members, NEW records, buffer[c] \subseteq records, Deliver(c, records)
  PROVE  OutKept /\ records \subseteq Out'
<1>1. seen' = seen \cup records /\ buffer' = [buffer EXCEPT ![c] = {}] /\ UNCHANGED stranded BY DEF Deliver
<1>2. /\ buffer' = [d \in Members |-> buffer'[d]]
      /\ \A d \in Members \ {c} : buffer'[d] = buffer[d]
  BY <1>1 DEF GroupInv
<1>3. records \subseteq Out' /\ seen \cup stranded \subseteq Out' BY <1>1 DEF Out
<1>4. ASSUME NEW d \in Members, NEW r \in buffer[d] PROVE r \in Out'
  <2>1. CASE d = c BY <1>3, <2>1
  <2>2. CASE d # c BY <1>2, <2>2 DEF Out
  <2> QED BY <2>1, <2>2
<1> QED BY <1>2, <1>3, <1>4 DEF OutKept, Out

(* Every record a position moves past is handed out, or left in a buffer.  *)
LEMMA ReadEnds ==
  ASSUME GroupInv, NEW c \in Members, ReadRecords(c) \/ ReadCut(c)
  PROVE  \E parts \in SUBSET Held(c) :
           Become(c, Advanced(c, parts)) /\ OutKept /\ Brought(c, parts) \subseteq Out'
<1>1. \A parts \in Rounds(c) : parts \in SUBSET Held(c) BY DEF Rounds
<1>2. {} \in SUBSET Held(c) /\ Brought(c, {}) = {} BY DEF Brought
<1>3. CASE Become(c, Advanced(c, {})) /\ Deliver(c, buffer[c]) BY <1>2, <1>3, DeliverOut
<1>4. CASE buffer[c] = {} /\ \E parts \in Rounds(c) : Become(c, Advanced(c, parts)) /\ Deliver(c, Brought(c, parts))
  BY <1>1, <1>4, DeliverOut
<1>5. CASE Become(c, Advanced(c, {})) /\ UNCHANGED readVars BY <1>2, <1>5, OutSame
<1>6. CASE ReadCut(c)
  <2>1. PICK parts \in Rounds(c) : Become(c, Advanced(c, parts)) /\ buffer' = [buffer EXCEPT ![c] = Brought(c, parts)]
    BY <1>6 DEF ReadCut
  <2>2. buffer[c] = {} /\ UNCHANGED <<seen, stranded>> BY <1>6 DEF ReadCut
  <2>3. /\ buffer' = [d \in Members |-> buffer'[d]] /\ buffer'[c] = Brought(c, parts)
        /\ \A d \in Members \ {c} : buffer'[d] = buffer[d]
    BY <2>1 DEF GroupInv
  <2>4. Brought(c, parts) \subseteq Out' /\ seen \cup stranded \subseteq Out' BY <2>2, <2>3 DEF Out
  <2>5. ASSUME NEW d \in Members, NEW r \in buffer[d] PROVE r \in Out' BY <2>2, <2>3 DEF Out
  <2>6. OutKept BY <2>3, <2>4, <2>5 DEF OutKept, Out
  <2> QED BY <1>1, <2>1, <2>4, <2>6
<1> QED BY <1>3, <1>4, <1>5, <1>6 DEF ReadRecords

LEMMA ReadStep ==
  ASSUME GroupInv, NEW c \in Members, ReadRecords(c) \/ ReadCut(c)
  PROVE  GroupInv'
<1> DEFINE m == member[c]
<1>1. UNCHANGED coord /\ UNCHANGED groupOffsets /\ UNCHANGED toldVars /\ UNCHANGED excused
  BY DEF ReadRecords, ReadCut
<1>2. /\ MemberShape(m) /\ Progress(m) /\ DOMAIN m = MemberFields
      /\ Announced(m, told[c], forgotten[c], is_cooperative)
  BY Shaped
<1>3. PICK parts \in SUBSET Held(c) :
        Become(c, Advanced(c, parts)) /\ OutKept /\ Brought(c, parts) \subseteq Out'
  BY ReadEnds
<1> DEFINE n == Advanced(c, parts)
<1>4. /\ DOMAIN n.held = DOMAIN m.held
      /\ \A p \in DOMAIN m.held : n.held[p] = m.held[p] + (IF p \in parts THEN 1 ELSE 0)
      /\ DOMAIN n = MemberFields /\ n.protocol = m.protocol /\ n.pending = m.pending /\ n.todo = m.todo
      /\ n.owned = m.owned /\ n.listener = m.listener /\ n.rejoin = m.rejoin /\ n.pc = "out"
  <2> DEFINE held == [p \in Held(c) |-> m.held[p] + (IF p \in parts THEN 1 ELSE 0)]
  <2>1. n = [m EXCEPT !.pc = "out", !.held = held] BY DEF Advanced
  <2>2. DOMAIN held = DOMAIN m.held /\ \A p \in DOMAIN m.held : held[p] = m.held[p] + (IF p \in parts THEN 1 ELSE 0)
    BY DEF Held
  <2> HIDE DEF m, n, held
  <2> QED BY <1>2, <2>1, <2>2 DEF MemberFields
<1>5. /\ member' = [d \in Members |-> member'[d]] /\ member'[c] = n
      /\ \A d \in Members \ {c} : member'[d] = member[d]
  BY <1>3 DEF GroupInv, Become
<1> HIDE DEF n
<1>6. MemberShape(n) /\ Announced(n, told[c], forgotten[c], is_cooperative)
  BY <1>2, <1>4 DEF MemberShape, Announced
<1>7. ASSUME NEW p \in DOMAIN n.held \cap Parts
      PROVE  n.held[p] \in Int /\ \A i \in 0..(n.held[p] - 1) : <<p, i>> \in Out'
  <2>1. m.held[p] \in Int /\ \A i \in 0..(m.held[p] - 1) : <<p, i>> \in Out'
    BY <1>2, <1>3, <1>4 DEF Progress, Delivered, OutKept
  <2>2. CASE p \notin parts BY <1>4, <2>1, <2>2
  <2>3. CASE p \in parts
    <3>1. <<p, m.held[p]>> \in Out' /\ n.held[p] = m.held[p] + 1 BY <1>3, <1>4, <2>3 DEF Brought
    <3>2. \A i \in 0..(m.held[p] + 1 - 1) : i = m.held[p] \/ i \in 0..(m.held[p] - 1) BY <2>1
    <3> QED BY <2>1, <3>1, <3>2
  <2> QED BY <2>2, <2>3
<1>8. \A d \in Members : MemberShape(member[d])'
  <2>1. \A d \in Members : MemberShape(member'[d]) BY <1>5, <1>6 DEF GroupInv
  <2> QED BY <2>1 DEF MemberShape, AtMostOne
<1>9. \A d \in Members : Progress(member[d])'
  <2>1. Progress(member[c])' BY <1>5, <1>7 DEF Progress, Delivered
  <2>2. ASSUME NEW d \in Members \ {c} PROVE Progress(member[d])'
    BY <1>3, <1>5 DEF GroupInv, Progress, Delivered, OutKept
  <2> QED BY <2>1, <2>2
<1>10. \A p \in Parts : Delivered(groupOffsets[p], p)' BY <1>1, <1>3 DEF GroupInv, Delivered, OutKept
<1>11. \A d \in Members : Announced(member[d], told[d], forgotten[d], is_cooperative)'
  <2>1. \A d \in Members : Announced(member'[d], told[d], forgotten[d], is_cooperative)
    BY <1>5, <1>6 DEF GroupInv
  <2> QED BY <1>1, <2>1 DEF Announced, is_cooperative, toldVars
<1>12. Voices BY <1>1, <1>4, <1>5 DEF GroupInv, Voices, toldVars
<1> QED BY <1>1, <1>3, <1>5, <1>8, <1>9, <1>10, <1>11, <1>12 DEF GroupInv, OutKept, Voices, toldVars

(* The application commits what it holds.                                  *)
LEMMA CommitStep ==
  ASSUME GroupInv, NEW c \in Members, GroupCommit(c)
  PROVE  GroupInv'
<1>1. /\ UNCHANGED member /\ UNCHANGED coord /\ UNCHANGED readVars /\ UNCHANGED toldVars
      /\ UNCHANGED excused /\ \E accepted : CommitAs(c, accepted)
  BY DEF GroupCommit, memberHistory
<1>2. CommitsOK BY <1>1, CommitDelivered
<1>3. OutKept /\ ToldOK(c) /\ UNCHANGED <<told, forgotten, untold, bereft>> BY <1>1, OutSame, ToldSame DEF toldVars
<1>4. /\ member' = [d \in Members |-> member'[d]]
      /\ \A d \in Members : /\ MemberShape(member'[d]) /\ Progress(member'[d])
                            /\ Announced(member'[d], told'[d], forgotten'[d], is_cooperative)
      /\ Voices
  BY <1>1, <1>3 DEF GroupInv, Voices
<1> QED BY <1>1, <1>2, <1>3, <1>4, SameCoord, InvAfter DEF ToldOK

(* A consumer whose place in the poll changes, with its epoch, its id and  *)
(* its flags, outside of a wait for the group.                             *)
LEMMA Relabelled ==
  ASSUME GroupInv, NEW c \in Members, NEW m, Become(c, m), DOMAIN m = MemberFields, Same(m, member[c]),
         m.pc \notin {"joining", "joined", "syncing"},
         {"kind", "protocol"} \subseteq DOMAIN coord', coord'.protocol = coord.protocol,
         UNCHANGED <<readVars, groupOffsets, toldVars>>, excused \subseteq excused'
  PROVE  GroupInv'
<1>1. MemberShape(m) BY Shaped DEF MemberShape, Same
<1> QED BY <1>1, GoesOn

LEMMA BeginsStep ==
  ASSUME GroupInv, NEW c \in Members, PollBegins(c) \/ PollBegins848(c) \/ SkipBeat(c) \/ GoRead(c)
  PROVE  GroupInv'
<1> DEFINE m == member[c]
<1>1. /\ UNCHANGED coord /\ UNCHANGED <<readVars, groupOffsets, toldVars>> /\ UNCHANGED excused
      /\ \/ Become(c, [m EXCEPT !.pc = "run"])
         \/ Become(c, [m EXCEPT !.pc = "run", !.ever = @ \/ has_joined(m)])
         \/ Become(c, [m EXCEPT !.pc = "after"])
         \/ Become(c, [m EXCEPT !.pc = "read"])
  BY DEF PollBegins, PollBegins848, SkipBeat, GoRead, memberHistory
<1>2. DOMAIN m = MemberFields BY Shaped
<1>3. /\ Same([m EXCEPT !.pc = "run"], m) /\ Same([m EXCEPT !.pc = "after"], m)
      /\ Same([m EXCEPT !.pc = "read"], m)
      /\ Same([m EXCEPT !.pc = "run", !.ever = @ \/ has_joined(m)], m)
  <2> HIDE DEF m
  <2> QED BY <1>2 DEF Same, MemberFields
<1>4. CASE Become(c, [m EXCEPT !.pc = "run"])
  BY <1>1, <1>2, <1>3, <1>4, SameCoord, Relabelled DEF MemberFields
<1>5. CASE Become(c, [m EXCEPT !.pc = "run", !.ever = @ \/ has_joined(m)])
  <2> DEFINE n == [m EXCEPT !.pc = "run", !.ever = @ \/ has_joined(m)]
  <2>1. DOMAIN n = MemberFields /\ n.pc = "run"
    <3> HIDE DEF m
    <3> QED BY <1>2 DEF MemberFields
  <2> QED BY <1>1, <1>3, <1>5, <2>1, SameCoord, Relabelled
<1>6. CASE Become(c, [m EXCEPT !.pc = "after"])
  BY <1>1, <1>2, <1>3, <1>6, SameCoord, Relabelled DEF MemberFields
<1>7. CASE Become(c, [m EXCEPT !.pc = "read"])
  BY <1>1, <1>2, <1>3, <1>7, SameCoord, Relabelled DEF MemberFields
<1> QED BY <1>1, <1>4, <1>5, <1>6, <1>7

-----------------------------------------------------------------------------
(* The classic protocol.                                                   *)

LEMMA ToldAfter ==
  ASSUME GroupInv, NEW c \in Members, NEW parts, TellRevoked(c, parts),
         UNCHANGED forgotten, excused \subseteq excused'
  PROVE  /\ ToldOK(c) /\ forgotten'[c] = forgotten[c]
         /\ told[c] \subseteq told'[c] /\ (member[c].listener => told'[c] = told[c] \cup parts)
<1>1. told = [d \in Members |-> told[d]] /\ (\A d \in Members : forgotten[d] # {} => d \in excused)
      /\ forgotten = [d \in Members |-> forgotten[d]]
  BY DEF GroupInv
<1> QED BY <1>1 DEF TellRevoked, ToldFor, ToldOK

(* What is pending is announced: it need not be any more.                  *)
LEMMA Settled ==
  ASSUME NEW m, MemberShape(m), m.protocol = "classic", m.pending # {}, NEW t, NEW f, NEW coop, Announced(m, t, f, coop),
         NEW n, n.protocol = "classic", n.listener = m.listener, n.held = m.held, n.rejoin = m.rejoin,
         n.todo \subseteq m.todo, NEW u, m.listener => u = t \cup Sole(m.pending)
  PROVE  Announced(n, u, f, coop)
<1>1. UNION m.pending = Sole(m.pending) BY SoleUnion DEF MemberShape
<1> QED BY <1>1 DEF Announced

LEMMA SettleClassicStep ==
  ASSUME GroupInv, NEW c \in Members, SettleClassic(c) \/ SettleCut(c)
  PROVE  GroupInv'
<1> DEFINE m == member[c]
           parts == Sole(m.pending)
<1>1. /\ m.protocol = "classic" /\ m.pc = "run" /\ m.pending # {} /\ TellRevoked(c, parts)
      /\ UNCHANGED coord /\ UNCHANGED readVars /\ UNCHANGED <<forgotten, untold, bereft, excused>>
  BY DEF SettleClassic, SettleCut, Classic
<1>2. CommitsOK BY CommitSame, CommitDelivered DEF SettleClassic, SettleCut
<1>3. /\ MemberShape(m) /\ Progress(m) /\ DOMAIN m = MemberFields
      /\ Announced(m, told[c], forgotten[c], is_cooperative)
  BY Shaped
<1>4. /\ ToldOK(c) /\ forgotten'[c] = forgotten[c]
      /\ m.listener => told'[c] = told[c] \cup parts
  BY <1>1, ToldAfter
<1>5. PICK n : /\ Become(c, n) /\ DOMAIN n = MemberFields /\ n.protocol = "classic" /\ n.listener = m.listener
               /\ n.held = m.held /\ n.rejoin = m.rejoin
               /\ \/ n.todo = m.todo /\ n.pending = {} /\ n.pc = "run"
                  \/ n.todo = {} /\ n.pending = m.pending /\ n.pc = "out"
  <2>1. CASE SettleClassic(c)
    <3> DEFINE n == [m EXCEPT !.pending = {}]
    <3>1. Become(c, n) BY <2>1 DEF SettleClassic
    <3>2. /\ DOMAIN n = MemberFields /\ n.protocol = "classic" /\ n.listener = m.listener
          /\ n.held = m.held /\ n.rejoin = m.rejoin /\ n.todo = m.todo /\ n.pending = {} /\ n.pc = "run"
      <4> HIDE DEF m
      <4> QED BY <1>1, <1>3 DEF MemberFields
    <3> HIDE DEF n
    <3> QED BY <3>1, <3>2
  <2>2. CASE SettleCut(c)
    <3> DEFINE n == [m EXCEPT !.todo = {}, !.pc = "out"]
    <3>1. Become(c, n) BY <2>2 DEF SettleCut
    <3>2. /\ DOMAIN n = MemberFields /\ n.protocol = "classic" /\ n.listener = m.listener
          /\ n.held = m.held /\ n.rejoin = m.rejoin /\ n.todo = {} /\ n.pending = m.pending /\ n.pc = "out"
      <4> HIDE DEF m
      <4> QED BY <1>1, <1>3 DEF MemberFields
    <3> HIDE DEF n
    <3> QED BY <3>1, <3>2
  <2> QED BY <2>1, <2>2
<1>6. MemberShape(n) /\ Progress(n) BY <1>3, <1>5 DEF MemberShape, AtMostOne, Progress
<1>7. Announced(n, told'[c], forgotten'[c], is_cooperative)
  <2> HIDE DEF m
  <2> QED BY <1>1, <1>3, <1>4, <1>5, Settled DEF parts
<1>8. OutKept /\ Voice(c, n.listener) BY <1>1, <1>5, OutSame, Shaped DEF Voice
<1> QED BY <1>1, <1>2, <1>4, <1>5, <1>6, <1>7, <1>8, SameCoord, OneMember

(* The move to an assignment: what is lost was announced.                  *)
LEMMA MoveStep ==
  ASSUME GroupInv, NEW c \in Members, MoveClassic(c)
  PROVE  GroupInv'
<1> DEFINE m == member[c]
           w == Sole(m.todo)
           n == [m EXCEPT !.held = reassign(m.held, w.parts), !.rejoin = w.rejoin, !.todo = {}]
<1>1. /\ m.protocol = "classic" /\ m.pc = "run" /\ m.pending = {} /\ m.todo # {} /\ Become(c, n)
      /\ UNCHANGED coord /\ UNCHANGED groupOffsets /\ UNCHANGED excused /\ Moves(c, w.parts)
  BY DEF MoveClassic, Classic
<1>2. /\ MemberShape(m) /\ Progress(m) /\ DOMAIN m = MemberFields
      /\ Announced(m, told[c], forgotten[c], is_cooperative)
  BY Shaped
<1>3. w \in m.todo BY <1>1, SoleIn
<1>4. m.listener => Held(c) \ w.parts \subseteq told[c] BY <1>1, <1>2, <1>3 DEF Announced, Held
<1>5. /\ told' = [told EXCEPT ![c] = {}] /\ UNCHANGED <<forgotten, bereft>> /\ KeepBuffered(c, w.parts)
      /\ untold' \subseteq untold \cup {c} /\ (m.listener => untold' = untold)
  BY <1>1, <1>4 DEF Moves
<1>6. ToldOK(c) /\ told'[c] = {} BY <1>1, <1>5 DEF GroupInv, ToldFor, ToldOK
<1>7. \A p \in w.parts \cap Parts : Delivered(reassign(m.held, w.parts)[p], p)
  <2> SUFFICES ASSUME NEW p \in w.parts \cap Parts
               PROVE  Delivered(reassign(m.held, w.parts)[p], p)
    OBVIOUS
  <2>1. reassign(m.held, w.parts)[p] = IF p \in DOMAIN m.held THEN m.held[p] ELSE StartAt(p) BY DEF reassign
  <2>2. p \in DOMAIN m.held => Delivered(m.held[p], p) BY <1>2 DEF Progress
  <2>3. Delivered(groupOffsets[p], p) /\ Delivered(0, p) BY DEF GroupInv, Delivered
  <2> HIDE DEF m, w
  <2> QED BY <2>1, <2>2, <2>3 DEF StartAt
<1>8. DOMAIN reassign(m.held, w.parts) = w.parts BY DEF reassign
<1>9. /\ DOMAIN n = MemberFields /\ n.protocol = "classic" /\ n.listener = m.listener /\ n.pc = "run"
      /\ n.held = reassign(m.held, w.parts) /\ n.rejoin = w.rejoin /\ n.todo = {} /\ n.pending = {}
  <2> HIDE DEF m, w
  <2> QED BY <1>1, <1>2 DEF MemberFields
<1> HIDE DEF n
<1>10. MemberShape(n) BY <1>2, <1>3, <1>9 DEF MemberShape, AtMostOne
<1>11. Progress(n) BY <1>7, <1>8, <1>9 DEF Progress
<1>12. Announced(n, told'[c], forgotten'[c], is_cooperative)
  <2>1. m.listener /\ ~is_cooperative /\ w.rejoin => w.parts = {} BY <1>1, <1>2, <1>3 DEF Announced
  <2>2. n.listener /\ ~is_cooperative => (n.rejoin => DOMAIN n.held \subseteq {} \cup UNION n.pending)
    BY <1>8, <1>9, <2>1
  <2> QED BY <1>6, <1>9, <2>2 DEF Announced
<1>13. OutKept /\ Voice(c, n.listener) BY <1>2, <1>5, <1>9, KeptBuffered, Shaped DEF Voice
<1> QED BY <1>1, <1>5, <1>6, <1>10, <1>11, <1>12, <1>13, SameCoord, CommitSame, OneMember

(* ... which fails once what is lost is gone.                              *)
LEMMA MoveFailsStep ==
  ASSUME GroupInv, NEW c \in Members, MoveFails(c)
  PROVE  GroupInv'
<1> DEFINE m == member[c]
           w == Sole(m.todo)
           stay == Held(c) \cap w.parts
           n == [m EXCEPT !.held = [p \in stay |-> m.held[p]], !.todo = {}, !.pc = "out"]
<1>1. /\ m.protocol = "classic" /\ m.pc = "run" /\ m.pending = {} /\ m.todo # {} /\ Become(c, n)
      /\ UNCHANGED coord /\ UNCHANGED groupOffsets /\ UNCHANGED readVars
      /\ UNCHANGED <<excused, told, forgotten, bereft>>
      /\ untold' = IF Held(c) \ stay \subseteq told[c] THEN untold ELSE untold \cup {c}
  BY DEF MoveFails, Classic
<1>2. /\ MemberShape(m) /\ Progress(m) /\ DOMAIN m = MemberFields
      /\ Announced(m, told[c], forgotten[c], is_cooperative)
  BY Shaped
<1>3. w \in m.todo BY <1>1, SoleIn
<1>4. m.listener => Held(c) \ stay \subseteq told[c] BY <1>1, <1>2, <1>3 DEF Announced, Held
<1>5. ToldOK(c) /\ untold' \subseteq untold \cup {c} /\ (m.listener => untold' = untold)
  BY <1>1, <1>4 DEF GroupInv, ToldFor, ToldOK
<1>6. /\ DOMAIN n = MemberFields /\ n.protocol = "classic" /\ n.listener = m.listener /\ n.pc = "out"
      /\ n.held = [p \in stay |-> m.held[p]] /\ n.rejoin = m.rejoin /\ n.todo = {} /\ n.pending = {}
  <2> HIDE DEF m, stay
  <2> QED BY <1>1, <1>2 DEF MemberFields
<1>7. stay \subseteq DOMAIN m.held BY DEF Held
<1> HIDE DEF n, stay
<1>8. MemberShape(n) BY <1>2, <1>6 DEF MemberShape, AtMostOne
<1>9. Progress(n) BY <1>2, <1>6, <1>7 DEF Progress
<1>10. Announced(n, told[c], forgotten[c], is_cooperative) BY <1>1, <1>2, <1>6, <1>7 DEF Announced
<1>11. OutKept /\ Voice(c, n.listener) BY <1>1, <1>5, <1>6, OutSame, Shaped DEF Voice
<1> QED BY <1>1, <1>5, <1>8, <1>9, <1>10, <1>11, SameCoord, CommitSame, OneMember

(* An eager member that must join again gives up all it holds.             *)
LEMMA HeartbeatStep ==
  ASSUME GroupInv, NEW c \in Members, HeartbeatClassic(c)
  PROVE  GroupInv'
<1> DEFINE m == member[c]
<1>1. /\ m.protocol = "classic" /\ m.pc = "run" /\ m.pending = {} /\ m.todo = {}
      /\ UNCHANGED coord /\ UNCHANGED <<readVars, groupOffsets, toldVars>> /\ UNCHANGED excused
      /\ \/ Become(c, [m EXCEPT !.rejoin = TRUE, !.pending = RevokedByBeat(c)])
         \/ Become(c, [m EXCEPT !.pc = "read"])
  BY DEF HeartbeatClassic, Driving, Classic, memberHistory
<1>2. /\ MemberShape(m) /\ Progress(m) /\ DOMAIN m = MemberFields
      /\ Announced(m, told[c], forgotten[c], is_cooperative)
  BY Shaped
<1>3. CASE Become(c, [m EXCEPT !.pc = "read"])
  <2>1. Same([m EXCEPT !.pc = "read"], m)
    <3> HIDE DEF m
    <3> QED BY <1>2 DEF Same, MemberFields
  <2> QED BY <1>1, <1>2, <1>3, <2>1, SameCoord, Relabelled DEF MemberFields
<1>4. CASE Become(c, [m EXCEPT !.rejoin = TRUE, !.pending = RevokedByBeat(c)])
  <2> DEFINE n == [m EXCEPT !.rejoin = TRUE, !.pending = RevokedByBeat(c)]
  <2>1. Become(c, n) BY <1>4
  <2>2. RevokedByBeat(c) = IF is_cooperative THEN {} ELSE {DOMAIN m.held} BY DEF RevokedByBeat, Held
  <2>3. /\ DOMAIN n = MemberFields /\ n.protocol = "classic" /\ n.listener = m.listener /\ n.pc = "run"
        /\ n.held = m.held /\ n.rejoin = TRUE /\ n.todo = {} /\ n.pending = RevokedByBeat(c)
    <3> HIDE DEF m
    <3> QED BY <1>1, <1>2 DEF MemberFields
  <2> HIDE DEF n
  <2>4. MemberShape(n)
    <3>1. AtMostOne(n.pending) /\ AtMostOne(n.todo) BY <2>2, <2>3 DEF AtMostOne
    <3> QED BY <1>2, <2>3, <3>1 DEF MemberShape
  <2>5. Progress(n) BY <1>2, <2>3 DEF Progress
  <2>6. Announced(n, told[c], forgotten[c], is_cooperative) BY <1>2, <2>2, <2>3 DEF Announced
  <2> QED BY <1>1, <2>1, <2>3, <2>4, <2>5, <2>6, SameCoord, Changes
<1> QED BY <1>1, <1>3, <1>4

(* Forgotten by the coordinator: all of it is to be announced.             *)
LEMMA EvictedOK ==
  ASSUME NEW m, MemberShape(m), Progress(m), m.protocol = "classic",
         NEW t, NEW f, NEW coop
  PROVE  /\ MemberShape(Evicted(m)) /\ Progress(Evicted(m)) /\ Evicted(m).listener = m.listener
         /\ Announced(Evicted(m), t, f, coop)
<1> DEFINE n == Evicted(m)
<1>1. /\ DOMAIN n = MemberFields /\ n.protocol = "classic" /\ n.listener = m.listener /\ n.pc = "run"
      /\ n.held = m.held /\ n.rejoin = m.rejoin /\ n.todo = {[parts |-> {}, rejoin |-> TRUE]}
      /\ n.pending = IF DOMAIN m.held = {} THEN {} ELSE {DOMAIN m.held}
  BY DEF Evicted, MemberShape, MemberFields
<1> HIDE DEF n
<1>2. MemberShape(n) BY <1>1 DEF MemberShape, AtMostOne
<1>3. Progress(n) BY <1>1 DEF Progress
<1>4. DOMAIN m.held \subseteq UNION n.pending BY <1>1
<1>5. Announced(n, t, f, coop) BY <1>1, <1>4 DEF Announced
<1> QED BY <1>1, <1>2, <1>3, <1>5 DEF n

(* A plan, for a member that waited for it.                                *)
LEMMA PlannedOK ==
  ASSUME NEW m, MemberShape(m), Progress(m), m.protocol = "classic", m.rejoin, m.pending = {}, m.todo = {},
         NEW t, NEW f, NEW parts
  PROVE  /\ MemberShape(Planned(m, parts)) /\ Progress(Planned(m, parts))
         /\ Planned(m, parts).listener = m.listener
         /\ Announced(m, t, f, is_cooperative) => Announced(Planned(m, parts), t, f, is_cooperative)
<1> DEFINE n == Planned(m, parts)
           lost == IF is_cooperative THEN DOMAIN m.held \ parts ELSE {}
           twice == lost # {}
<1>1. /\ DOMAIN n = MemberFields /\ n.protocol = "classic" /\ n.listener = m.listener /\ n.pc = "run"
      /\ n.held = m.held /\ n.rejoin = m.rejoin /\ n.todo = {[parts |-> parts, rejoin |-> twice]}
      /\ n.pending = IF lost = {} THEN {} ELSE {lost}
  BY DEF Planned, MemberShape, MemberFields
<1> HIDE DEF n
<1>2. MemberShape(n)
  <2>1. twice \in BOOLEAN OBVIOUS
  <2> HIDE DEF lost, twice
  <2>2. AtMostOne(n.pending) /\ AtMostOne(n.todo) /\ \A w \in n.todo : w.rejoin \in BOOLEAN
    BY <1>1, <2>1 DEF AtMostOne
  <2> QED BY <1>1, <2>2 DEF MemberShape
<1>3. Progress(n) BY <1>1 DEF Progress
<1>4. Announced(m, t, f, is_cooperative) => Announced(n, t, f, is_cooperative)
  <2>1. UNION n.pending = lost BY <1>1
  <2>2. n.todo = {[parts |-> parts, rejoin |-> twice]} /\ n.held = m.held /\ n.protocol = "classic"
        /\ n.listener = m.listener /\ n.rejoin = m.rejoin
    BY <1>1
  <2> HIDE DEF twice
  <2>3. CASE is_cooperative BY <2>1, <2>2, <2>3 DEF Announced
  <2>4. CASE ~is_cooperative
    <3>1. ~twice /\ lost = {} BY <2>4 DEF twice
    <3>2. \A w \in n.todo : w.parts = parts /\ ~w.rejoin BY <2>2, <3>1
    <3> QED BY <2>1, <2>2, <2>4, <3>1, <3>2 DEF Announced
  <2> QED BY <2>3, <2>4
<1> QED BY <1>1, <1>2, <1>3, <1>4 DEF n

(* Many consumers go elsewhere, with all they hold.                        *)
LEMMA AllGoOn ==
  ASSUME GroupInv, member' = [d \in Members |-> member'[d]],
         \A d \in Members : MemberShape(member'[d]) /\ Same(member'[d], member[d]),
         {"kind", "protocol"} \subseteq DOMAIN coord', coord'.protocol = coord.protocol,
         UNCHANGED <<readVars, groupOffsets, toldVars>>, excused \subseteq excused'
  PROVE  GroupInv'
<1>1. \A d \in Members : Progress(member'[d]) /\ Announced(member'[d], told[d], forgotten[d], is_cooperative)
  BY SameKept DEF GroupInv
<1>2. Voices BY DEF GroupInv, Same, Voices, toldVars
<1>3. ToldFor /\ UNCHANGED <<told, forgotten>> BY ToldSame
<1> QED BY <1>1, <1>2, <1>3, OutSame, CommitSame, InvAfter

LEMMA InterruptedOK ==
  ASSUME GroupInv, NEW c \in Members
  PROVE  LET i == Interrupted(c)
         IN /\ i = [d \in Members |-> i[d]] /\ i[c] = member[c]
            /\ \A d \in Members : MemberShape(i[d]) /\ Same(i[d], member[d])
<1> DEFINE i == Interrupted(c)
<1>1. i = [d \in Members |-> i[d]] /\ i[c] = member[c] BY DEF Interrupted
<1>2. ASSUME NEW d \in Members PROVE MemberShape(i[d]) /\ Same(i[d], member[d])
  <2> DEFINE m == member[d]
  <2>1. i[d] = m \/ i[d] = [m EXCEPT !.pc = "run"] BY DEF Interrupted
  <2>2. MemberShape(m) BY Shaped
  <2>3. CASE i[d] = m BY <2>2, <2>3 DEF Same
  <2>4. CASE i[d] = [m EXCEPT !.pc = "run"]
    <3> DEFINE n == [m EXCEPT !.pc = "run"]
    <3> HIDE DEF m
    <3>1. DOMAIN n = MemberFields /\ n.pc = "run" /\ Same(n, m) BY <2>2 DEF MemberShape, Same, MemberFields
    <3> HIDE DEF n
    <3>2. MemberShape(n) BY <2>2, <3>1 DEF MemberShape, Same
    <3> QED BY <2>4, <3>1, <3>2 DEF n, m
  <2> QED BY <2>1, <2>3, <2>4
<1> QED BY <1>1, <1>2

LEMMA JoinStep ==
  ASSUME GroupInv, NEW c \in Members, JoinGroup(c)
  PROVE  GroupInv'
<1> DEFINE m == member[c]
<1>1. /\ m.protocol = "classic" /\ m.pc = "run" /\ m.pending = {} /\ m.todo = {} /\ m.rejoin
      /\ UNCHANGED <<readVars, groupOffsets, toldVars>> /\ UNCHANGED excused
  BY DEF JoinGroup, Driving, Classic, memberHistory
<1>2. /\ MemberShape(m) /\ Progress(m) /\ DOMAIN m = MemberFields
      /\ Announced(m, told[c], forgotten[c], is_cooperative)
  BY Shaped
<1>3. {"kind", "protocol"} \subseteq DOMAIN coord' /\ coord'.protocol = coord.protocol
  BY DEF JoinGroup, GroupInv
<1>4. CASE Become(c, [m EXCEPT !.id = coord.next])
  <2> DEFINE n == [m EXCEPT !.id = coord.next]
  <2>1. DOMAIN n = MemberFields /\ Same(n, m) /\ n.pc = "run"
    <3> HIDE DEF m
    <3> QED BY <1>1, <1>2 DEF Same, MemberFields
  <2> QED BY <1>1, <1>3, <1>4, <2>1, Relabelled
<1>5. CASE Become(c, Evicted(m))
  <2>1. /\ MemberShape(Evicted(m)) /\ Progress(Evicted(m)) /\ Evicted(m).listener = m.listener
        /\ Announced(Evicted(m), told[c], forgotten[c], is_cooperative)
    BY <1>1, <1>2, EvictedOK
  <2> QED BY <1>1, <1>3, <1>5, <2>1, Changes
<1>6. CASE Become(c, [m EXCEPT !.epoch = coord.generation, !.pc = "joined"])
  <2> DEFINE n == [m EXCEPT !.epoch = coord.generation, !.pc = "joined"]
  <2>1. MemberShape(n) /\ Same(n, m)
    <3> HIDE DEF m
    <3> QED BY <1>1, <1>2 DEF MemberShape, Same, MemberFields
  <2> HIDE DEF n
  <2> QED BY <1>1, <1>3, <1>6, <2>1, GoesOn DEF n
<1>7. CASE member' = [Interrupted(c) EXCEPT ![c].pc = "joining"]
  <2> DEFINE i == Interrupted(c)
             n == [m EXCEPT !.pc = "joining"]
  <2>1. /\ i = [d \in Members |-> i[d]] /\ i[c] = m
        /\ \A d \in Members : MemberShape(i[d]) /\ Same(i[d], member[d])
    BY InterruptedOK
  <2>2. MemberShape(n) /\ Same(n, m)
    <3> HIDE DEF m
    <3> QED BY <1>1, <1>2 DEF MemberShape, Same, MemberFields
  <2>3. /\ member' = [d \in Members |-> member'[d]] /\ member'[c] = n
        /\ \A d \in Members \ {c} : member'[d] = i[d]
    <3>1. member' = [i EXCEPT ![c] = [i[c] EXCEPT !.pc = "joining"]] BY <1>7
    <3> HIDE DEF i, m
    <3> QED BY <2>1, <3>1
  <2>4. \A d \in Members : MemberShape(member'[d]) /\ Same(member'[d], member[d]) BY <2>1, <2>2, <2>3
  <2> QED BY <1>1, <1>3, <2>3, <2>4, AllGoOn
<1> QED BY <1>4, <1>5, <1>6, <1>7 DEF JoinGroup

LEMMA CompleteStep ==
  ASSUME GroupInv, CompleteJoin
  PROVE  GroupInv'
<1>1. {"kind", "protocol"} \subseteq DOMAIN coord' /\ coord'.protocol = coord.protocol
  BY DEF CompleteJoin, GroupInv
<1>2. member' = [d \in Members |-> member'[d]] BY DEF CompleteJoin
<1>3. ASSUME NEW d \in Members PROVE MemberShape(member'[d]) /\ Same(member'[d], member[d])
  <2> DEFINE m == member[d]
  <2>1. \/ member'[d] = m
        \/ m.pc = "joining" /\ member'[d] = [m EXCEPT !.epoch = coord.generation + 1, !.pc = "joined"]
    BY DEF CompleteJoin
  <2>2. MemberShape(m) BY Shaped
  <2> HIDE DEF m
  <2>3. CASE member'[d] = m BY <2>2, <2>3 DEF Same, m
  <2>4. CASE m.pc = "joining" /\ member'[d] = [m EXCEPT !.epoch = coord.generation + 1, !.pc = "joined"]
    <3>1. Same(member'[d], m) BY <2>2, <2>4 DEF MemberShape, Same, MemberFields
    <3>2. DOMAIN member'[d] = MemberFields /\ m.rejoin /\ m.pending = {} /\ m.todo = {}
      BY <2>2, <2>4 DEF MemberShape, MemberFields
    <3> QED BY <2>2, <3>1, <3>2 DEF MemberShape, Same, m
  <2> QED BY <2>1, <2>3, <2>4
<1> QED BY <1>1, <1>2, <1>3, AllGoOn DEF CompleteJoin, memberHistory

LEMMA SyncStep ==
  ASSUME GroupInv, NEW c \in Members, SyncGroup(c)
  PROVE  GroupInv'
<1> DEFINE m == member[c]
           id == m.id
           roster == { [id |-> i, topics |-> coord.subs[i].topics, owned |-> coord.subs[i].owned,
                        generation |-> coord.subs[i].generation] : i \in coord.members }
           plan == assign_all(coord.protocol, roster, partition_counts(c))
<1>1. /\ m.protocol = "classic" /\ m.pc = "joined"
      /\ UNCHANGED <<readVars, groupOffsets, toldVars>> /\ excused \subseteq excused'
  BY DEF SyncGroup, Classic
<1>2. /\ MemberShape(m) /\ Progress(m) /\ DOMAIN m = MemberFields
      /\ m.rejoin /\ m.pending = {} /\ m.todo = {}
      /\ Announced(m, told[c], forgotten[c], is_cooperative)
  BY <1>1, Shaped DEF MemberShape
<1>3. {"kind", "protocol"} \subseteq DOMAIN coord' /\ coord'.protocol = coord.protocol
  BY DEF SyncGroup, GroupInv
<1>4. ToldOK(c) /\ UNCHANGED <<told, forgotten, untold, bereft>> /\ OutKept BY <1>1, ToldSame, OutSame DEF toldVars
<1>5. CASE Become(c, Evicted(m))
  <2>1. /\ MemberShape(Evicted(m)) /\ Progress(Evicted(m)) /\ Evicted(m).listener = m.listener
        /\ Announced(Evicted(m), told[c], forgotten[c], is_cooperative)
    BY <1>1, <1>2, EvictedOK
  <2> QED BY <1>1, <1>3, <1>5, <2>1, Changes
<1>6. CASE Become(c, [m EXCEPT !.pc = "run"])
  <2>1. Same([m EXCEPT !.pc = "run"], m)
    <3> HIDE DEF m
    <3> QED BY <1>2 DEF Same, MemberFields
  <2> QED BY <1>1, <1>2, <1>3, <1>6, <2>1, Relabelled DEF MemberFields
<1>7. CASE Become(c, [m EXCEPT !.pc = "syncing"])
  <2> DEFINE n == [m EXCEPT !.pc = "syncing"]
  <2>1. MemberShape(n) /\ Same(n, m)
    <3> HIDE DEF m
    <3> QED BY <1>1, <1>2 DEF MemberShape, Same, MemberFields
  <2> HIDE DEF n
  <2> QED BY <1>1, <1>3, <1>7, <2>1, GoesOn DEF n
<1>8. CASE \E parts : Become(c, Planned(m, parts))
  <2>1. PICK parts : Become(c, Planned(m, parts)) BY <1>8
  <2>2. /\ MemberShape(Planned(m, parts)) /\ Progress(Planned(m, parts)) /\ Planned(m, parts).listener = m.listener
        /\ Announced(Planned(m, parts), told[c], forgotten[c], is_cooperative)
    BY <1>1, <1>2, PlannedOK
  <2> QED BY <1>1, <1>3, <2>1, <2>2, Changes
<1>9. CASE member' = [d \in Members |->
                IF d = c \/ (Classic(d) /\ member[d].pc = "syncing")
                THEN Planned(member[d], plan[member[d].id]) ELSE member[d]]
  <2>1. ASSUME NEW d \in Members
        PROVE  /\ MemberShape(member'[d]) /\ Progress(member'[d]) /\ member'[d].listener = member[d].listener
               /\ Announced(member'[d], told[d], forgotten[d], is_cooperative)
    <3>1. /\ MemberShape(member[d]) /\ Progress(member[d])
          /\ Announced(member[d], told[d], forgotten[d], is_cooperative)
      BY Shaped
    <3>2. CASE d = c \/ (Classic(d) /\ member[d].pc = "syncing")
      <4>1. member'[d] = Planned(member[d], plan[member[d].id])
        <5> HIDE DEF plan
        <5> QED BY <1>9, <3>2
      <4>2. member[d].protocol = "classic" /\ member[d].pc \in {"joined", "syncing"} BY <1>1, <3>2 DEF Classic
      <4>3. member[d].rejoin /\ member[d].pending = {} /\ member[d].todo = {} BY <3>1, <4>2 DEF MemberShape
      <4> HIDE DEF plan
      <4> QED BY <3>1, <4>1, <4>2, <4>3, PlannedOK
    <3>3. CASE ~(d = c \/ (Classic(d) /\ member[d].pc = "syncing"))
      <4>1. member'[d] = member[d]
        <5> HIDE DEF plan
        <5> QED BY <1>9, <3>3
      <4> QED BY <3>1, <4>1
    <3> QED BY <3>2, <3>3
  <2>2. member' = [d \in Members |-> member'[d]]
    <3> HIDE DEF plan
    <3> QED BY <1>9
  <2>3. Voices BY <1>4, <2>1 DEF GroupInv, Voices
  <2> QED BY <1>1, <1>3, <1>4, <2>1, <2>2, <2>3, CommitSame, InvAfter DEF ToldOK
<1>10. \/ Become(c, Evicted(m)) \/ Become(c, [m EXCEPT !.pc = "run"])
       \/ Become(c, [m EXCEPT !.pc = "syncing"])
       \/ Become(c, Planned(m, coord.plan[id]))
       \/ member' = [d \in Members |->
                IF d = c \/ (Classic(d) /\ member[d].pc = "syncing")
                THEN Planned(member[d], plan[member[d].id]) ELSE member[d]]
  BY Zenon DEF SyncGroup
<1> HIDE DEF plan
<1> QED BY <1>5, <1>6, <1>7, <1>8, <1>9, <1>10

LEMMA WaitCutStep ==
  ASSUME GroupInv, NEW c \in Members, WaitCut(c)
  PROVE  GroupInv'
<1> DEFINE m == member[c]
<1>1. /\ Become(c, [m EXCEPT !.pc = "out"]) /\ UNCHANGED coord
      /\ UNCHANGED <<readVars, groupOffsets, toldVars>> /\ excused \subseteq excused'
  BY DEF WaitCut
<1>2. DOMAIN m = MemberFields BY Shaped
<1>3. Same([m EXCEPT !.pc = "out"], m)
  <2> HIDE DEF m
  <2> QED BY <1>2 DEF Same, MemberFields
<1> QED BY <1>1, <1>2, <1>3, SameCoord, Relabelled DEF MemberFields

LEMMA EvictClassicStep ==
  ASSUME GroupInv, NEW c \in Members, EvictClassic(c)
  PROVE  GroupInv'
<1> DEFINE i == Interrupted(c)
<1>1. {"kind", "protocol"} \subseteq DOMAIN coord' /\ coord'.protocol = coord.protocol
  BY DEF EvictClassic, GroupInv
<1>2. /\ i = [d \in Members |-> i[d]]
      /\ \A d \in Members : MemberShape(i[d]) /\ Same(i[d], member[d])
  BY InterruptedOK
<1>3. member' = i /\ UNCHANGED <<readVars, groupOffsets, toldVars>> /\ excused \subseteq excused'
  BY DEF EvictClassic
<1> HIDE DEF i
<1> QED BY <1>1, <1>2, <1>3, AllGoOn

(* A member that leaves holds nothing.                                     *)
LEMMA LeaveClassicStep ==
  ASSUME GroupInv, NEW c \in Members, LeaveClassic(c)
  PROVE  GroupInv'
<1> DEFINE m == member[c]
           i == Interrupted(c)
           n == [m EXCEPT !.id = NoId, !.epoch = Unset, !.pc = "gone", !.held = <<>>]
<1>1. /\ m.protocol = "classic" /\ m.pc = "out" /\ UNCHANGED <<forgotten, untold, bereft, excused>> /\ KeepBuffered(c, {})
      /\ TellRevoked(c, Held(c)) /\ CommitAs(c, Admitted(c))
      /\ member' = [i EXCEPT ![c].id = NoId, ![c].epoch = Unset, ![c].pc = "gone", ![c].held = <<>>]
  BY DEF LeaveClassic, Classic
<1>2. {"kind", "protocol"} \subseteq DOMAIN coord' /\ coord'.protocol = coord.protocol
  BY DEF LeaveClassic, GroupInv
<1>3. /\ i = [d \in Members |-> i[d]] /\ i[c] = m
      /\ \A d \in Members : MemberShape(i[d]) /\ Same(i[d], member[d])
  BY InterruptedOK
<1>4. /\ MemberShape(m) /\ Progress(m) /\ DOMAIN m = MemberFields
      /\ Announced(m, told[c], forgotten[c], is_cooperative)
  BY Shaped
<1>5. ToldOK(c) /\ told[c] \subseteq told'[c] /\ forgotten'[c] = forgotten[c] /\ OutKept
  BY <1>1, ToldAfter, KeptBuffered
<1>6. /\ DOMAIN n = MemberFields /\ n.protocol = "classic" /\ n.listener = m.listener /\ n.pc = "gone"
      /\ n.held = <<>> /\ n.rejoin = m.rejoin /\ n.todo = m.todo /\ n.pending = m.pending
  <2> HIDE DEF m
  <2> QED BY <1>1, <1>4 DEF MemberFields
<1>7. /\ member' = [d \in Members |-> member'[d]] /\ member'[c] = n
      /\ \A d \in Members \ {c} : member'[d] = i[d]
  <2> HIDE DEF i
  <2>1. /\ member' = [d \in Members |-> member'[d]]
        /\ \A d \in Members \ {c} : member'[d] = i[d]
    BY <1>1, <1>3
  <2>2. member'[c] = [i[c] EXCEPT !.id = NoId, !.epoch = Unset, !.pc = "gone", !.held = <<>>] BY <1>1, <1>3
  <2> QED BY <1>3, <2>1, <2>2
<1>8. DOMAIN n.held = {} BY <1>6
<1> HIDE DEF n, i
<1>9. MemberShape(n) BY <1>4, <1>6 DEF MemberShape
<1>10. Progress(n) BY <1>8 DEF Progress
<1>11. Announced(n, told'[c], forgotten'[c], is_cooperative)
  <2> HIDE DEF m
  <2>1. m.listener => (~is_cooperative => \A w \in m.todo : w.rejoin => w.parts = {})
    BY <1>1, <1>4 DEF Announced
  <2> QED BY <1>6, <1>8, <2>1 DEF Announced
<1>12. \A d \in Members \ {c} : /\ Progress(member'[d])
                                /\ Announced(member'[d], told'[d], forgotten'[d], is_cooperative)
  BY <1>3, <1>5, <1>7, SameKept DEF GroupInv, ToldFor, ToldOK
<1>13. \A d \in Members : /\ MemberShape(member'[d]) /\ Progress(member'[d])
                          /\ Announced(member'[d], told'[d], forgotten'[d], is_cooperative)
  BY <1>3, <1>7, <1>9, <1>10, <1>11, <1>12
<1>14. Voices BY <1>1, <1>3, <1>6, <1>7 DEF GroupInv, Same, Voices
<1>15. CommitsOK BY <1>1, CommitDelivered
<1> QED BY <1>2, <1>5, <1>7, <1>13, <1>14, <1>15, InvAfter DEF ToldOK

-----------------------------------------------------------------------------
(* KIP-848.                                                                *)

(* An answer names what the consumer is to own: the rest is pending.       *)
LEMMA AnsweredOK ==
  ASSUME NEW m, MemberShape(m), Progress(m), m.protocol = "consumer", m.pending = {},
         NEW epoch, NEW target, NEW t, NEW f, NEW coop
  PROVE  LET n == Answered([m EXCEPT !.rejoin = FALSE], epoch, target)
         IN /\ MemberShape(n) /\ Progress(n) /\ n.owned = target /\ n.held = m.held
            /\ n.protocol = "consumer" /\ n.id = m.id /\ n.pc = "after" /\ n.listener = m.listener
            /\ Announced(m, t, f, coop) => Announced(n, t, f, coop)
<1> DEFINE n == Answered([m EXCEPT !.rejoin = FALSE], epoch, target)
           changed == m.owned \ target # {} \/ target \ m.owned # {}
<1>1. /\ DOMAIN n = MemberFields /\ n.protocol = "consumer" /\ n.listener = m.listener /\ n.pc = "after"
      /\ n.held = m.held /\ n.rejoin = FALSE /\ n.todo = m.todo /\ n.owned = target /\ n.id = m.id
      /\ n.pending = IF changed THEN {m.owned \ target} ELSE {}
  BY DEF Answered, reconcile, MemberShape, MemberFields
<1> HIDE DEF n
<1>2. AtMostOne(n.pending) BY <1>1 DEF AtMostOne
<1>3. MemberShape(n) BY <1>1, <1>2 DEF MemberShape
<1>4. Progress(n) BY <1>1 DEF Progress
<1>5. Announced(m, t, f, coop) => Announced(n, t, f, coop)
  <2> SUFFICES ASSUME Announced(m, t, f, coop)
               PROVE  Announced(n, t, f, coop)
    OBVIOUS
  <2>1. DOMAIN m.held \subseteq m.owned \cup f BY DEF Announced
  <2>2. DOMAIN n.held \ n.owned \subseteq f \cup UNION n.pending BY <1>1, <2>1
  <2>3. n.pending = {} => DOMAIN n.held \subseteq n.owned \cup f BY <1>1, <2>1
  <2> QED BY <1>1, <2>2, <2>3 DEF Announced
<1> QED BY <1>1, <1>3, <1>4, <1>5 DEF n

(* What the heartbeat of c finds and leaves at the coordinator.            *)
Joins(c) == member[c].epoch = EPOCH_JOIN /\ member[c].id \notin Ids848
Joined(c) ==
  IF Joins(c)
  THEN [coord EXCEPT !.epoch = @ + 1,
          !.members = [i \in Ids848 \cup {member[c].id} |->
             IF i = member[c].id THEN [epoch |-> 0, before |-> 0, given |-> {}, revoking |-> {},
                                       topics |-> Subscribed[c]]
             ELSE coord.members[i]]]
  ELSE coord
Me(c) == Reconciled(Joined(c), member[c].id, build(member[c]))

(* The three ends of a heartbeat: it is refused; it is answered, with an   *)
(* assignment or without; its answer is lost.                              *)
LEMMA BeatEnds ==
  ASSUME NEW c \in Members, Beat(c)
  PROVE  /\ Kip848(c) /\ coord.kind = "consumer" /\ member[c].pc = "run" /\ member[c].pending = {}
         /\ UNCHANGED <<groupOffsets, readVars, told, untold, bereft>> /\ excused \subseteq excused'
         /\ \/ /\ Become(c, [FreshMembership([member[c] EXCEPT !.rejoin = FALSE], coord.next) EXCEPT !.pc = "after"])
               /\ coord' = [coord EXCEPT !.next = @ + 1] /\ excused' = excused \cup {c}
               /\ forgotten' = [forgotten EXCEPT ![c] = Held(c)]
            \/ /\ UNCHANGED forgotten /\ coord' = [Joined(c) EXCEPT !.members[member[c].id] = Me(c)]
               /\ member[c].id \in DOMAIN Joined(c).members
               /\ \/ Become(c, Answered([member[c] EXCEPT !.rejoin = FALSE], Me(c).epoch, Me(c).given))
                  \/ /\ member[c].epoch # EPOCH_JOIN /\ Me(c).given = Joined(c).members[member[c].id].given
                     /\ Become(c, [[member[c] EXCEPT !.rejoin = FALSE]
                                     EXCEPT !.epoch = Me(c).epoch, !.ack = FALSE, !.pc = "after"])
                  \/ Become(c, [member[c] EXCEPT !.pc = "out"]) /\ excused' = excused \cup {c}
BY DEF Beat, Joins, Joined, Me

LEMMA JoinedFields ==
  ASSUME GroupInv, NEW c \in Members
  PROVE  {"kind", "protocol"} \subseteq DOMAIN Joined(c) /\ Joined(c).protocol = coord.protocol
BY DEF GroupInv, Joined

LEMMA BeatStep ==
  ASSUME GroupInv, NEW c \in Members, Beat(c)
  PROVE  GroupInv'
<1> DEFINE m == member[c]
           fresh == [FreshMembership([m EXCEPT !.rejoin = FALSE], coord.next) EXCEPT !.pc = "after"]
           same == [[m EXCEPT !.rejoin = FALSE] EXCEPT !.epoch = Me(c).epoch, !.ack = FALSE, !.pc = "after"]
<1>1. /\ m.protocol = "consumer" /\ m.pc = "run" /\ m.pending = {}
      /\ UNCHANGED <<groupOffsets, readVars, told, untold, bereft>> /\ excused \subseteq excused'
  BY BeatEnds DEF Kip848
<1>2. /\ MemberShape(m) /\ Progress(m) /\ DOMAIN m = MemberFields
      /\ Announced(m, told[c], forgotten[c], is_cooperative)
  BY Shaped
<1>4. CASE /\ Become(c, fresh) /\ coord' = [coord EXCEPT !.next = @ + 1] /\ excused' = excused \cup {c}
           /\ forgotten' = [forgotten EXCEPT ![c] = Held(c)]
  <2>1. {"kind", "protocol"} \subseteq DOMAIN coord' /\ coord'.protocol = coord.protocol BY <1>4 DEF GroupInv
  <2>2. /\ DOMAIN fresh = MemberFields /\ fresh.protocol = "consumer" /\ fresh.listener = m.listener
        /\ fresh.pc = "after" /\ fresh.held = m.held /\ fresh.rejoin = FALSE /\ fresh.todo = m.todo
        /\ fresh.pending = {}
    <3> HIDE DEF m
    <3> QED BY <1>1, <1>2 DEF FreshMembership, MemberFields
  <2> HIDE DEF fresh
  <2>3. MemberShape(fresh) /\ Progress(fresh) BY <1>2, <2>2 DEF MemberShape, AtMostOne, Progress
  <2>4. ToldOK(c) /\ forgotten'[c] = DOMAIN m.held BY <1>1, <1>4 DEF GroupInv, ToldFor, ToldOK, Held
  <2>5. Announced(fresh, told'[c], forgotten'[c], is_cooperative) BY <2>2, <2>4 DEF Announced
  <2>6. OutKept /\ Voice(c, fresh.listener) BY <1>1, <2>2, OutSame, Shaped DEF Voice
  <2> QED BY <1>1, <1>4, <2>1, <2>3, <2>4, <2>5, <2>6, CommitSame, OneMember
<1>5. CASE coord' = [Joined(c) EXCEPT !.members[m.id] = Me(c)] /\ UNCHANGED forgotten
  <2>0. UNCHANGED <<readVars, groupOffsets, toldVars>> BY <1>1, <1>5 DEF toldVars
  <2>1. {"kind", "protocol"} \subseteq DOMAIN coord' /\ coord'.protocol = coord.protocol BY <1>5, JoinedFields
  <2>2. CASE Become(c, Answered([m EXCEPT !.rejoin = FALSE], Me(c).epoch, Me(c).given))
    <3> DEFINE n == Answered([m EXCEPT !.rejoin = FALSE], Me(c).epoch, Me(c).given)
    <3>1. /\ MemberShape(n) /\ Progress(n) /\ n.listener = m.listener
          /\ Announced(n, told[c], forgotten[c], is_cooperative)
      BY <1>1, <1>2, AnsweredOK
    <3> HIDE DEF n
    <3> QED BY <1>1, <2>0, <2>1, <2>2, <3>1, Changes DEF n
  <2>3. CASE Become(c, same)
    <3>1. /\ DOMAIN same = MemberFields /\ same.protocol = "consumer" /\ same.listener = m.listener
          /\ same.pc = "after" /\ same.held = m.held /\ same.rejoin = FALSE /\ same.todo = m.todo
          /\ same.pending = {} /\ same.owned = m.owned
      <4> HIDE DEF m
      <4> QED BY <1>1, <1>2 DEF MemberFields
    <3> HIDE DEF same
    <3>2. MemberShape(same) /\ Progress(same) BY <1>2, <3>1 DEF MemberShape, AtMostOne, Progress
    <3>3. Announced(same, told[c], forgotten[c], is_cooperative) BY <1>1, <1>2, <3>1 DEF Announced
    <3> QED BY <1>1, <2>0, <2>1, <2>3, <3>1, <3>2, <3>3, Changes
  <2>4. CASE Become(c, [m EXCEPT !.pc = "out"])
    <3>1. Same([m EXCEPT !.pc = "out"], m)
      <4> HIDE DEF m
      <4> QED BY <1>2 DEF Same, MemberFields
    <3> QED BY <1>1, <1>2, <2>0, <2>1, <2>4, <3>1, Relabelled DEF MemberFields
  <2> QED BY <2>2, <2>3, <2>4, <1>5, <1>4, BeatEnds
<1> QED BY <1>4, <1>5, BeatEnds

(* The consumer moves to what it owns.                                     *)
LEMMA SettleStep ==
  ASSUME GroupInv, NEW c \in Members, Settle(c)
  PROVE  GroupInv'
<1> DEFINE m == member[c]
           revoked == Sole(m.pending)
           succ == [p \in m.owned |-> IF p \in Held(c) THEN m.held[p]
                                      ELSE IF groupOffsets'[p] = Unset THEN 0 ELSE groupOffsets'[p]]
           n == [m EXCEPT !.pending = {}, !.pc = AfterSettle(m), !.held = succ]
<1>1. /\ m.protocol = "consumer" /\ m.pc \in {"run", "after"} /\ m.pending # {}
      /\ UNCHANGED coord /\ UNCHANGED <<bereft, excused>> /\ KeepBuffered(c, m.owned) /\ Become(c, n)
      /\ told' = [told EXCEPT ![c] = {}] /\ forgotten' = [forgotten EXCEPT ![c] = {}]
      /\ untold' = IF Held(c) \ m.owned \subseteq told[c] \cup forgotten[c] \cup (IF m.listener THEN revoked ELSE {})
                   THEN untold ELSE untold \cup {c}
  BY DEF Settle, Kip848
<1>2. CommitsOK BY CommitSame, CommitDelivered DEF Settle
<1>3. /\ MemberShape(m) /\ Progress(m) /\ DOMAIN m = MemberFields
      /\ Announced(m, told[c], forgotten[c], is_cooperative)
  BY Shaped
<1>4. UNION m.pending = revoked BY <1>1, <1>3, SoleUnion DEF MemberShape
<1>5. m.listener => Held(c) \ m.owned \subseteq told[c] \cup forgotten[c] \cup revoked
  BY <1>1, <1>3, <1>4 DEF Announced, Held
<1>6. untold' \subseteq untold \cup {c} /\ (m.listener => untold' = untold) BY <1>1, <1>5
<1>7. ToldOK(c) /\ OutKept BY <1>1, KeptBuffered DEF GroupInv, ToldFor, ToldOK
<1>8. DOMAIN succ = m.owned /\ \A p \in DOMAIN succ \cap Parts : Delivered(succ[p], p)
  <2>1. ASSUME NEW p \in m.owned \cap Parts PROVE Delivered(succ[p], p)
    <3>1. succ[p] = IF p \in DOMAIN m.held THEN m.held[p]
                    ELSE IF groupOffsets'[p] = Unset THEN 0 ELSE groupOffsets'[p]
      BY DEF Held
    <3>2. p \in DOMAIN m.held => Delivered(m.held[p], p) BY <1>3 DEF Progress
    <3>3. Delivered(groupOffsets'[p], p) /\ Delivered(0, p) BY <1>2 DEF CommitsOK, Delivered
    <3> HIDE DEF succ, m
    <3> QED BY <3>1, <3>2, <3>3
  <2> QED BY <2>1
<1> HIDE DEF succ
<1>9. /\ DOMAIN n = MemberFields /\ n.protocol = "consumer" /\ n.listener = m.listener
      /\ n.pc = AfterSettle(m) /\ n.held = succ /\ n.rejoin = m.rejoin /\ n.todo = m.todo
      /\ n.pending = {} /\ n.owned = m.owned
  <2> HIDE DEF m
  <2> QED BY <1>1, <1>3 DEF MemberFields
<1>10. AfterSettle(m) \in {"run", "read"} BY <1>1 DEF AfterSettle
<1> HIDE DEF n
<1>11. MemberShape(n) /\ Progress(n) BY <1>3, <1>8, <1>9, <1>10 DEF MemberShape, AtMostOne, Progress
<1>12. Announced(n, told'[c], forgotten'[c], is_cooperative) BY <1>8, <1>9 DEF Announced
<1>13. Voice(c, n.listener) BY <1>1, <1>6, <1>9, Shaped DEF Voice
<1> QED BY <1>1, <1>2, <1>6, <1>7, <1>11, <1>12, <1>13, SameCoord, OneMember

LEMMA SettleFailsStep ==
  ASSUME GroupInv, NEW c \in Members, SettleFails(c)
  PROVE  GroupInv'
<1> DEFINE m == member[c]
           revoked == Sole(m.pending)
           kept == [p \in Held(c) \cap m.owned |-> m.held[p]]
<1>1. /\ m.protocol = "consumer" /\ m.pending # {} /\ UNCHANGED coord /\ UNCHANGED readVars
      /\ UNCHANGED <<forgotten, bereft, excused>> /\ TellRevoked(c, revoked)
  BY DEF SettleFails, Kip848
<1>2. /\ MemberShape(m) /\ Progress(m) /\ DOMAIN m = MemberFields
      /\ Announced(m, told[c], forgotten[c], is_cooperative)
  BY Shaped
<1>3. UNION m.pending = revoked BY <1>1, <1>2, SoleUnion DEF MemberShape
<1>4. /\ ToldOK(c) /\ forgotten'[c] = forgotten[c] /\ OutKept
      /\ m.listener => told'[c] = told[c] \cup revoked
  BY <1>1, ToldAfter, OutSame
<1>5. m.listener => DOMAIN m.held \ m.owned \subseteq told'[c] \cup forgotten[c]
  BY <1>1, <1>2, <1>3, <1>4 DEF Announced
<1>6. CASE Become(c, [m EXCEPT !.pc = "out"]) /\ UNCHANGED <<groupOffsets, untold>>
  <2> DEFINE n == [m EXCEPT !.pc = "out"]
  <2>1. /\ DOMAIN n = MemberFields /\ n.protocol = "consumer" /\ n.listener = m.listener
        /\ n.pc = "out" /\ n.held = m.held /\ n.rejoin = m.rejoin /\ n.todo = m.todo
        /\ n.pending = m.pending /\ n.owned = m.owned
    <3> HIDE DEF m
    <3> QED BY <1>1, <1>2 DEF MemberFields
  <2>2. Become(c, n) BY <1>6
  <2> HIDE DEF n
  <2>3. MemberShape(n) /\ Progress(n) BY <1>2, <2>1 DEF MemberShape, Progress
  <2>4. Announced(n, told'[c], forgotten'[c], is_cooperative) BY <1>1, <1>4, <1>5, <2>1 DEF Announced
  <2>5. Voice(c, n.listener) BY <1>1, <1>6, <2>1, Shaped DEF Voice
  <2> QED BY <1>1, <1>4, <1>6, <2>2, <2>3, <2>4, <2>5, SameCoord, CommitSame, OneMember
<1>7. CASE /\ Become(c, [m EXCEPT !.pc = "out", !.held = kept])
           /\ untold' = IF Held(c) \ m.owned \subseteq told'[c] \cup forgotten[c] THEN untold ELSE untold \cup {c}
           /\ IF revoked = {} THEN UNCHANGED groupOffsets ELSE CommitAs(c, Member848(c))
  <2> DEFINE n == [m EXCEPT !.pc = "out", !.held = kept]
  <2>1. CommitsOK BY <1>7, CommitSame, CommitDelivered
  <2>2. untold' \subseteq untold \cup {c} /\ (m.listener => untold' = untold) BY <1>5, <1>7 DEF Held
  <2>3. DOMAIN kept = DOMAIN m.held \cap m.owned /\ \A p \in DOMAIN kept : kept[p] = m.held[p] BY DEF Held
  <2> HIDE DEF kept
  <2>4. /\ DOMAIN n = MemberFields /\ n.protocol = "consumer" /\ n.listener = m.listener
        /\ n.pc = "out" /\ n.held = kept /\ n.rejoin = m.rejoin /\ n.todo = m.todo
        /\ n.pending = m.pending /\ n.owned = m.owned
    <3> HIDE DEF m
    <3> QED BY <1>1, <1>2 DEF MemberFields
  <2>5. Become(c, n) BY <1>7
  <2> HIDE DEF n
  <2>6. MemberShape(n) /\ Progress(n) BY <1>2, <2>3, <2>4 DEF MemberShape, Progress
  <2>7. Announced(n, told'[c], forgotten'[c], is_cooperative) BY <1>1, <2>3, <2>4 DEF Announced
  <2>8. Voice(c, n.listener) BY <1>1, <2>2, <2>4, Shaped DEF Voice
  <2> QED BY <1>1, <1>4, <2>1, <2>2, <2>5, <2>6, <2>7, <2>8, SameCoord, OneMember
<1> QED BY <1>6, <1>7 DEF SettleFails

LEMMA Leave848Step ==
  ASSUME GroupInv, NEW c \in Members, Leave848(c)
  PROVE  GroupInv'
<1> DEFINE m == member[c]
           n == [FreshMembership(m, NoId) EXCEPT !.pc = "gone", !.held = <<>>]
<1>1. /\ m.protocol = "consumer" /\ UNCHANGED <<forgotten, untold, bereft, excused>> /\ KeepBuffered(c, {}) /\ Become(c, n)
      /\ TellRevoked(c, Held(c)) /\ CommitAs(c, Member848(c))
  BY DEF Leave848, Kip848
<1>2. {"kind", "protocol"} \subseteq DOMAIN coord' /\ coord'.protocol = coord.protocol
  BY DEF Leave848, Without, GroupInv
<1>3. /\ MemberShape(m) /\ DOMAIN m = MemberFields
      /\ Announced(m, told[c], forgotten[c], is_cooperative)
  BY Shaped
<1>4. ToldOK(c) /\ OutKept BY <1>1, ToldAfter, KeptBuffered
<1>5. /\ DOMAIN n = MemberFields /\ n.protocol = "consumer" /\ n.listener = m.listener /\ n.pc = "gone"
      /\ n.held = <<>> /\ n.rejoin = m.rejoin /\ n.todo = m.todo /\ n.pending = m.pending
  <2> HIDE DEF m
  <2> QED BY <1>1, <1>3 DEF FreshMembership, MemberFields
<1>6. DOMAIN n.held = {} BY <1>5
<1> HIDE DEF n
<1>7. MemberShape(n) /\ Progress(n) BY <1>3, <1>5, <1>6 DEF MemberShape, Progress
<1>8. Announced(n, told'[c], forgotten'[c], is_cooperative) BY <1>3, <1>5, <1>6 DEF Announced
<1>9. Voice(c, n.listener) BY <1>1, <1>5, Shaped DEF Voice
<1> QED BY <1>1, <1>2, <1>4, <1>7, <1>8, <1>9, CommitDelivered, OneMember

LEMMA Expire848Step ==
  ASSUME GroupInv, NEW c \in Members, Expire848(c)
  PROVE  GroupInv'
<1>1. /\ UNCHANGED member /\ UNCHANGED <<readVars, groupOffsets, toldVars>> /\ excused \subseteq excused'
      /\ coord' = Without(member[c].id)
  BY DEF Expire848
<1>2. {"kind", "protocol"} \subseteq DOMAIN coord' /\ coord'.protocol = coord.protocol
  BY <1>1 DEF Without, GroupInv
<1>3. \A d \in Members : MemberShape(member'[d]) /\ Same(member'[d], member[d]) BY <1>1 DEF GroupInv, Same
<1> QED BY <1>1, <1>2, <1>3, AllGoOn DEF GroupInv

(* A fallback to the classic protocol begins with nothing.                 *)
LEMMA DowngradeStep ==
  ASSUME GroupInv, NEW c \in Members, Downgrade(c) \/ DowngradeFails(c)
  PROVE  GroupInv'
<1> DEFINE m == member[c]
<1>1. UNCHANGED coord /\ UNCHANGED <<readVars, groupOffsets, told, forgotten, untold>> /\ UNCHANGED excused
  BY DEF Downgrade, DowngradeFails, memberHistory, toldVars
<1>2. /\ MemberShape(m) /\ Progress(m) /\ DOMAIN m = MemberFields
      /\ Announced(m, told[c], forgotten[c], is_cooperative)
  BY Shaped
<1>3. ToldOK(c) /\ OutKept BY <1>1, OutSame DEF GroupInv, ToldFor, ToldOK
<1>4. CASE Downgrade(c)
  <2> DEFINE n == handoff(m)
  <2>1. Become(c, n) /\ UNCHANGED toldVars BY <1>4 DEF Downgrade, memberHistory
  <2>2. /\ DOMAIN n = MemberFields /\ n.protocol = "classic" /\ n.listener = m.listener /\ n.pc = "out"
        /\ n.held = <<>> /\ n.rejoin = TRUE /\ n.todo = {} /\ n.pending = {}
    BY DEF handoff, NewMember, MemberFields
  <2>3. DOMAIN n.held = {} BY <2>2
  <2> HIDE DEF n
  <2>4. MemberShape(n) /\ Progress(n) BY <1>2, <2>2, <2>3 DEF MemberShape, AtMostOne, Progress
  <2>5. Announced(n, told[c], forgotten[c], is_cooperative) BY <1>2, <2>2, <2>3 DEF Announced
  <2> QED BY <1>1, <2>1, <2>2, <2>4, <2>5, SameCoord, Changes
<1>5. CASE DowngradeFails(c)
  <2> DEFINE n == [m EXCEPT !.listener = FALSE, !.pc = "out"]
  <2>1. Become(c, n) /\ bereft' = bereft \cup {c} BY <1>5 DEF DowngradeFails
  <2>2. /\ DOMAIN n = MemberFields /\ n.protocol = m.protocol /\ n.listener = FALSE /\ n.pc = "out"
        /\ n.held = m.held /\ n.rejoin = m.rejoin /\ n.todo = m.todo /\ n.pending = m.pending
        /\ n.owned = m.owned
    <3> HIDE DEF m
    <3> QED BY <1>2 DEF MemberFields
  <2> HIDE DEF n
  <2>3. MemberShape(n) /\ Progress(n) BY <1>2, <2>2 DEF MemberShape, Progress
  <2>4. Announced(n, told[c], forgotten[c], is_cooperative) BY <1>2, <2>2 DEF Announced
  <2>5. Voice(c, n.listener) BY <2>1, <2>2 DEF Voice
  <2> QED BY <1>1, <1>3, <2>1, <2>3, <2>4, <2>5, SameCoord, CommitSame, OneMember
<1> QED BY <1>4, <1>5

-----------------------------------------------------------------------------
(* The first two theorems.                                                 *)

LEMMA GroupInvInit == NegotiatedInit => GroupInv
<1> SUFFICES ASSUME NegotiatedInit
             PROVE  GroupInv
  OBVIOUS
<1>1. /\ groupOffsets = [p \in Parts |-> Unset] /\ buffer = [c \in Members |-> {}]
      /\ told = [c \in Members |-> {}] /\ forgotten = [c \in Members |-> {}] /\ untold = {}
  BY DEF NegotiatedInit, GroupInit
<1>2. {"kind", "protocol"} \subseteq DOMAIN coord BY DEF NegotiatedInit, NoConsumerGroup, NoGroup
<1>3. \E advertises \in BOOLEAN : member = [c \in Members |-> Subscribe(choice(advertises), c)]
  BY DEF NegotiatedInit, Advertised
<1>4. ASSUME NEW c \in Members
      PROVE  /\ DOMAIN member[c] = MemberFields /\ member[c].protocol \in {"consumer", "classic"}
             /\ member[c].listener = TRUE /\ member[c].pc = "out" /\ member[c].held = <<>>
             /\ member[c].rejoin = TRUE /\ member[c].todo = {} /\ member[c].pending = {}
             /\ member[c].owned = {}
  <2>1. PICK protocol \in {"consumer", "classic"} : member[c] = Subscribe(protocol, c) BY <1>3 DEF choice
  <2> DEFINE new == NewMember(protocol)
  <2>2. /\ DOMAIN new = MemberFields /\ new.protocol = protocol /\ new.listener = TRUE
        /\ new.pc = "out" /\ new.held = <<>> /\ new.rejoin = TRUE /\ new.todo = {}
        /\ new.pending = {} /\ new.owned = {}
    BY DEF NewMember, MemberFields
  <2>3. member[c] = IF protocol = "consumer" THEN FreshMembership(new, c) ELSE new BY <2>1 DEF Subscribe
  <2> HIDE DEF new
  <2> QED BY <2>2, <2>3 DEF FreshMembership, MemberFields
<1>5. \A c \in Members : DOMAIN member[c].held = {}
  <2>1. DOMAIN << >> = {} OBVIOUS
  <2> QED BY <1>4, <2>1
<1>6. \A c \in Members : MemberShape(member[c]) /\ Progress(member[c])
  BY <1>4, <1>5 DEF MemberShape, AtMostOne, Progress
<1>7. \A c \in Members : Announced(member[c], told[c], forgotten[c], is_cooperative)
  BY <1>1, <1>4, <1>5 DEF Announced
<1>8. \A p \in Parts : Delivered(groupOffsets[p], p) BY <1>1 DEF Delivered, Unset
<1> QED BY <1>1, <1>2, <1>3, <1>4, <1>6, <1>7, <1>8 DEF GroupInv

LEMMA GroupInvStep == GroupInv /\ [NegotiatedNext]_groupVars => GroupInv'
<1> SUFFICES ASSUME GroupInv, [NegotiatedNext]_groupVars
             PROVE  GroupInv'
  OBVIOUS
<1>1. ASSUME NEW c \in Members, PollStep(c) PROVE GroupInv'
  <2>1. CASE ClassicStep(c)
    BY <2>1, SettleClassicStep, MoveStep, HeartbeatStep, JoinStep, SyncStep DEF ClassicStep
  <2>2. CASE ConsumerStep(c) BY <2>2, BeatStep, SettleStep, BeginsStep DEF ConsumerStep
  <2> QED BY <1>1, <2>1, <2>2, BeginsStep, ReadStep, DowngradeStep DEF PollStep
<1>2. ASSUME NEW c \in Members, ClassicFault(c) PROVE GroupInv'
  BY <1>2, SettleClassicStep, MoveFailsStep, WaitCutStep, LeaveClassicStep, EvictClassicStep DEF ClassicFault
<1>3. ASSUME NEW c \in Members, ConsumerFault(c) PROVE GroupInv'
  BY <1>3, SettleFailsStep, Leave848Step, Expire848Step DEF ConsumerFault
<1>4. ASSUME NEW c \in Members, SkipBeat(c) \/ GroupCommit(c) \/ ReadCut(c) \/ DowngradeFails(c) PROVE GroupInv'
  BY <1>4, BeginsStep, CommitStep, ReadStep, DowngradeStep
<1>5. CASE UNCHANGED groupVars
  <2>1. UNCHANGED member /\ UNCHANGED coord /\ UNCHANGED <<readVars, groupOffsets, toldVars>> /\ UNCHANGED excused
    BY <1>5 DEF groupVars, memberHistory
  <2>2. \A d \in Members : MemberShape(member'[d]) /\ Same(member'[d], member[d]) BY <2>1 DEF GroupInv, Same
  <2> QED BY <2>1, <2>2, SameCoord, AllGoOn DEF GroupInv
<1> QED BY <1>1, <1>2, <1>3, <1>4, <1>5, CompleteStep DEF NegotiatedNext

(* Who loses a partition was told first.                                   *)
(* on_revoke (rebalance.rs) named every partition a member loses while it  *)
(* still held it, in both protocols: evicted or not, and through every     *)
(* dropped poll, interrupted round and lost answer.  Excepted are a member *)
(* whose listener was lost in a failed handoff, and the partitions that a  *)
(* KIP-848 member held when a refused heartbeat reset its membership.      *)
THEOREM RevokedAreTold == NegotiatedSpecification => []RevokedFirst
<1>1. GroupInv => RevokedFirst BY DEF GroupInv, RevokedFirst
<1> QED BY <1>1, GroupInvInit, GroupInvStep, PTL DEF NegotiatedSpecification

(* Commits never run ahead of delivery.                                    *)
(* Every record below a committed offset (commit_as) was handed to some    *)
(* member of the group, or waits in the buffer of one; excepted are those  *)
(* that a dropped poll left in the buffer of a member which then lost      *)
(* their partition (consumer.rs:440-443).                                  *)
THEOREM CommitsAreDelivered == NegotiatedSpecification => []CommitsDelivered
<1>1. GroupInv => CommitsDelivered BY DEF GroupInv, CommitsDelivered, Delivered, Out
<1> QED BY <1>1, GroupInvInit, GroupInvStep, PTL DEF NegotiatedSpecification

-----------------------------------------------------------------------------
(* One owner in a KIP-848 group.                                           *)

LEMMA KipAfter ==
  ASSUME coord'.kind = "consumer" => KipOK(coord', member', excused')
  PROVE  KipInv'
BY DEF KipInv, KipOK, CoordOK, IdsOK, HoldsOK, Down

(* A consumer that takes up no more than it owns, at the same coordinator. *)
LEMMA KipQuiet ==
  ASSUME GroupInv, KipOK(coord, member, excused), NEW c \in Members, NEW n, Become(c, n),
         UNCHANGED coord, excused \subseteq excused',
         n.protocol = "consumer", n.id = member[c].id, n.owned = member[c].owned,
         DOMAIN n.held \subseteq Held(c) \cup member[c].owned, member[c].pc # "gone"
  PROVE  KipOK(coord', member', excused')
<1>1. /\ member'[c] = n /\ \A d \in Members \ {c} : member'[d] = member[d] BY DEF GroupInv, Become
<1>2. IdsOK(coord, member')
  <2>1. \A d \in Members : member'[d].id = member[d].id /\ member'[d].protocol = "consumer"
    BY <1>1 DEF KipOK, IdsOK
  <2>2. \A d \in Members : member'[d].id = NoId => member'[d].pc = "gone" BY <1>1 DEF KipOK, IdsOK
  <2> QED BY <2>1, <2>2 DEF KipOK, IdsOK
<1>3. c \notin excused => HoldsOK(coord, n) BY DEF KipOK, HoldsOK, Down, Held
<1>4. \A d \in Members \ excused' : HoldsOK(coord, member'[d]) BY <1>1, <1>3 DEF KipOK
<1> QED BY <1>2, <1>4 DEF KipOK

(* What a heartbeat makes of the entry of a member it knows: nothing is    *)
(* given that another has, and nothing taken that was not acknowledged.    *)
LEMMA ReconciledOK ==
  ASSUME NEW g, CoordOK(g), NEW id \in DOMAIN g.members, NEW claimed
  PROVE  LET me == Reconciled(g, id, claimed)
         IN /\ DOMAIN me = {"epoch", "before", "given", "revoking", "topics"}
            /\ g.members[id].given \subseteq me.given \cup me.revoking
            /\ \A i \in DOMAIN g.members \ {id} : (me.given \cup me.revoking) \cap Down(g, i) = {}
<1> DEFINE me == Reconciled(g, id, claimed)
           was == g.members[id]
           target == TargetOf(g, id)
           free == target \ Taken(g, id)
           acked == [was EXCEPT !.revoking = @ \cap claimed]
<1>1. DOMAIN was = {"epoch", "before", "given", "revoking", "topics"} BY DEF CoordOK
<1>2. \A i \in DOMAIN g.members \ {id} : (was.given \cup was.revoking) \cap Down(g, i) = {}
  BY DEF CoordOK, Down
<1>3. \A i \in DOMAIN g.members \ {id} : free \cap Down(g, i) = {} BY DEF Taken, Down
<1>4. me = CASE acked.revoking # {} -> acked
             [] acked.revoking = {} /\ was.given \ target # {} ->
                  [acked EXCEPT !.given = @ \cap target, !.revoking = was.given \ target]
             [] OTHER ->
                  [acked EXCEPT !.given = was.given \cup free, !.epoch = g.epoch, !.before = was.epoch]
  BY DEF Reconciled
<1> HIDE DEF was, target, free, me
<1>5. /\ DOMAIN acked = {"epoch", "before", "given", "revoking", "topics"}
      /\ acked.given = was.given /\ acked.revoking = was.revoking \cap claimed
  BY <1>1
<1> HIDE DEF acked
<1>6. CASE acked.revoking # {}
  <2>1. me = acked BY <1>4, <1>6
  <2> QED BY <1>2, <1>5, <2>1 DEF me, was
<1>7. CASE acked.revoking = {} /\ was.given \ target # {}
  <2>1. me = [acked EXCEPT !.given = @ \cap target, !.revoking = was.given \ target] BY <1>4, <1>7
  <2>2. /\ DOMAIN me = DOMAIN acked /\ me.given = was.given \cap target
        /\ me.revoking = was.given \ target
    BY <1>5, <2>1
  <2> QED BY <1>2, <1>5, <2>2 DEF me, was
<1>8. CASE acked.revoking = {} /\ was.given \ target = {}
  <2>1. me = [acked EXCEPT !.given = was.given \cup free, !.epoch = g.epoch, !.before = was.epoch]
    BY <1>4, <1>8
  <2>2. /\ DOMAIN me = DOMAIN acked /\ me.given = was.given \cup free /\ me.revoking = {} BY <1>5, <1>8, <2>1
  <2> QED BY <1>2, <1>3, <1>5, <2>2 DEF me, was
<1> QED BY <1>6, <1>7, <1>8

(* A member the coordinator admits comes with nothing.                     *)
LEMMA JoinedOK ==
  ASSUME KipOK(coord, member, excused), NEW c \in Members, member[c].pc = "run"
  PROVE  KipOK(Joined(c), member, excused) /\ Joined(c).kind = coord.kind
<1> DEFINE id == member[c].id
           entry == [epoch |-> 0, before |-> 0, given |-> {}, revoking |-> {}, topics |-> Subscribed[c]]
           roster == [i \in Ids848 \cup {id} |-> IF i = id THEN entry ELSE coord.members[i]]
           g == Joined(c)
<1>1. CASE ~Joins(c) BY <1>1 DEF Joined
<1>2. CASE Joins(c)
  <2>1. id \notin Ids848 /\ id # NoId /\ id \in Nat /\ id < coord.next BY <1>2 DEF Joins, KipOK, IdsOK
  <2>2. g = [coord EXCEPT !.epoch = @ + 1, !.members = roster] BY <1>2 DEF Joined
  <2>3. /\ DOMAIN entry = {"epoch", "before", "given", "revoking", "topics"}
        /\ entry.given = {} /\ entry.revoking = {}
    OBVIOUS
  <2> HIDE DEF entry
  <2>4. /\ DOMAIN roster = Ids848 \cup {id} /\ roster[id] = entry
        /\ \A i \in Ids848 : roster[i] = coord.members[i]
    BY <2>1
  <2> HIDE DEF roster
  <2>5. /\ DOMAIN g = DOMAIN coord /\ g.members = roster /\ g.next = coord.next /\ g.kind = coord.kind
    BY <2>2 DEF KipOK, CoordOK
  <2> HIDE DEF g
  <2>6. CoordOK(g)
    <3>1. \A i \in DOMAIN g.members :
            i < g.next /\ DOMAIN g.members[i] = {"epoch", "before", "given", "revoking", "topics"}
      BY <2>1, <2>3, <2>4, <2>5 DEF KipOK, CoordOK, Ids848
    <3>2. \A i \in Ids848 : Down(g, i) = Down(coord, i) BY <2>4, <2>5 DEF Down
    <3>3. Down(g, id) = {} BY <2>3, <2>4, <2>5 DEF Down
    <3>4. \A i, j \in DOMAIN g.members : i # j => Down(g, i) \cap Down(g, j) = {}
      BY <2>4, <2>5, <3>2, <3>3 DEF KipOK, CoordOK, Ids848
    <3>5. DOMAIN g.members \subseteq Nat \ {NoId} /\ g.next \in Nat /\ {"kind", "epoch", "members", "next"} \subseteq DOMAIN g
      BY <2>1, <2>4, <2>5 DEF KipOK, CoordOK, Ids848
    <3> QED BY <3>1, <3>4, <3>5 DEF CoordOK
  <2>7. IdsOK(g, member) BY <2>5 DEF KipOK, IdsOK
  <2>8. ASSUME NEW d \in Members \ excused PROVE HoldsOK(g, member[d])
    <3>1. CASE d = c BY <2>1, <2>3, <2>4, <2>5, <3>1 DEF KipOK, HoldsOK, Ids848
    <3>2. CASE d # c
      <4>1. member[d].id # id BY <2>1, <3>2 DEF KipOK, IdsOK
      <4> QED BY <2>4, <2>5, <4>1 DEF KipOK, HoldsOK, Ids848, Down
    <3> QED BY <3>1, <3>2
  <2> QED BY <2>5, <2>6, <2>7, <2>8 DEF KipOK, g
<1> QED BY <1>1, <1>2

(* The heartbeat of a member the coordinator knows.                        *)
LEMMA AnsweredKip ==
  ASSUME GroupInv, KipOK(coord, member, excused), NEW c \in Members, NEW n, Become(c, n),
         member[c].pc = "run", member[c].pending = {}, excused \subseteq excused',
         member[c].id \in DOMAIN Joined(c).members,
         coord' = [Joined(c) EXCEPT !.members[member[c].id] = Me(c)],
         n.protocol = "consumer", n.id = member[c].id, n.held = member[c].held,
         c \notin excused' => n.owned = Me(c).given
  PROVE  KipOK(coord', member', excused')
<1> DEFINE id == member[c].id
           g == Joined(c)
           h == coord'
           me == Me(c)
<1>1. KipOK(g, member, excused) BY JoinedOK
<1>2. /\ DOMAIN me = {"epoch", "before", "given", "revoking", "topics"}
      /\ g.members[id].given \subseteq me.given \cup me.revoking
      /\ \A i \in DOMAIN g.members \ {id} : (me.given \cup me.revoking) \cap Down(g, i) = {}
  BY <1>1, ReconciledOK DEF Me, KipOK
<1>3. /\ member'[c] = n /\ \A d \in Members \ {c} : member'[d] = member[d] BY DEF GroupInv, Become
<1>4. {"kind", "epoch", "members", "next"} \subseteq DOMAIN g BY <1>1 DEF KipOK, CoordOK
<1>5. coord' = [g EXCEPT !.members = [g.members EXCEPT ![id] = me]] OBVIOUS
<1> HIDE DEF g, me
<1>6. /\ DOMAIN h = DOMAIN g /\ h.next = g.next
      /\ h.members = [g.members EXCEPT ![id] = me]
  BY <1>4, <1>5
<1>7. /\ DOMAIN h.members = DOMAIN g.members /\ h.members[id] = me
      /\ \A i \in DOMAIN g.members \ {id} : h.members[i] = g.members[i]
  BY <1>6 DEF g
<1> HIDE DEF h
<1>8. /\ Down(h, id) = me.given \cup me.revoking
      /\ \A i \in DOMAIN g.members \ {id} : Down(h, i) = Down(g, i)
  BY <1>7 DEF Down
<1>9. CoordOK(h)
  <2>1. \A i \in DOMAIN h.members :
          i < h.next /\ DOMAIN h.members[i] = {"epoch", "before", "given", "revoking", "topics"}
    BY <1>1, <1>2, <1>6, <1>7 DEF KipOK, CoordOK
  <2>2. \A i, j \in DOMAIN h.members : i # j => Down(h, i) \cap Down(h, j) = {}
    <3> SUFFICES ASSUME NEW i \in DOMAIN g.members, NEW j \in DOMAIN g.members, i # j
                 PROVE  Down(h, i) \cap Down(h, j) = {}
      BY <1>7
    <3>1. CASE i = id BY <1>2, <1>8, <3>1
    <3>2. CASE j = id BY <1>2, <1>8, <3>2
    <3>3. CASE i # id /\ j # id BY <1>1, <1>8, <3>3 DEF KipOK, CoordOK
    <3> QED BY <3>1, <3>2, <3>3
  <2> QED BY <1>1, <1>6, <1>7, <2>1, <2>2 DEF KipOK, CoordOK
<1>10. IdsOK(h, member')
  <2>1. \A d \in Members : member'[d].id = member[d].id /\ member'[d].protocol = "consumer"
    BY <1>1, <1>3 DEF KipOK, IdsOK
  <2>2. \A d \in Members : member'[d].id = NoId => member'[d].pc = "gone" BY <1>1, <1>3 DEF KipOK, IdsOK
  <2> QED BY <1>1, <1>6, <2>1, <2>2 DEF KipOK, IdsOK
<1>11. c \notin excused' => HoldsOK(h, n)
  <2> SUFFICES ASSUME c \notin excused'
               PROVE  HoldsOK(h, n)
    OBVIOUS
  <2>1. member[c].owned = g.members[id].given BY <1>1 DEF KipOK, HoldsOK, g
  <2>2. DOMAIN member[c].held \subseteq member[c].owned
    <3>1. /\ Announced(member[c], told[c], forgotten[c], is_cooperative) /\ member[c].protocol = "consumer"
          /\ forgotten[c] = {}
      BY <1>1, Shaped DEF KipOK, IdsOK, GroupInv
    <3> QED BY <3>1 DEF Announced
  <2>3. DOMAIN n.held \subseteq Down(h, id) BY <1>2, <1>8, <2>1, <2>2
  <2>4. id \in DOMAIN h.members /\ n.owned = h.members[id].given BY <1>7 DEF g, me
  <2> QED BY <2>3, <2>4 DEF HoldsOK
<1>12. ASSUME NEW d \in Members \ excused', d # c PROVE HoldsOK(h, member'[d])
  <2>1. HoldsOK(g, member[d]) /\ member'[d] = member[d] BY <1>1, <1>3, <1>12 DEF KipOK
  <2>2. member[d].id \in DOMAIN g.members => member[d].id # id BY <1>1, <1>12 DEF KipOK, IdsOK, CoordOK, g
  <2> QED BY <1>7, <1>8, <2>1, <2>2 DEF HoldsOK
<1>13. \A d \in Members \ excused' : HoldsOK(h, member'[d]) BY <1>3, <1>11, <1>12
<1> QED BY <1>9, <1>10, <1>13 DEF KipOK, h

LEMMA BeatKip ==
  ASSUME GroupInv, KipOK(coord, member, excused), NEW c \in Members, Beat(c)
  PROVE  KipOK(coord', member', excused')
<1> DEFINE m == member[c]
           beaten == [m EXCEPT !.rejoin = FALSE]
           fresh == [FreshMembership(beaten, coord.next) EXCEPT !.pc = "after"]
           same == [beaten EXCEPT !.epoch = Me(c).epoch, !.ack = FALSE, !.pc = "after"]
           told848 == Answered(beaten, Me(c).epoch, Me(c).given)
<1>1. m.protocol = "consumer" /\ m.pc = "run" /\ m.pending = {} /\ excused \subseteq excused'
  BY BeatEnds DEF Kip848
<1>2. DOMAIN m = MemberFields /\ MemberShape(m) /\ Progress(m) BY Shaped
<1>3. CASE Become(c, fresh) /\ coord' = [coord EXCEPT !.next = @ + 1] /\ excused' = excused \cup {c}
  <2>1. /\ fresh.protocol = "consumer" /\ fresh.id = coord.next
    <3> HIDE DEF m
    <3> QED BY <1>1, <1>2 DEF FreshMembership, MemberFields
  <2> HIDE DEF fresh
  <2>2. /\ member'[c] = fresh /\ \A d \in Members \ {c} : member'[d] = member[d] BY <1>3 DEF GroupInv, Become
  <2>3. /\ DOMAIN coord' = DOMAIN coord /\ coord'.members = coord.members /\ coord'.next = coord.next + 1
        /\ coord.next \in Nat
    BY <1>3 DEF KipOK, CoordOK
  <2>4. CoordOK(coord')
    <3>1. \A i \in DOMAIN coord.members : Down(coord', i) = Down(coord, i) BY <2>3 DEF Down
    <3>2. \A i \in DOMAIN coord.members : i < coord.next + 1
      <4>1. \A i \in DOMAIN coord.members : i < coord.next => i < coord.next + 1 BY <2>3 DEF KipOK, CoordOK
      <4> QED BY <4>1 DEF KipOK, CoordOK
    <3> QED BY <2>3, <3>1, <3>2 DEF KipOK, CoordOK
  <2>5. IdsOK(coord', member')
    <3>1. \A d \in Members \ {c} :
            /\ member'[d].protocol = "consumer" /\ member'[d].id \in Nat /\ member'[d].id < coord.next
            /\ member'[d].id = NoId => member'[d].pc = "gone"
      BY <2>2 DEF KipOK, IdsOK
    <3>2. member'[c].protocol = "consumer" /\ member'[c].id = coord.next BY <2>1, <2>2
    <3>3. coord.next > 0
      <4>1. m.id \in Nat /\ m.id < coord.next BY DEF KipOK, IdsOK
      <4> QED BY <2>3, <4>1
    <3>4. \A d, e \in Members \ {c} : d # e /\ member'[d].id = member'[e].id => member'[d].id = NoId
      BY <2>2 DEF KipOK, IdsOK
    <3>5. ASSUME NEW d \in Members
          PROVE  /\ member'[d].protocol = "consumer" /\ member'[d].id \in Nat
                 /\ member'[d].id < coord.next + 1
                 /\ member'[d].id = NoId => member'[d].pc = "gone"
      BY <2>3, <3>1, <3>2, <3>3 DEF NoId
    <3>6. ASSUME NEW d \in Members, NEW e \in Members, d # e, member'[d].id = member'[e].id
          PROVE  member'[d].id = NoId
      <4>1. d # c /\ e # c BY <2>3, <3>1, <3>2, <3>6
      <4> QED BY <3>4, <3>6, <4>1
    <3> QED BY <2>3, <3>5, <3>6 DEF IdsOK
  <2>6. ASSUME NEW d \in Members \ excused' PROVE HoldsOK(coord', member'[d])
    <3>1. d # c /\ HoldsOK(coord, member[d]) BY <1>3 DEF KipOK
    <3> QED BY <2>2, <2>3, <3>1 DEF HoldsOK, Down
  <2> QED BY <2>4, <2>5, <2>6 DEF KipOK
<1>4. CASE /\ coord' = [Joined(c) EXCEPT !.members[m.id] = Me(c)]
           /\ m.id \in DOMAIN Joined(c).members
  <2>1. CASE Become(c, told848)
    <3>1. told848.protocol = "consumer" /\ told848.id = m.id /\ told848.held = m.held
          /\ told848.owned = Me(c).given
      BY <1>1, <1>2, AnsweredOK
    <3> HIDE DEF told848
    <3> QED BY <1>1, <1>4, <2>1, <3>1, AnsweredKip
  <2>2. CASE /\ m.epoch # EPOCH_JOIN /\ Me(c).given = Joined(c).members[m.id].given
             /\ Become(c, same)
    <3>1. same.protocol = "consumer" /\ same.id = m.id /\ same.held = m.held /\ same.owned = m.owned
      <4> HIDE DEF m
      <4> QED BY <1>1, <1>2 DEF MemberFields
    <3>2. c \notin excused => m.owned = Me(c).given
      <4>1. KipOK(Joined(c), member, excused) BY <1>1, JoinedOK
      <4> QED BY <1>4, <2>2, <4>1 DEF KipOK, HoldsOK
    <3> HIDE DEF same
    <3> QED BY <1>1, <1>4, <2>2, <3>1, <3>2, AnsweredKip
  <2>3. CASE Become(c, [m EXCEPT !.pc = "out"]) /\ excused' = excused \cup {c}
    <3> DEFINE out == [m EXCEPT !.pc = "out"]
    <3>1. out.protocol = "consumer" /\ out.id = m.id /\ out.held = m.held
      <4> HIDE DEF m
      <4> QED BY <1>1, <1>2 DEF MemberFields
    <3>2. Become(c, out) BY <2>3
    <3> HIDE DEF out
    <3> QED BY <1>1, <1>4, <2>3, <3>1, <3>2, AnsweredKip
  <2> QED BY <1>3, <1>4, <2>1, <2>2, <2>3, BeatEnds
<1> QED BY <1>3, <1>4, BeatEnds

(* A member the coordinator drops, when it left or without its knowing.    *)
LEMMA WithoutKip ==
  ASSUME KipOK(coord, member, excused), NEW c \in Members, member[c].id \in Ids848
  PROVE  /\ CoordOK(Without(member[c].id)) /\ Without(member[c].id).next = coord.next
         /\ \A d \in Members \ (excused \cup {c}) : HoldsOK(Without(member[c].id), member[d])
<1> DEFINE id == member[c].id
           g == Without(id)
           roster == [i \in Ids848 \ {id} |-> coord.members[i]]
<1>1. g = [coord EXCEPT !.epoch = @ + 1, !.members = roster] BY DEF Without
<1>2. DOMAIN roster = Ids848 \ {id} /\ \A i \in Ids848 \ {id} : roster[i] = coord.members[i] OBVIOUS
<1> HIDE DEF roster
<1>3. DOMAIN g = DOMAIN coord /\ g.members = roster /\ g.next = coord.next BY <1>1 DEF KipOK, CoordOK
<1> HIDE DEF g
<1>4. \A i \in Ids848 \ {id} : Down(g, i) = Down(coord, i) BY <1>2, <1>3 DEF Down
<1>5. CoordOK(g) BY <1>2, <1>3, <1>4 DEF KipOK, CoordOK, Ids848
<1>6. ASSUME NEW d \in Members \ (excused \cup {c}) PROVE HoldsOK(g, member[d])
  <2>1. member[d].id # id BY DEF KipOK, IdsOK, CoordOK, Ids848
  <2> QED BY <1>2, <1>3, <1>4, <2>1 DEF KipOK, HoldsOK, Ids848
<1> QED BY <1>3, <1>5, <1>6 DEF g

LEMMA Expire848Kip ==
  ASSUME KipOK(coord, member, excused), NEW c \in Members, Expire848(c)
  PROVE  KipOK(coord', member', excused')
<1>1. /\ member[c].id \in Ids848 /\ coord' = Without(member[c].id) /\ excused' = excused \cup {c}
      /\ UNCHANGED member
  BY DEF Expire848
<1>2. IdsOK(coord', member) BY <1>1, WithoutKip DEF KipOK, IdsOK
<1> QED BY <1>1, <1>2, WithoutKip DEF KipOK

LEMMA Leave848Kip ==
  ASSUME GroupInv, KipOK(coord, member, excused), NEW c \in Members, Leave848(c)
  PROVE  KipOK(coord', member', excused')
<1> DEFINE m == member[c]
           n == [FreshMembership(m, NoId) EXCEPT !.pc = "gone", !.held = <<>>]
<1>1. /\ m.protocol = "consumer" /\ Become(c, n) /\ UNCHANGED excused /\ m.pc = "out"
      /\ \/ m.id \in Ids848 /\ coord' = Without(m.id)
         \/ coord' = coord
  BY DEF Leave848, Kip848
<1>2. DOMAIN m = MemberFields BY Shaped
<1>3. n.protocol = "consumer" /\ n.id = NoId /\ n.pc = "gone" /\ n.owned = {} /\ n.held = <<>>
  <2> HIDE DEF m
  <2> QED BY <1>1, <1>2 DEF FreshMembership, MemberFields
<1>4. DOMAIN n.held = {} BY <1>3
<1> HIDE DEF n
<1>5. /\ member'[c] = n /\ \A d \in Members \ {c} : member'[d] = member[d] BY <1>1 DEF GroupInv, Become
<1>6. /\ CoordOK(coord') /\ coord'.next = coord.next
      /\ \A d \in Members \ (excused \cup {c}) : HoldsOK(coord', member[d])
  BY <1>1, WithoutKip DEF KipOK
<1>7. IdsOK(coord', member')
  <2>1. coord.next \in Nat /\ 0 < coord.next
    <3>1. m.id \in Nat /\ m.id < coord.next /\ coord.next \in Nat BY DEF KipOK, IdsOK, CoordOK
    <3> QED BY <3>1
  <2>2. \A d \in Members :
          /\ member'[d].protocol = "consumer" /\ member'[d].id \in Nat /\ member'[d].id < coord.next
          /\ member'[d].id = NoId => member'[d].pc = "gone"
    BY <1>3, <1>5, <2>1 DEF KipOK, IdsOK, NoId
  <2>3. \A d, e \in Members : d # e /\ member'[d].id = member'[e].id => member'[d].id = NoId
    BY <1>3, <1>5 DEF KipOK, IdsOK
  <2> QED BY <1>6, <2>2, <2>3 DEF IdsOK
<1>8. HoldsOK(coord', n) BY <1>3, <1>4, <1>6 DEF HoldsOK, CoordOK
<1> QED BY <1>1, <1>5, <1>6, <1>7, <1>8 DEF KipOK

(* The kind of a group is what it was.                                     *)
LEMMA SameKind ==
  ASSUME GroupInv, [NegotiatedNext]_groupVars
  PROVE  coord'.kind = coord.kind
<1>0. "kind" \in DOMAIN coord BY DEF GroupInv
<1>1. ASSUME NEW c \in Members, PollStep(c) PROVE coord'.kind = coord.kind
  <2>1. CASE JoinGroup(c) BY <1>0, <2>1 DEF JoinGroup
  <2>2. CASE SyncGroup(c)
    <3>1. \/ coord' = coord
          \/ \E plan : coord' = [coord EXCEPT !.state = "stable", !.plan = plan]
      BY <2>2 DEF SyncGroup
    <3> QED BY <1>0, <3>1
  <2>3. CASE Beat(c)
    <3>1. CASE coord' = [coord EXCEPT !.next = @ + 1] BY <1>0, <3>1
    <3>2. CASE coord' = [Joined(c) EXCEPT !.members[member[c].id] = Me(c)]
      <4>1. "kind" \in DOMAIN Joined(c) /\ Joined(c).kind = coord.kind BY <1>0 DEF Joined
      <4> QED BY <3>2, <4>1
    <3> QED BY <2>3, <3>1, <3>2, BeatEnds
  <2> QED BY <1>1, <2>1, <2>2, <2>3 DEF PollStep, ClassicStep, ConsumerStep, PollBegins, PollBegins848,
            ReadRecords, Downgrade, SettleClassic, MoveClassic, HeartbeatClassic, Settle, GoRead
<1>2. ASSUME NEW c \in Members, ClassicFault(c) PROVE coord'.kind = coord.kind
  BY <1>0, <1>2 DEF ClassicFault, SettleCut, MoveFails, WaitCut, LeaveClassic, EvictClassic
<1>3. ASSUME NEW c \in Members, ConsumerFault(c) PROVE coord'.kind = coord.kind
  BY <1>0, <1>3 DEF ConsumerFault, SettleFails, Leave848, Expire848, Without
<1>4. ASSUME NEW c \in Members, SkipBeat(c) \/ GroupCommit(c) \/ ReadCut(c) \/ DowngradeFails(c)
      PROVE  coord'.kind = coord.kind
  BY <1>4 DEF SkipBeat, GroupCommit, ReadCut, DowngradeFails
<1>5. CASE CompleteJoin BY <1>0, <1>5 DEF CompleteJoin
<1> QED BY <1>1, <1>2, <1>3, <1>4, <1>5 DEF NegotiatedNext, groupVars

(* The steps that leave the coordinator alone.                             *)
LEMMA QuietKip ==
  ASSUME GroupInv, KipOK(coord, member, excused), coord.kind = "consumer", NEW c \in Members,
         \/ ReadRecords(c) \/ ReadCut(c) \/ PollBegins848(c) \/ SkipBeat(c) \/ GoRead(c) \/ Settle(c) \/ SettleFails(c)
  PROVE  KipOK(coord', member', excused')
<1> DEFINE m == member[c]
<1>1. DOMAIN m = MemberFields /\ m.protocol = "consumer" BY Shaped DEF KipOK, IdsOK
<1>2. PICK n : /\ Become(c, n) /\ n.protocol = "consumer" /\ n.id = m.id /\ n.owned = m.owned
               /\ DOMAIN n.held \subseteq Held(c) \cup m.owned
  <2>1. ASSUME NEW parts, Become(c, Advanced(c, parts))
        PROVE  \E n : /\ Become(c, n) /\ n.protocol = "consumer" /\ n.id = m.id /\ n.owned = m.owned
                      /\ DOMAIN n.held \subseteq Held(c) \cup m.owned
    <3> DEFINE held == [p \in Held(c) |-> m.held[p] + (IF p \in parts THEN 1 ELSE 0)]
               n == [m EXCEPT !.pc = "out", !.held = held]
    <3>1. Become(c, n) /\ DOMAIN held = Held(c) BY <2>1 DEF Advanced
    <3> HIDE DEF held
    <3>2. n.protocol = "consumer" /\ n.id = m.id /\ n.owned = m.owned /\ n.held = held
      <4> HIDE DEF m
      <4> QED BY <1>1 DEF MemberFields
    <3> HIDE DEF n
    <3> QED BY <3>1, <3>2
  <2>2. ASSUME NEW pc, Become(c, [m EXCEPT !.pc = pc])
        PROVE  \E n : /\ Become(c, n) /\ n.protocol = "consumer" /\ n.id = m.id /\ n.owned = m.owned
                      /\ DOMAIN n.held \subseteq Held(c) \cup m.owned
    <3> DEFINE n == [m EXCEPT !.pc = pc]
    <3>1. n.protocol = "consumer" /\ n.id = m.id /\ n.owned = m.owned /\ n.held = m.held
      <4> HIDE DEF m
      <4> QED BY <1>1 DEF MemberFields
    <3>2. Become(c, n) BY <2>2
    <3> HIDE DEF n
    <3> QED BY <3>1, <3>2 DEF Held
  <2>3. CASE PollBegins848(c)
    <3> DEFINE n == [m EXCEPT !.pc = "run", !.ever = @ \/ has_joined(m)]
    <3>1. n.protocol = "consumer" /\ n.id = m.id /\ n.owned = m.owned /\ n.held = m.held
      <4> HIDE DEF m
      <4> QED BY <1>1 DEF MemberFields
    <3>2. Become(c, n) BY <2>3 DEF PollBegins848
    <3> HIDE DEF n
    <3> QED BY <3>1, <3>2 DEF Held
  <2>4. ASSUME NEW held, DOMAIN held \subseteq Held(c) \cup m.owned, NEW pc,
               \/ Become(c, [m EXCEPT !.pending = {}, !.pc = pc, !.held = held])
               \/ Become(c, [m EXCEPT !.pc = pc, !.held = held])
        PROVE  \E n : /\ Become(c, n) /\ n.protocol = "consumer" /\ n.id = m.id /\ n.owned = m.owned
                      /\ DOMAIN n.held \subseteq Held(c) \cup m.owned
    <3> DEFINE n == [m EXCEPT !.pending = {}, !.pc = pc, !.held = held]
               k == [m EXCEPT !.pc = pc, !.held = held]
    <3>1. /\ n.protocol = "consumer" /\ n.id = m.id /\ n.owned = m.owned /\ n.held = held
          /\ k.protocol = "consumer" /\ k.id = m.id /\ k.owned = m.owned /\ k.held = held
      <4> HIDE DEF m
      <4> QED BY <1>1 DEF MemberFields
    <3>2. Become(c, n) \/ Become(c, k) BY <2>4
    <3> HIDE DEF n, k
    <3> QED BY <2>4, <3>1, <3>2
  <2>5. CASE Settle(c)
    <3> DEFINE held == [p \in m.owned |-> IF p \in Held(c) THEN m.held[p]
                                          ELSE IF groupOffsets'[p] = Unset THEN 0 ELSE groupOffsets'[p]]
    <3>1. Become(c, [m EXCEPT !.pending = {}, !.pc = AfterSettle(m), !.held = held]) BY <2>5 DEF Settle
    <3>2. DOMAIN held = m.owned OBVIOUS
    <3> HIDE DEF held, m
    <3> QED BY <3>1, <3>2, <2>4
  <2>6. CASE SettleFails(c)
    <3> DEFINE held == [p \in Held(c) \cap m.owned |-> m.held[p]]
    <3>1. \/ Become(c, [m EXCEPT !.pc = "out"])
          \/ Become(c, [m EXCEPT !.pc = "out", !.held = held])
      BY <2>6 DEF SettleFails
    <3>2. DOMAIN held = Held(c) \cap m.owned OBVIOUS
    <3> HIDE DEF held, m
    <3> QED BY <3>1, <3>2, <2>2, <2>4
  <2>7. CASE ReadRecords(c) \/ ReadCut(c) BY <2>1, <2>7 DEF ReadRecords, ReadCut
  <2>8. CASE SkipBeat(c) \/ GoRead(c) BY <2>2, <2>8 DEF SkipBeat, GoRead
  <2> QED BY <2>3, <2>5, <2>6, <2>7, <2>8
<1>3. UNCHANGED coord /\ UNCHANGED excused /\ m.pc # "gone"
  BY DEF ReadRecords, ReadCut, PollBegins848, SkipBeat, GoRead, Settle, SettleFails, memberHistory
<1> QED BY <1>2, <1>3, KipQuiet

LEMMA KipInvInit == NegotiatedInit => KipInv
<1> SUFFICES ASSUME NegotiatedInit, coord.kind = "consumer"
             PROVE  KipOK(coord, member, excused)
  BY DEF KipInv
<1>1. ~ \E protocol \in Assignor : coord = [NoGroup(protocol) EXCEPT !.next = Cardinality(Members) + 1]
  BY DEF NoGroup
<1>2. /\ coord = [NoConsumerGroup EXCEPT !.next = Cardinality(Members) + 1]
      /\ member = [c \in Members |-> Subscribe(choice(TRUE), c)]
  BY <1>1 DEF NegotiatedInit
<1>3. /\ {"kind", "epoch", "members", "next"} \subseteq DOMAIN coord
      /\ coord.members = <<>> /\ coord.next = Cardinality(Members) + 1
  BY <1>2 DEF NoConsumerGroup
<1>4. DOMAIN coord.members = {} BY <1>3
<1>5. Cardinality(Members) \in Nat /\ Members = 1..Cardinality(Members) BY GroupAssumption, FS_CardinalityType
<1>6. CoordOK(coord) BY <1>3, <1>4, <1>5 DEF CoordOK
<1>7. ASSUME NEW c \in Members
      PROVE  member[c].protocol = "consumer" /\ member[c].id = c /\ member[c].owned = {}
             /\ member[c].held = <<>>
  <2> DEFINE new == NewMember("consumer")
  <2>1. DOMAIN new = MemberFields /\ new.protocol = "consumer" /\ new.held = <<>>
    BY DEF NewMember, MemberFields
  <2>2. member[c] = FreshMembership(new, c) BY <1>2 DEF Subscribe, choice
  <2> HIDE DEF new
  <2> QED BY <2>1, <2>2 DEF FreshMembership, MemberFields
<1>8. IdsOK(coord, member) BY <1>3, <1>5, <1>7 DEF IdsOK, NoId
<1>9. \A c \in Members : HoldsOK(coord, member[c])
  <2>1. DOMAIN << >> = {} OBVIOUS
  <2> QED BY <1>4, <1>7, <2>1 DEF HoldsOK
<1> QED BY <1>6, <1>8, <1>9 DEF KipOK

LEMMA KipInvStep == GroupInv /\ KipInv /\ [NegotiatedNext]_groupVars => KipInv'
<1> SUFFICES ASSUME GroupInv, KipInv, [NegotiatedNext]_groupVars, coord'.kind = "consumer"
             PROVE  KipOK(coord', member', excused')
  BY KipAfter
<1>1. coord.kind = "consumer" /\ KipOK(coord, member, excused) BY SameKind DEF KipInv
<1>2. \A c \in Members : ~Classic(c) /\ ~Refused(c) BY <1>1 DEF KipOK, IdsOK, Classic, Refused
<1>3. ASSUME NEW c \in Members, PollStep(c) PROVE KipOK(coord', member', excused')
  <2>1. ~ClassicStep(c) /\ ~Downgrade(c)
    BY <1>2 DEF ClassicStep, Downgrade, SettleClassic, MoveClassic, HeartbeatClassic, JoinGroup,
                SyncGroup, Driving
  <2> QED BY <1>1, <1>2, <1>3, <2>1, QuietKip, BeatKip DEF PollStep, ConsumerStep
<1>4. ASSUME NEW c \in Members, ClassicFault(c) \/ DowngradeFails(c) PROVE KipOK(coord', member', excused')
  BY <1>2, <1>4 DEF ClassicFault, SettleCut, MoveFails, WaitCut, LeaveClassic, EvictClassic, DowngradeFails
<1>5. ASSUME NEW c \in Members, ConsumerFault(c) \/ SkipBeat(c) \/ ReadCut(c) PROVE KipOK(coord', member', excused')
  BY <1>1, <1>5, QuietKip, Leave848Kip, Expire848Kip DEF ConsumerFault
<1>8. ASSUME NEW c \in Members, GroupCommit(c) PROVE KipOK(coord', member', excused')
  BY <1>1, <1>8 DEF GroupCommit, memberHistory
<1>6. ~CompleteJoin BY <1>1 DEF CompleteJoin
<1>7. CASE UNCHANGED groupVars BY <1>1, <1>7 DEF groupVars, memberHistory
<1> QED BY <1>3, <1>4, <1>5, <1>6, <1>7, <1>8 DEF NegotiatedNext

(* In a KIP-848 group no partition has two owners.                         *)
(* Whatever the order of heartbeats, settles, lost answers, expired        *)
(* sessions and departures, two members the coordinator considers current  *)
(* never hold the same partition (GroupConsumer, Membership::reconcile):   *)
(* what moves is given up before it is given.                              *)
THEOREM KipHasOneOwner == NegotiatedSpecification => []KipOneOwner
<1>1. KipInv => KipOneOwner
  <2> SUFFICES ASSUME KipOK(coord, member, excused), coord.kind = "consumer",
                      NEW c \in Members \ excused, NEW d \in Members \ excused,
                      c # d, Owns(c), Owns(d)
               PROVE  Held(c) \cap Held(d) = {}
    BY DEF KipInv, KipOneOwner, OneOwner
  <2>1. \A e \in {c, d} : member[e].id \in Ids848 BY DEF Owns, Reads, Member848, Classic, KipOK, IdsOK
  <2>2. Held(c) \subseteq Down(coord, member[c].id) /\ Held(d) \subseteq Down(coord, member[d].id)
    BY <2>1 DEF KipOK, HoldsOK, Held, Ids848
  <2>3. member[c].id # member[d].id BY <2>1 DEF KipOK, IdsOK, CoordOK, Ids848
  <2> QED BY <2>1, <2>2, <2>3 DEF KipOK, CoordOK, Ids848
<1> QED BY <1>1, GroupInvInit, GroupInvStep, KipInvInit, KipInvStep, PTL DEF NegotiatedSpecification
=============================================================================

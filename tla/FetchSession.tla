---------------------------- MODULE FetchSession ----------------------------
(***************************************************************************)
(* Incremental fetch sessions (KIP-227): what kafka-consume/src/session.rs *)
(* keeps for one broker, and, external, what the broker keeps for us.      *)
(***************************************************************************)
EXTENDS Integers, FiniteSets

CONSTANT EpochMax   \* the largest session epoch, i32::MAX

ASSUME SessionAssumption == EpochMax \in Nat \ {0, 1}

NO_SESSION == 0
INITIAL_EPOCH == 0

(* FetchSession.  `forgotten` is drained by every call of next and so is     *)
(* never carried over. *)
FreshSession == [id |-> NO_SESSION, epoch |-> INITIAL_EPOCH, known |-> <<>>]

next_NeverForget(session, wanted) ==
  [session |-> [session EXCEPT !.known = wanted],
   delta |-> [id |-> session.id,
              epoch |-> IF session.id = NO_SESSION THEN INITIAL_EPOCH ELSE session.epoch,
              include |-> wanted, forget |-> {}]]

next_ByName(session, wanted) ==
  LET news == { p \in DOMAIN wanted : session.id = NO_SESSION \/ p \notin DOMAIN session.known }
  IN [session |-> [session EXCEPT !.known = wanted],
      delta |-> [id |-> session.id,
                 epoch |-> IF session.id = NO_SESSION THEN INITIAL_EPOCH ELSE session.epoch,
                 include |-> [p \in news |-> wanted[p]],
                 forget |-> DOMAIN session.known \ DOMAIN wanted]]

(* What the next request carries; `wanted` maps partitions to offsets.       *)
next(session, wanted) ==
  LET full == session.id = NO_SESSION
      told(p) == p \in DOMAIN session.known /\ session.known[p] = wanted[p]
      news == { p \in DOMAIN wanted : full \/ ~told(p) }
  IN [session |-> [session EXCEPT !.known = wanted],
      delta |-> [id |-> session.id, epoch |-> IF full THEN INITIAL_EPOCH ELSE session.epoch,
                 include |-> [p \in news |-> wanted[p]],
                 forget |-> DOMAIN session.known \ DOMAIN wanted]]

(* The next epoch is one past the one the broker answered for; saturating.   *)
accept(session, id, responded) ==
  [session EXCEPT !.id = id, !.epoch = IF responded = EpochMax THEN EpochMax ELSE responded + 1]

reset == FreshSession

-----------------------------------------------------------------------------
(* The broker's cache: one session, its last epoch and its partitions. *)

NoCache == [id |-> NO_SESSION, epoch |-> INITIAL_EPOCH, parts |-> <<>>]

(* The epoch a broker expects next: it wraps to 1. *)
Expects(cache) == IF cache.epoch = EpochMax THEN 1 ELSE cache.epoch + 1
Refuses(cache, delta) ==
  delta.id # NO_SESSION /\ (delta.id # cache.id \/ delta.epoch # Expects(cache))

(* A session id that neither side holds. *)
NewId(session, cache) == CHOOSE i \in 1..3 : i \notin {session.id, cache.id}

(* The cache after a request it does not refuse; a full request opens a      *)
(* session, under the id `grant` (NO_SESSION when there is no room).         *)
Cached(cache, delta, grant) ==
  LET kept == DOMAIN cache.parts \ delta.forget
      merged == [p \in kept \cup DOMAIN delta.include |->
                   IF p \in DOMAIN delta.include THEN delta.include[p] ELSE cache.parts[p]]
  IN IF delta.id # NO_SESSION
       THEN [cache EXCEPT !.epoch = delta.epoch, !.parts = merged]
     ELSE IF grant = NO_SESSION THEN cache
     ELSE [id |-> grant, epoch |-> INITIAL_EPOCH, parts |-> delta.include]

(* The partitions a request is answered for. *)
Asked(cache, delta) ==
  IF delta.id = NO_SESSION THEN delta.include
  ELSE Cached(cache, delta, NO_SESSION).parts
=============================================================================

---------------------------- MODULE TokenSource ----------------------------
(***************************************************************************)
(* The source of OAUTHBEARER tokens (oidc.rs), shared by the connections   *)
(* of a cluster: one cached token, replaced ahead of its expiry by one     *)
(* fetch at a time, and presented past that point only while a fetch       *)
(* fails.  The issuer counts a token's life from when it makes it, the     *)
(* client from when the answer arrives.                                    *)
(***************************************************************************)
EXTENDS Integers, FiniteSets

CONSTANTS Claims,            \* the lifetimes the endpoint may state; 0 is none, or one that cannot be read
          ASSUMED_LIFETIME, MAX_LIFETIME, refresh_margin,
          FetchTimeout       \* OidcConfig::timeout

ASSUME TokenAssumption == /\ Claims \subseteq Nat
                          /\ {ASSUMED_LIFETIME, MAX_LIFETIME} \subseteq Nat \ {0}
                          /\ {refresh_margin, FetchTimeout} \subseteq Nat

VARIABLES now,       \* the time
          cached,    \* the token held, NoToken if none
          fetch      \* the fetch under way, which holds the lock: by whom, since when, its answer

tvars == <<cached, fetch>>

NoToken == [minted |-> -1, life |-> 0, refresh_after |-> 0, expires_at |-> 0]
NoFetch == [by |-> 0, since |-> 0, answer |-> NoToken, stuck |-> FALSE]

Smaller(x, y) == IF x < y THEN x ELSE y
Larger(x, y) == IF x < y THEN y ELSE x

parse_token_response(claim) == IF claim = 0 THEN ASSUMED_LIFETIME ELSE Smaller(claim, MAX_LIFETIME)

\* 80% of the life, no closer to its end than the margin, but half of it at least.
usable_lifetime(lifetime) ==
  Larger(Smaller((lifetime * 8) \div 10, Larger(lifetime - refresh_margin, 0)), lifetime \div 2)

-----------------------------------------------------------------------------
(* current_token, for the caller c.                                        *)

IsFresh == cached # NoToken /\ now < cached.refresh_after

\* The lock is free: the cached token, or a fetch.
UseCached == fetch.by = 0 /\ IsFresh /\ UNCHANGED tvars
StartFetch(c) == /\ fetch.by = 0 /\ ~IsFresh
                 /\ fetch' = [NoFetch EXCEPT !.by = c, !.since = now]
                 /\ UNCHANGED cached
\* The fetch has its answer.
Fetched(c) ==
  /\ fetch.by = c /\ fetch.answer # NoToken
  /\ LET lifetime == parse_token_response(fetch.answer.life)
     IN cached' = [fetch.answer EXCEPT !.refresh_after = now + usable_lifetime(lifetime),
                                       !.expires_at = now + lifetime]
  /\ fetch' = NoFetch
\* The fetch fails, whatever the reason: the cached token if it still lives.
StillGood == cached # NoToken /\ now < cached.expires_at
FetchFails(c) == fetch.by = c /\ fetch.stuck /\ fetch' = NoFetch /\ UNCHANGED cached
\* The caller gives up and drops the future: the lock is free, the cache as it was.
Abandon(c) == /\ fetch' = IF fetch.by = c THEN NoFetch ELSE fetch
              /\ UNCHANGED cached

\* The endpoint makes a token.
Mint(claim) == /\ fetch.by # 0 /\ fetch.answer = NoToken /\ ~fetch.stuck
               /\ fetch' = [fetch EXCEPT !.answer = [NoToken EXCEPT !.minted = now, !.life = claim]]
               /\ UNCHANGED cached
\* It refuses, is not there, or does not finish: the timeout covers the answer's
\* headers and not its body, so the fetch may fail or hang.
Stuck == /\ fetch.by # 0 /\ fetch.answer = NoToken /\ ~fetch.stuck
         /\ fetch' = [fetch EXCEPT !.stuck = TRUE]
         /\ UNCHANGED cached
\* When the issuer takes a token for expired: one of no stated life lives as assumed.
Expiry(token) == token.minted + (IF token.life = 0 THEN ASSUMED_LIFETIME ELSE token.life)
=============================================================================

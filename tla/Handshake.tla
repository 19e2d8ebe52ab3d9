----------------------------- MODULE Handshake -----------------------------
(***************************************************************************)
(* Connecting to a broker and staying authenticated (conn.rs, tls.rs,      *)
(* versions.rs, codec.rs, sasl.rs, scram.rs, oauth.rs): TLS, ApiVersions,  *)
(* the SASL exchange, and on a connection that is up the same exchange     *)
(* again, before the broker's session ends (KIP-368).  The connections of  *)
(* one configuration talk to brokers of one kind and share the token       *)
(* source.  Time is counted in units in which an answer takes at most      *)
(* Latency; messages are what the checks on them tell apart.               *)
(***************************************************************************)
EXTENDS TokenSource

CONSTANTS Conns,          \* the connections, numbers from 1
          Worlds,         \* the configurations, each with a broker: see below
          Timeout,        \* connect_timeout and request_timeout
          Latency,        \* the time an answer takes, unless it is lost
          ReauthFloor,    \* a second, the least re-authentication delay
          MaxFaults,      \* lost answers, closed sockets, failed fetches
          MaxTime,        \* the time a run looks at
          OnMax           \* the largest version of ApiVersions this build encodes

ASSUME HandshakeAssumption == /\ Conns \subseteq Nat \ {0}
                              /\ {Timeout, Latency, ReauthFloor, MaxFaults, MaxTime, OnMax} \subseteq Nat

VARIABLES
  conf,     \* tls, cert (a client certificate), sasl, clear (allow_plaintext_password), ext
            \* (extensions), names (a key whose request and response differ in versions)
  peer,     \* the broker: tls, issuer of its certificate, mtls (what it does with ours), serves (the
            \* versions of each key), enabled mechanisms, knows (the password), takes (our
            \* credential or token: "yes", "no", "scope"), lifetime of a session
  conn,     \* the connections
  faults

hvars == <<now, cached, fetch, conf, peer, conn, faults>>

Down == [stage |-> "down", due |-> 0, sent |-> 0, lost |-> FALSE, re |-> FALSE, table |-> <<>>,
         token |-> NoToken, until |-> 0, wake |-> 0, error |-> "none", started |-> 0,
         version |-> -1, key |-> "none", hurt |-> FALSE, refused |-> FALSE, blip |-> FALSE,
         exposed |-> FALSE, extended |-> FALSE]

\* The stages that wait for an answer of the broker, of its TCP and TLS first.
AwaitsReply == {"open", "versions", "versions0", "handshake", "plain", "first", "final", "bearer", "dummy", "call"}
Busy(c) == conn[c].stage \in AwaitsReply \cup {"token"}
IsOpen(c) == conn[c].stage \notin {"down", "failed"}

-----------------------------------------------------------------------------
(* Versions.  A range is the set of its versions.                          *)

Keys == {"ApiVersions", "SaslHandshake", "SaslAuthenticate", "OffsetFetch", "AddPartitionsToTxn"}
\* Of the configurations and brokers: a session's life is a number; a key the
\* broker does not serve has no versions; every broker that answers ApiVersions
\* serves its version 0, to which negotiate_versions goes back; and SaslHandshake
\* 1, which moved the exchange into SaslAuthenticate, comes with one (KIP-152).
ASSUME WorldsAssumption ==
  \A w \in Worlds : /\ w.peer.lifetime \in Nat
                    /\ DOMAIN w.peer.serves = Keys
                    /\ 0 \in w.peer.serves["ApiVersions"]
                    /\ 1 \in w.peer.serves["SaslHandshake"] =>
                         w.peer.serves["SaslAuthenticate"] \cap 0..2 # {}
                    /\ w.conf.names \in {"none", "OffsetFetch", "AddPartitionsToTxn"}

RequestVersions == [k \in Keys |-> CASE k = "ApiVersions" -> 0..OnMax [] k = "SaslHandshake" -> 0..1
                                     [] k = "SaslAuthenticate" -> 0..2 [] k = "OffsetFetch" -> 1..9
                                     [] k = "AddPartitionsToTxn" -> 0..5]
ResponseVersions == [k \in Keys |-> IF k = "OffsetFetch" THEN 1..10 ELSE RequestVersions[k]]
\* CLIENT_MAX_VERSION, where there is one.
ClientMax(k) == IF k = "AddPartitionsToTxn" THEN 3 ELSE 99
typed_range(k) == {v \in RequestVersions[k] \cap ResponseVersions[k] : v <= ClientMax(k)}

\* The largest common version, -1 if there is none.
negotiate_with(table, k, ours) ==
  LET overlap == (IF k \in DOMAIN table THEN table[k] ELSE {}) \cap ours
  IN IF overlap = {} THEN -1 ELSE CHOOSE v \in overlap : \A w \in overlap : w <= v
version_for(c, k) == negotiate_with(conn[c].table, k, typed_range(k))

-----------------------------------------------------------------------------
(* Steps of a connection.                                                  *)

Set(c, new) == conn' = [conn EXCEPT ![c] = new]
\* A request goes out, with a deadline of its own.
Sends(r, stage, key, version) ==
  [r EXCEPT !.stage = stage, !.key = key, !.version = version, !.due = now + Timeout,
            !.sent = now, !.lost = FALSE]
\* Nothing is under way any more.
AtRest(r) == [r EXCEPT !.due = 0, !.sent = 0, !.lost = FALSE, !.token = NoToken, !.started = 0,
                       !.version = -1, !.key = "none", !.blip = FALSE]
\* connect returns the error, or the re-authentication closes the connection.
Fails(r, error) ==
  [AtRest(r) EXCEPT !.stage = "failed", !.error = error, !.wake = 0, !.until = 0, !.table = <<>>]

sends_reusable_credential == conf.sasl \in {"PLAIN", "OAUTHBEARER"}
check_encryption(encrypted) == sends_reusable_credential /\ ~encrypted => conf.clear

\* Whom the trust anchors vouch for.
root_store == CASE conf.tls = "system" -> {"public"} [] conf.tls = "pem" -> {"private"}
                [] OTHER -> {"public", "private"}
encrypted == conf.tls # "none"

\* The socket is dialled, under connect_timeout with the TLS handshake.
Open(c) ==
  /\ conn[c].stage = "down"
  /\ Set(c, Sends([conn[c] EXCEPT !.started = now], "open", "none", -1))
  /\ UNCHANGED <<now, cached, fetch, conf, peer, faults>>
\* The handshake is through: check_encryption, and the first ApiVersions request
\* at our maximum.  A peer that does not speak TLS, or whose certificate is not
\* vouched for, fails it.
Opened(c) ==
  IF encrypted /\ (~peer.tls \/ peer.issuer \notin root_store) THEN Fails(conn[c], "Transport")
  ELSE IF ~check_encryption(encrypted) THEN Fails(conn[c], "Authentication")
  ELSE Sends(conn[c], "versions", "ApiVersions", OnMax)

\* Under TLS 1.3 the broker's alert is what the first read finds.  The alerts
\* about our certificate are listed; any other is the transport's.
handshake_error ==
  CASE encrypted /\ (peer.mtls = "rejects" \/ (peer.mtls = "wants" /\ ~conf.cert)) -> "Authentication"
    [] encrypted /\ peer.mtls = "other alert" -> "Transport"
    [] OTHER -> "none"

\* The SASL exchange starts, at connect and again.  PLAIN has no room for extensions.
authenticate(r) ==
  LET version == negotiate_with(r.table, "SaslHandshake", typed_range("SaslHandshake"))
  IN IF conf.sasl = "PLAIN" /\ conf.ext THEN Fails(r, "InvalidRequest")
     ELSE IF version < 1 THEN Fails(r, "Unsupported")
     ELSE Sends(r, "handshake", "SaslHandshake", version)
\* The table is in: authenticate, or the connection is up.
WithTable(r, table) ==
  LET s == [r EXCEPT !.table = table]
  IN IF conf.sasl = "none" THEN [AtRest(s) EXCEPT !.stage = "up"] ELSE authenticate(s)

\* The answer to ApiVersions.  A broker that does not serve the version names
\* only that key in its answer; the request again at version 0 gets them all.
negotiate_versions(c) ==
  LET r == conn[c]
  IN IF handshake_error = "Authentication" THEN [Fails(r, "Authentication") EXCEPT !.refused = TRUE]
     ELSE IF handshake_error = "Transport" \/ peer.tls # encrypted THEN Fails(r, "Transport")
     ELSE IF r.version \notin peer.serves["ApiVersions"] THEN Sends(r, "versions0", "ApiVersions", 0)
     ELSE WithTable(r, peer.serves)

\* The exchange is over: the session lasts from the broker's clock, and the
\* re-authentication is due at 80% of it on ours.
reauth_delay_Late(lifetime) == Larger(lifetime, ReauthFloor)
reauth_delay(lifetime) == Larger((lifetime * 8) \div 10, ReauthFloor)
Authenticated(r, lifetime) ==
  [AtRest(r) EXCEPT !.stage = "up", !.re = TRUE,
            !.until = IF lifetime = 0 THEN 0 ELSE r.sent + lifetime,
            !.wake = IF lifetime = 0 THEN 0 ELSE now + reauth_delay(lifetime)]
\* The first message of each mechanism: what it puts on the wire, and the
\* extensions, for which PLAIN has no field.
Presents(r, stage, version) ==
  [Sends(r, stage, "SaslAuthenticate", version) EXCEPT
     !.exposed = @ \/ (sends_reusable_credential /\ ~encrypted), !.extended = conf.ext /\ conf.sasl # "PLAIN"]

-----------------------------------------------------------------------------
(* The answers, by the stage that waits for them.                          *)

\* SaslHandshake: the mechanisms the broker enables; an empty list is no answer.
Offered(c) ==
  LET r == conn[c]
      version == version_for(c, "SaslAuthenticate")
  IN IF peer.enabled # {} /\ conf.sasl \notin peer.enabled
     THEN [Fails(r, "Authentication") EXCEPT !.refused = TRUE]
     ELSE IF conf.sasl = "OAUTHBEARER" THEN [r EXCEPT !.stage = "token", !.due = now + Timeout, !.sent = now]
     ELSE IF version < 0 THEN Fails(r, "Unsupported")
     ELSE Presents(r, IF conf.sasl = "PLAIN" THEN "plain" ELSE "first", version)

\* PLAIN, and the refusal of any mechanism, is one answer (auth_outcome).
auth_outcome(c) == IF peer.takes = "yes" THEN Authenticated(conn[c], peer.lifetime)
                   ELSE [Fails(conn[c], "Authentication") EXCEPT !.refused = TRUE]

\* SCRAM: server-first, whose nonce must extend ours and whose iterations are
\* bounded on both sides; then server-final, whose signature proves that the
\* peer knows the password.
client_final(c, first) ==
  IF first.extends /\ first.iterations = "bounded"
  THEN Sends(conn[c], "final", "SaslAuthenticate", conn[c].version)
  ELSE Fails(conn[c], "Authentication")
verify_server_final_Skipped(c) == auth_outcome(c)
verify_server_final(c) == IF peer.knows THEN auth_outcome(c) ELSE Fails(conn[c], "Authentication")

\* OAUTHBEARER: a token the issuer still takes for good, or a challenge, which
\* one more message answers before the broker will say that it refuses.
TokenTaken(c) == peer.takes = "yes" /\ conn[c].sent < Expiry(conn[c].token)
SessionOf(c) == LET left == Expiry(conn[c].token) - conn[c].sent
                IN IF peer.lifetime = 0 THEN 0 ELSE Smaller(peer.lifetime, left)
Bearer_NoDummy(c) == IF TokenTaken(c) THEN Authenticated(conn[c], SessionOf(c))
                     ELSE [conn[c] EXCEPT !.refused = TRUE, !.lost = TRUE]
Bearer(c) == IF TokenTaken(c) THEN Authenticated(conn[c], SessionOf(c))
             ELSE [Sends(conn[c], "dummy", "SaslAuthenticate", conn[c].version) EXCEPT !.refused = TRUE]
is_insufficient_scope == peer.takes = "scope"
Rejection(c) == Fails(conn[c], IF is_insufficient_scope THEN "Authorization" ELSE "Authentication")

\* A request of the connection that is up.
Called(c) == [AtRest(conn[c]) EXCEPT !.stage = "up"]

Answered(c) ==
  /\ conn[c].stage \in AwaitsReply /\ ~conn[c].lost /\ now < conn[c].due
  /\ \/ conn[c].stage = "open"      /\ Set(c, Opened(c))
     \/ conn[c].stage = "versions"  /\ Set(c, negotiate_versions(c))
     \/ conn[c].stage = "versions0" /\ Set(c, WithTable(conn[c], peer.serves))
     \/ conn[c].stage = "handshake" /\ Set(c, Offered(c))
     \/ conn[c].stage = "plain"     /\ Set(c, auth_outcome(c))
     \/ /\ conn[c].stage = "first"
        /\ \E first \in [extends : {TRUE, peer.knows}, iterations : {"bounded", IF peer.knows THEN "bounded" ELSE "high"}] :
             Set(c, client_final(c, first))
     \/ conn[c].stage = "final"     /\ Set(c, verify_server_final(c))
     \/ conn[c].stage = "bearer"    /\ Set(c, Bearer(c))
     \/ conn[c].stage = "dummy"     /\ Set(c, Rejection(c))
     \/ conn[c].stage = "call"      /\ Set(c, Called(c))
  /\ UNCHANGED <<now, cached, fetch, conf, peer, faults>>

\* An answer is lost, and the deadline ends the wait; or the socket closes.
Lost(c) == /\ conn[c].stage \in AwaitsReply /\ ~conn[c].lost /\ faults < MaxFaults
           /\ faults' = faults + 1
           /\ Set(c, [conn[c] EXCEPT !.lost = TRUE, !.hurt = TRUE])
           /\ UNCHANGED <<now, cached, fetch, conf, peer>>
Closed(c) == /\ conn[c].stage \in AwaitsReply \ {"call"} /\ faults < MaxFaults
             /\ faults' = faults + 1
             /\ Set(c, [Fails(conn[c], "Closed") EXCEPT !.hurt = TRUE])
             /\ UNCHANGED <<now, cached, fetch, conf, peer>>
with_deadline(c) == /\ conn[c].stage \in AwaitsReply /\ conn[c].lost /\ now >= conn[c].due
                    /\ Set(c, IF conn[c].stage = "call" THEN Called(c) ELSE Fails(conn[c], "Timeout"))
                    /\ UNCHANGED <<now, cached, fetch, conf, peer, faults>>

-----------------------------------------------------------------------------
(* The token step of an exchange.                                          *)

\* The provider returned a token: it goes out in the initial response.
initial_client_response(c, token, blip) ==
  LET version == version_for(c, "SaslAuthenticate")
  IN IF version < 0 THEN Fails(conn[c], "Unsupported")
     ELSE [Presents(conn[c], "bearer", version) EXCEPT !.token = token, !.blip = blip]
Token(c) ==
  /\ conn[c].stage = "token" /\ now < conn[c].due
  /\ \/ UseCached /\ Set(c, initial_client_response(c, cached, FALSE)) /\ UNCHANGED faults
     \/ StartFetch(c) /\ UNCHANGED <<conn, faults>>
     \/ Fetched(c) /\ Set(c, initial_client_response(c, cached', FALSE)) /\ UNCHANGED faults
     \/ /\ FetchFails(c) /\ UNCHANGED faults
        /\ Set(c, IF StillGood THEN initial_client_response(c, cached, TRUE)
                  ELSE [Fails(conn[c], "TokenEndpoint") EXCEPT !.hurt = TRUE])
  /\ UNCHANGED <<now, conf, peer>>
\* The step's timeout, over the lock and the fetch.
TokenTimeout(c) ==
  /\ conn[c].stage = "token" /\ now >= conn[c].due
  /\ Abandon(c) /\ Set(c, [Fails(conn[c], "Timeout") EXCEPT !.hurt = TRUE])
  /\ UNCHANGED <<now, conf, peer, faults>>
Endpoint == /\ \/ (\E claim \in Claims : Mint(claim)) /\ UNCHANGED faults
               \/ Stuck /\ faults < MaxFaults /\ faults' = faults + 1
            /\ UNCHANGED <<now, conf, peer, conn>>

-----------------------------------------------------------------------------
(* A connection that is up.                                                *)

Call(c) == /\ conn[c].stage = "up" /\ (conn[c].wake = 0 \/ now < conn[c].wake) /\ conf.names # "none"
           /\ LET version == version_for(c, conf.names)
              IN version >= 0 /\ Set(c, Sends(conn[c], "call", conf.names, version))
           /\ UNCHANGED <<now, cached, fetch, conf, peer, faults>>
\* spawn_reauth: the timer, once no call holds the gate; the exchange again.
Reauth(c) == /\ conn[c].stage = "up" /\ conn[c].wake > 0 /\ now >= conn[c].wake
             /\ Set(c, authenticate(conn[c]))
             /\ UNCHANGED <<now, cached, fetch, conf, peer, faults>>
\* The broker closes a connection whose session is over.
SessionEnds(c) == /\ conn[c].until > 0 /\ now >= conn[c].until /\ IsOpen(c)
                  /\ Abandon(c)
                  /\ Set(c, Fails(conn[c], "Expired"))
                  /\ UNCHANGED <<now, conf, peer, faults>>

\* Time passes up to what is due: an answer, a deadline, a timer.  It passes by
\* single units while an exchange is under way and otherwise to the next moment
\* at which a step could come out differently.
Moments == {conn[c].wake : c \in {d \in Conns : conn[d].stage = "up"}}
           \cup {conn[c].until : c \in {d \in Conns : IsOpen(d)}}
           \cup (IF \E c \in Conns : conn[c].stage = "down"
                 THEN {cached.refresh_after - 1, cached.refresh_after, cached.expires_at} ELSE {})
TimePasses ==
  \E t \in (IF \E c \in Conns : Busy(c) THEN {now + 1} ELSE Moments) :
    /\ now < t /\ t <= MaxTime
    /\ \A c \in Conns :
         /\ conn[c].stage \in AwaitsReply /\ ~conn[c].lost => t <= conn[c].sent + Latency
         /\ Busy(c) => t <= conn[c].due
         /\ conn[c].stage = "up" /\ conn[c].wake > 0 => t <= conn[c].wake
         /\ conn[c].until > 0 /\ IsOpen(c) => t <= conn[c].until
         /\ conn[c].stage = "token" => fetch.by # 0
    /\ fetch.by # 0 /\ ~fetch.stuck => t <= fetch.since + FetchTimeout
    /\ now' = t
    /\ UNCHANGED <<cached, fetch, conf, peer, conn, faults>>

HandshakeInit ==
  /\ \E w \in Worlds : conf = w.conf /\ peer = w.peer
  /\ conn = [c \in Conns |-> Down] /\ now = 0 /\ cached = NoToken /\ fetch = NoFetch /\ faults = 0
HandshakeNext ==
  \/ TimePasses \/ Endpoint
  \/ \E c \in Conns : \/ Open(c) \/ Answered(c) \/ Lost(c) \/ Closed(c) \/ with_deadline(c) \/ Token(c)
                      \/ TokenTimeout(c) \/ Call(c) \/ Reauth(c) \/ SessionEnds(c)
HandshakeSpecification == HandshakeInit /\ [][HandshakeNext]_hvars

-----------------------------------------------------------------------------
(* Properties.                                                             *)

Up(c) == conn[c].stage \in {"up", "call"}

\* A credential goes where it may: never in the clear unless that was allowed,
\* in no exchange, the first or a later one; a connection that is up under SCRAM
\* has a peer that knows the password; and extensions, which choose the
\* principal, are never left out (check_encryption, verify_server_final,
\* authenticate).
CredentialsGuarded ==
  \A c \in Conns : /\ conn[c].exposed => conf.clear
                   /\ Up(c) /\ conf.sasl = "SCRAM" => peer.knows
                   /\ Up(c) /\ conf.sasl # "none" /\ conf.ext => conn[c].extended
                   /\ Up(c) /\ encrypted => peer.issuer \in root_store

\* The error tells the owner of the problem: a broker that refused who we are,
\* by an alert about our certificate, the mechanism, the password or the token, is
\* an authentication or authorization error and not a network one; and what the
\* network did is never blamed on the credential; and a broker with an older
\* ApiVersions is not taken for one that lacks the other keys.
ErrorsTell ==
  \A c \in Conns : conn[c].stage = "failed" =>
    /\ conn[c].refused /\ ~conn[c].hurt => conn[c].error \in {"Authentication", "Authorization", "Expired"}
    /\ conn[c].error = "Authorization" => peer.takes = "scope"
    /\ conn[c].error \in {"Authentication", "Authorization"} =>
         conn[c].refused \/ ~peer.knows \/ (sends_reusable_credential /\ ~encrypted /\ ~conf.clear)
    /\ conn[c].error = "Unsupported" => 1 \notin peer.serves["SaslHandshake"]

\* Re-authentication is early enough: the broker ends no session while the
\* answers come in time and none was lost, though the session may be bounded by
\* the life of a token that is cached and shared (reauth_delay, usable_lifetime).
\* A session shorter than the floor's second is the exception the code makes.
SessionKept ==
  \A c \in Conns : conn[c].error = "Expired" =>
    faults > 0 \/ conn[c].refused \/ peer.lifetime \in 1..ReauthFloor

\* What SessionKept asks of the lives: that 20% of a session is more than its
\* renewal takes, the answer that began it and a call in the way included, and
\* that a token in use has that much left of its life.
Roomy(lifetime) == \A delay \in {(lifetime * 8) \div 10, ReauthFloor} : lifetime - delay > 4 * Latency + Timeout
RoomForRenewal ==
  /\ ReauthFloor > 0
  /\ \A w \in Worlds : w.peer.lifetime \in 0..ReauthFloor \/ Roomy(w.peer.lifetime)
  /\ \A claim \in Claims :
       LET lifetime == parse_token_response(claim)
       IN /\ usable_lifetime(lifetime) > 0
          /\ Roomy(lifetime - usable_lifetime(lifetime) - FetchTimeout)

\* A token that is handed out is alive at the issuer, though the client counts
\* its life from later, as long as its answer took no longer than the part of
\* the life that is left unused; and one handed out because a fetch failed has
\* not outlived what its answer said (current_token).
TokenFresh ==
  \A c \in Conns : conn[c].stage = "bearer" /\ conn[c].sent = now =>
    LET t == conn[c].token
        slow == t.expires_at - Expiry(t)
    IN IF conn[c].blip THEN now < t.expires_at
       ELSE slow <= t.expires_at - t.refresh_after => now < Expiry(t)

\* A connect ends: whatever the peer or the token source does, it takes no
\* longer than a timeout for each of its steps, the dial and the TLS handshake
\* the first of them (connect_as, with_deadline, step_timeout).
EndsInTime ==
  \A c \in Conns : ~conn[c].re /\ conn[c].stage \in (AwaitsReply \ {"call"}) \cup {"token"} =>
    now <= conn[c].started + 7 * Timeout

\* Every request goes out at a version the broker serves, this build encodes and
\* a client may send, and its answer can be decoded (typed_range, negotiate_with).
VersionsAgree ==
  \A c \in Conns : conn[c].stage \in AwaitsReply \ {"open", "versions"} =>
    conn[c].version \in peer.serves[conn[c].key]
                          \cap RequestVersions[conn[c].key] \cap ResponseVersions[conn[c].key]
                        \cap 0..ClientMax(conn[c].key)

\* A session outlives its renewal, and the token it is renewed with is alive.
SessionSound == SessionKept /\ TokenFresh

\* What a connect comes to: an end in time, an error that tells whose the
\* problem is, and requests in versions both sides know.
ConnectSound == EndsInTime /\ ErrorsTell /\ VersionsAgree
=============================================================================

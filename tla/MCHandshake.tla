---------------------------- MODULE MCHandshake ----------------------------
(* Instances of Handshake for TLC: the configurations and brokers of one    *)
(* behaviour, in families that vary one concern each.                       *)
EXTENDS Handshake

All == [ApiVersions |-> 0..OnMax, SaslHandshake |-> 0..1, SaslAuthenticate |-> 0..2,
        OffsetFetch |-> 1..10, AddPartitionsToTxn |-> 0..5]
Old == [All EXCEPT !.ApiVersions = 0..(OnMax - 1), !.OffsetFetch = 0..8]
NoV1 == [All EXCEPT !.SaslHandshake = {0}]
APeer == [tls |-> TRUE, issuer |-> "public", mtls |-> "none", serves |-> All,
          enabled |-> {"PLAIN", "SCRAM", "OAUTHBEARER"}, knows |-> TRUE, takes |-> "yes", lifetime |-> 0]
AConf == [tls |-> "system", cert |-> FALSE, sasl |-> "none", clear |-> FALSE, ext |-> FALSE, names |-> "none"]
World(C, P) == {[conf |-> c, peer |-> p] : c \in C, p \in P}

\* Encryption: who is vouched for, our certificate, a credential in the clear.
Encryption == World({[AConf EXCEPT !.tls = t, !.cert = k, !.sasl = s, !.clear = o] :
                        t \in {"none", "system", "pem", "both"}, k \in BOOLEAN, s \in {"none", "PLAIN", "SCRAM"},
                        o \in BOOLEAN},
                    {[APeer EXCEPT !.tls = t, !.issuer = i, !.mtls = x] :
                        t \in BOOLEAN, i \in {"public", "private"}, x \in {"none", "wants", "rejects", "other alert"}})
\* Versions: an older broker, one without SaslHandshake 1, and calls.
Versions == World({[AConf EXCEPT !.sasl = s, !.names = n] :
                      s \in {"none", "PLAIN"}, n \in {"none", "OffsetFetch", "AddPartitionsToTxn"}},
                  {[APeer EXCEPT !.serves = v] : v \in {All, Old, NoV1}})
\* Passwords: mechanisms, extensions, a wrong one, a peer that does not know it, sessions.
Passwords == World({[AConf EXCEPT !.sasl = s, !.ext = x, !.names = n] :
                       s \in {"PLAIN", "SCRAM"}, x \in BOOLEAN, n \in {"none", "OffsetFetch"}},
                   {[APeer EXCEPT !.enabled = e, !.knows = k, !.takes = y, !.lifetime = l] :
                       e \in {{"PLAIN", "SCRAM"}, {"OAUTHBEARER"}, {}}, k \in BOOLEAN, y \in {"yes", "no"},
                       l \in {0, 2, 40}})
\* Tokens: one the broker takes, refuses, or finds too narrow; sessions bounded by it or not.
Tokens == World({[AConf EXCEPT !.sasl = "OAUTHBEARER", !.ext = TRUE]},
                {[APeer EXCEPT !.lifetime = l] : l \in {0, 100, 900}}
                \cup {[APeer EXCEPT !.takes = y] : y \in {"no", "scope"}})

PasswordWorlds == Encryption \cup Versions \cup Passwords
AllWorlds == PasswordWorlds \cup Tokens
ASSUME RoomForRenewal
\* Several connections matter where they share the token source, and so does a
\* time in which tokens expire; elsewhere a session or two is enough.
Init == HandshakeInit
Alone == conf.sasl = "OAUTHBEARER" \/ \A c \in Conns : c > 1 => conn[c].stage = "down"
Horizon == now <= IF conf.sasl = "OAUTHBEARER" THEN MaxTime ELSE 60
Next == HandshakeNext /\ Alone' /\ Horizon'
Spec == Init /\ [][Next]_hvars
=============================================================================

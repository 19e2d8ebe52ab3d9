----------------------------- MODULE Principal -----------------------------
(***************************************************************************)
(* What the admin client infers about one principal: describe_principal    *)
(* reads four stores of the cluster, one request each (principal.rs),      *)
(* describe_authentication reads how the listeners authenticate from the   *)
(* configuration of one broker, and likely_mechanism crosses the two       *)
(* (authentication.rs).  `person` is what the cluster holds and how the    *)
(* principal really logs in, which the client cannot read.                 *)
(***************************************************************************)
EXTENDS FiniteSets

CONSTANTS
  Listeners,  \* the listeners of the broker asked
  Worlds      \* what a cluster may be configured with, and who is asked about

\* SCRAM at each of its hashes; and the ways in that are no SASL mechanism's
\* name (AuthMechanism).
ScramMechanisms == {"SCRAM-SHA-256", "SCRAM-SHA-512"}
OtherWays == {"mTLS", "token"}

\* A cluster keeps SCRAM credentials of users only, tokens if it has a key for
\* them, and ACLs if it has an authorizer.
ASSUME PrincipalAssumption ==
  \A w \in Worlds :
    /\ w.person.scram \subseteq ScramMechanisms
    /\ w.person.scram # {} => w.person.type = "User"
    /\ w.person.token => w.config.token_key
    /\ w.person.acl => w.config.authorizer
    /\ \A l \in Listeners : (w.config.sasl[l] \cup w.config.sasl_default) \cap OtherWays = {}

VARIABLES
  config,    \* the broker's configuration, the part about listeners
  person,    \* the principal, what the cluster stores for it, how it logs in
  heard      \* the answers so far, and the step of the call

pvars == <<config, person, heard>>

Sources == {"scram", "tokens", "acls", "quotas"}
Unheard == [s \in Sources |-> "unasked"]

-----------------------------------------------------------------------------
(* How the listeners authenticate.                                         *)

uses_sasl(protocol) == protocol \in {"SASL_PLAINTEXT", "SASL_SSL"}
uses_tls(protocol) == protocol \in {"SSL", "SASL_SSL"}

\* The listener whose name the configuration gives, or else those of the
\* protocol it gives, PLAINTEXT by default.
is_inter_broker(l) == IF config.inter_name # "unset" THEN l = config.inter_name
                      ELSE config.protocol[l] = config.inter_protocol
is_controller(l) == l \in config.controllers
\* A listener's own setting goes before the broker's, and the broker's default is Kerberos.
sasl_mechanisms(l) ==
  IF ~uses_sasl(config.protocol[l]) THEN {}
  ELSE IF config.sasl[l] # {} THEN config.sasl[l]
  ELSE IF config.sasl_default # {} THEN config.sasl_default
  ELSE {"GSSAPI"}
accepts_certificates(l) == uses_tls(config.protocol[l]) /\ config.client_auth[l]
mechanisms(l) == sasl_mechanisms(l) \cup (IF accepts_certificates(l) THEN {"mTLS"} ELSE {})

client_listeners == {l \in Listeners : ~is_inter_broker(l) /\ ~is_controller(l)}
client_mechanisms == UNION {mechanisms(l) : l \in client_listeners}
maps_certificates_to_subjects == config.default_rules

-----------------------------------------------------------------------------
(* The four sources: "some" and "none" are answers, the others are errors. *)

\* SCRAM credentials belong to users only, and RESOURCE_NOT_FOUND or no
\* mention of the user is the answer that there is none (scram_for).
principal_scram == IF person.type # "User" THEN {"none"}
                   ELSE {"denied", IF person.scram # {} THEN "some" ELSE "none"}
principal_tokens == IF config.token_key THEN {"denied", IF person.token THEN "some" ELSE "none"}
                    ELSE {"TokenAuthDisabled"}
principal_acls == IF config.authorizer THEN {"denied", IF person.acl THEN "some" ELSE "none"}
                  ELSE {"SecurityDisabled"}
principal_quotas == {"denied", IF person.quota THEN "some" ELSE "none"}

describe_principal ==
  LET ask(s, after, answers) ==
        /\ heard[s] = "unasked" /\ \A t \in after : heard[t] # "unasked"
        /\ \E a \in answers : heard' = [heard EXCEPT ![s] = a]
  IN /\ \/ ask("scram", {}, principal_scram)
        \/ ask("tokens", {"scram"}, principal_tokens)
        \/ ask("acls", {"tokens"}, principal_acls)
        \/ ask("quotas", {"acls"}, principal_quotas)
     /\ UNCHANGED <<config, person>>

reports_nothing(a) == a \in {"none", "SecurityDisabled", "TokenAuthDisabled"}
is_unrecorded == \A s \in Sources : reports_nothing(heard[s])

-----------------------------------------------------------------------------
(* The verdict.                                                            *)

store_answered_Always(a) == TRUE
store_answered(a) == a \in {"some", "none", "TokenAuthDisabled"}
Verdict(candidates, basis) == [candidates |-> candidates, basis |-> basis]

likely_mechanism ==
  LET offered == client_mechanisms
      stored == (IF heard["scram"] = "some" THEN person.scram \cap offered ELSE {})
           \cup (IF heard["tokens"] = "some" /\ offered \cap ScramMechanisms # {} THEN {"token"} ELSE {})
      struck == ScramMechanisms \cup {"token"}
           \cup (IF ~person.dn /\ maps_certificates_to_subjects THEN {"mTLS"} ELSE {})
  IN IF offered = {} THEN Verdict({}, "Unknown")
     ELSE IF stored # {} THEN Verdict(stored, "StoredCredential")
     ELSE IF "mTLS" \in offered /\ person.dn THEN Verdict({"mTLS"}, "CertificateSubject")
     ELSE IF ~store_answered(heard["scram"]) \/ ~store_answered(heard["tokens"]) THEN Verdict({}, "Unknown")
     ELSE Verdict(offered \ struck, "Elimination")

-----------------------------------------------------------------------------
\* A principal logs in by a mechanism its listener takes: over SCRAM with a
\* stored credential of that hash, or with a token over any, with a certificate
\* whose subject is its name unless rules map it to another, or by a store the
\* cluster does not hold.
CanLogIn(m) ==
  CASE m \in ScramMechanisms -> m \in person.scram \cap client_mechanisms
    [] m = "token" -> person.token /\ ScramMechanisms \cap client_mechanisms # {}
    [] m = "mTLS"  -> m \in client_mechanisms /\ (person.dn \/ ~config.default_rules)
    [] OTHER       -> m \in client_mechanisms

PrincipalInit == heard = Unheard /\ \E w \in Worlds : config = w.config /\ person = w.person
PrincipalNext == describe_principal
PrincipalSpecification == PrincipalInit /\ [][PrincipalNext]_pvars

\* The inference is sound where it eliminates: every way the principal has into
\* a client listener is among the candidates, although a store may refuse to
\* answer; a stored credential it names is there and enabled; and a principal
\* called unrecorded is in none of the stores.
VerdictSound ==
  (\A s \in Sources : heard[s] # "unasked") =>
    /\ likely_mechanism.basis = "Elimination" =>
         \A m \in client_mechanisms \cup {"token"} :
           CanLogIn(m) => m \in likely_mechanism.candidates
    /\ likely_mechanism.basis = "StoredCredential" =>
         \A m \in likely_mechanism.candidates : CanLogIn(m)
    /\ is_unrecorded => ~(person.scram # {} \/ person.token \/ person.acl \/ person.quota)
=============================================================================

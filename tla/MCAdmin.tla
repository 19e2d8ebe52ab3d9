------------------------------ MODULE MCAdmin ------------------------------
(* Instances of Admin and of Principal for TLC: a behaviour is one call of  *)
(* the admin client, an operation on items or the description of a          *)
(* principal.                                                               *)
EXTENDS Admin, Principal

Configs ==
  { c \in [protocol : [Listeners -> {"PLAINTEXT", "SSL", "SASL_SSL"}],
            inter_name : {"unset", "a"}, inter_protocol : {"PLAINTEXT"},
            controllers : {{}, {"b"}}, sasl : [Listeners -> {{}, {"PLAIN", "SCRAM-SHA-256"}}],
            sasl_default : {{}, {"OAUTHBEARER", "SCRAM-SHA-512"}}, client_auth : [Listeners -> BOOLEAN],
            default_rules : BOOLEAN, token_key : BOOLEAN, authorizer : BOOLEAN] :
      c.sasl["a"] = {} /\ c.authorizer = c.token_key /\ ~c.client_auth["b"] }
Persons ==
  { p \in [type : {"User", "Group"}, dn : BOOLEAN,
            scram : {{}, {"SCRAM-SHA-256"}, {"SCRAM-SHA-512"}}, token : BOOLEAN,
            acl : BOOLEAN, quota : BOOLEAN] :
      (p.scram # {} => p.type = "User") /\ p.acl = p.quota }
PrincipalWorlds ==
  { w \in [config : Configs, person : Persons] :
      /\ w.person.token => w.config.token_key
      /\ w.person.acl => w.config.authorizer
      /\ w.person.dn => w.config.default_rules }

SomeConfig == [protocol |-> [l \in Listeners |-> "PLAINTEXT"], inter_name |-> "unset",
               inter_protocol |-> "PLAINTEXT", controllers |-> {}, sasl |-> [l \in Listeners |-> {}],
               sasl_default |-> {}, client_auth |-> [l \in Listeners |-> FALSE],
               default_rules |-> TRUE, token_key |-> FALSE, authorizer |-> FALSE]
SomePerson == [type |-> "User", dn |-> FALSE, scram |-> {}, token |-> FALSE, acl |-> FALSE,
               quota |-> FALSE]
NoGroup == [kind |-> "classic", members |-> FALSE, holds |-> {}, late |-> FALSE, written |-> {}]
NoItems == /\ store = {} /\ group = NoGroup
           /\ log = [start |-> 1, end |-> 1] /\ dirs = [leader |-> 0, at |-> <<>>] /\ stale = {} /\ scope = {}
           /\ call = [NoCall EXCEPT !.state = "none"] /\ faults = 0 /\ others = 0
NoPrincipal == config = SomeConfig /\ person = SomePerson /\ heard = [s \in Sources |-> "none"]

\* Only reset_offsets looks at the group, and it does not look at the store;
\* only topic_size looks at the replicas.
OneKindOfCall == /\ store # {} => group = NoGroup
                 /\ store # {} \/ group # NoGroup => \A b \in Brokers : dirs.at[b] # {}
Init == (AdminInit /\ OneKindOfCall /\ NoPrincipal) \/ (NoItems /\ PrincipalInit)
Next == (AdminNext /\ UNCHANGED pvars) \/ (PrincipalNext /\ UNCHANGED vars)
Spec == Init /\ [][Next]_<<vars, pvars>>
=============================================================================

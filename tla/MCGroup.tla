------------------------------ MODULE MCGroup ------------------------------
(* Instances of NegotiatedConsumer for TLC. *)
EXTENDS NegotiatedConsumer

\* Two topics of a partition each: one both subscribe to, and one the second
\* alone does.
TwoTopics == <<1, 1>>
OneShared == <<{1}, {1, 2}>>
=============================================================================

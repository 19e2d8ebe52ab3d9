----------------------------- MODULE MCConsumer -----------------------------
(* Instances of Consumer for TLC. *)
EXTENDS Consumer

Txn(base, last, tx, aborted) ==
  [Plain(base, last, base..last) EXCEPT !.pid = 7, !.tx = tx, !.aborted = aborted]
Marker(base, tx, aborted) ==
  [Plain(base, base, {base}) EXCEPT !.control = TRUE, !.pid = 7, !.tx = tx, !.aborted = aborted]

\* A damaged batch, an aborted transaction around two records, and an open one.
Mixed == <<[Plain(0, 0, {0}) EXCEPT !.health = "corrupt"], Txn(1, 1, 1, TRUE),
           Plain(2, 3, {2, 3}), Marker(4, 1, TRUE), Txn(5, 5, 2, FALSE)>>
Single == <<Plain(0, 0, {0})>>

TwoPartitions == {1, 2}
TwoBrokers == {1, 2}
SomeLeaders == { <<1, 1>>, <<1, 2>> }
OneCommitted == { <<3, None>> }
SomeLogs == { <<Mixed, Single>> }
=============================================================================

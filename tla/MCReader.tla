------------------------------ MODULE MCReader ------------------------------
(* Instances of Scan and Tail for TLC: two partitions over logs that hold, between    *)
(* them, every shape of batch a reader may meet.                             *)
EXTENDS Tail

Txn(base, last, pid, tx, aborted) ==
  [Plain(base, last, base..last) EXCEPT !.pid = pid, !.tx = tx, !.aborted = aborted]
Marker(base, pid, tx, aborted) ==
  [Plain(base, base, {base}) EXCEPT !.control = TRUE, !.pid = pid, !.tx = tx,
                                    !.aborted = aborted]
Damaged(base, last, health) == [Plain(base, last, base..last) EXCEPT !.health = health]

Simple == <<Plain(0, 1, {0, 1}), Plain(2, 2, {2})>>
HeadGone == <<Plain(0, 2, {1, 2}), Plain(3, 3, {3})>>
TailGone == <<Plain(0, 2, {0}), Plain(3, 3, {3})>>
Corrupt == <<Damaged(0, 2, "corrupt"), Plain(3, 3, {3})>>
NoHeader == <<Plain(0, 0, {0}), Damaged(1, 2, "header"), Plain(3, 3, {3})>>
Vacant == <<Plain(0, 1, {}), Plain(2, 2, {2})>>
TwoTxns == <<Txn(0, 0, 7, 1, FALSE), Marker(1, 7, 1, FALSE), Txn(2, 3, 7, 2, TRUE),
             Marker(4, 7, 2, TRUE), Plain(5, 5, {5})>>
OpenTxn == <<Plain(0, 0, {0}), Txn(1, 1, 7, 1, FALSE)>>

Shapes == {Simple, HeadGone, TailGone, Corrupt, NoHeader, Vacant, TwoTxns, OpenTxn, <<>>}
AnyAndPlain == [p \in {0, 1} |-> IF p = 0 THEN Shapes ELSE {Simple, TwoTxns}]
TwoPartitions == {0, 1}
Interleaved == [p \in {0, 1} |-> [o \in 0..7 |-> 2 * o + p]]
OneRecord == {{0}}

At(kind, at) == [kind |-> kind, at |-> at]
Browse == [from |-> At(Earliest, 0), visibility |-> "All", limit |-> 0, follow |-> FALSE,
           ceiling |-> 2, leader |-> [p \in {0, 1} |-> 1]]
Committed == [Browse EXCEPT !.visibility = "CommittedOnly"]
SomeScans ==
  { Browse, Committed,
    [Committed EXCEPT !.from = At("Timestamp", 3), !.leader = [p \in {0, 1} |-> p]],
    [Browse EXCEPT !.from = At("Offset", 1), !.limit = 2, !.leader = [p \in {0, 1} |-> p]],
    [Browse EXCEPT !.from = At(Latest, 0), !.follow = TRUE],
    [Committed EXCEPT !.follow = TRUE, !.ceiling = 1] }

LastTwo == [anchor |-> At("LogEnd", 0), limit |-> 2, visibility |-> "All",
            initial_step |-> 0, max_step |-> 16]
SomeTails ==
  { LastTwo, [LastTwo EXCEPT !.limit = 3, !.initial_step = 1, !.visibility = "CommittedOnly"],
    [LastTwo EXCEPT !.anchor = At("Offset", 2), !.initial_step = 2],
    [LastTwo EXCEPT !.anchor = At("Timestamp", 5), !.limit = 5, !.initial_step = 1] }
=============================================================================

----------------------------- MODULE MCProducer -----------------------------
(* Instances of Producer for TLC: one topic of two partitions, three records *)
(* of which the first and the last go to the same partition.                 *)
EXTENDS Producer

Topic == {<<"t", 0>>, <<"t", 1>>}
SharedIndex == {<<"t", 0>>, <<"u", 0>>}

TwoAndOne == <<<<"t", 0>>, <<"t", 1>>, <<"t", 0>>>>
SameTwo == <<<<"t", 0>>, <<"t", 0>>>>
OneEach == <<<<"t", 0>>, <<"u", 0>>>>

OnePartition == {<<"t", 0>>}
MixedSizes == <<1, 3, 2>>
TwoUnits == <<1, 1>>
=============================================================================

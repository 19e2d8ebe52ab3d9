----------------------------- MODULE Assignors -----------------------------
(***************************************************************************)
(* The assignors of kafka-consume/src/classic.rs, which the leader of a    *)
(* classic group runs.  A partition is a pair of a topic and an index, and *)
(* topics and member ids are numbers, so that both have an order.  A       *)
(* member is a record of its id, its topics, the partitions it says it     *)
(* holds (owned) and the generation in which it held them.                 *)
(***************************************************************************)
EXTENDS Integers, Sequences, FiniteSets, SequencesExt

subscribes_to(member, topic) == topic \in member.topics

Ids(members) == { m.id : m \in members }
MemberOf(members, id) == CHOOSE m \in members : m.id = id
SortedIds(ids) == SetToSortSeq(ids, LAMBDA x, y : x < y)
SortedKeys(keys) ==
  SetToSortSeq(keys, LAMBDA x, y : x[1] < y[1] \/ (x[1] = y[1] /\ x[2] < y[2]))

(* The partitions of the topics; `sizes` maps a topic to their number. *)
AllOf(sizes) == UNION { { <<t, i>> : i \in 0..(sizes[t] - 1) } : t \in DOMAIN sizes }

(* The first count % members members take one more. *)
Extra(index, count, members) == index < (count % members)

assign_range(members, sizes) ==
  LET sorted(t) == SortedIds({ m.id : m \in { n \in members : subscribes_to(n, t) } })
      take(i, t) == sizes[t] \div Len(sorted(t))
                    + (IF Extra(i, sizes[t], Len(sorted(t))) THEN 1 ELSE 0)
      from(i, t) == FoldLeft(LAMBDA sum, j : sum + take(j - 1, t), 0, [j \in 1..i |-> j])
      ranges(id, t) ==
        UNION { { <<t, p>> : p \in from(i - 1, t)..(from(i - 1, t) + take(i - 1, t) - 1) } :
                  i \in { j \in DOMAIN sorted(t) : sorted(t)[j] = id } }
  IN [id \in Ids(members) |-> UNION { ranges(id, t) : t \in DOMAIN sizes }]

(* Every partition in order, each to the next member that wants its topic.   *)
assign_round_robin(members, sizes) ==
  LET sorted == SortedIds(Ids(members))
      n == Len(sorted)
      at(cursor) == sorted[(cursor % n) + 1]
      wants(cursor, key) == subscribes_to(MemberOf(members, at(cursor)), key[1])
      deal(acc, key) ==
        LET hits == { k \in 0..(n - 1) : wants(acc.cursor + k, key) }
            k == CHOOSE h \in hits : \A g \in hits : h <= g
        IN IF hits = {} THEN [acc EXCEPT !.cursor = @ + n]
           ELSE [cursor |-> acc.cursor + k + 1,
                 out |-> [acc.out EXCEPT ![at(acc.cursor + k)] = @ \cup {key}]]
      start == [cursor |-> 0, out |-> [id \in Ids(members) |-> {}]]
  IN FoldLeft(deal, start, SortedKeys(AllOf(sizes))).out

-----------------------------------------------------------------------------
(* cooperative-sticky *)

(* Who holds a partition now: of two claims the newer generation's, of two   *)
(* of one generation the first member's.                                     *)
Claims(members, key) == { m \in members : key \in m.owned /\ subscribes_to(m, key[1]) }
Owner(members, key) ==
  CHOOSE m \in Claims(members, key) :
    \A n \in Claims(members, key) :
      m.generation > n.generation \/ (m.generation = n.generation /\ m.id <= n.id)

(* The subscribed member that holds the fewest; ties by id. *)
emptiest(members, held, topic) ==
  LET takers == { m.id : m \in { n \in members : subscribes_to(n, topic) } }
  IN CHOOSE id \in takers : \A other \in takers :
       \/ Cardinality(held[id]) < Cardinality(held[other])
       \/ Cardinality(held[id]) = Cardinality(held[other]) /\ id <= other

Nothing == <<>>

(* One partition worth moving: the fullest member against the emptiest; the  *)
(* search ends at the first pair two apart, also when nothing can move.      *)
imbalance(members, held) ==
  LET ids == DOMAIN held
      bySize == SetToSortSeq(ids, LAMBDA x, y :
                  \/ Cardinality(held[x]) > Cardinality(held[y])
                  \/ Cardinality(held[x]) = Cardinality(held[y]) /\ x < y)
      n == Len(bySize)
      apart == { x \in (1..n) \X (1..n) :
                   Cardinality(held[bySize[x[1]]]) > Cardinality(held[bySize[x[2]]]) + 1 }
      first == CHOOSE x \in apart : \A y \in apart : x[1] < y[1] \/ (x[1] = y[1] /\ x[2] >= y[2])
      from == bySize[first[1]]
      to == bySize[first[2]]
      movable == { key \in held[from] : subscribes_to(MemberOf(members, to), key[1]) }
  IN IF apart = {} \/ movable = {} THEN Nothing
     ELSE <<from, to, Head(SortedKeys(movable))>>

balance(members, held) ==
  LET total == FoldLeft(LAMBDA n, id : n + Cardinality(held[id]), 0, SortedIds(DOMAIN held))
      move(h, round) ==
        LET found == imbalance(members, h)
        IN IF found = Nothing THEN h
           ELSE [h EXCEPT ![found[1]] = @ \ {found[3]}, ![found[2]] = @ \cup {found[3]}]
  IN FoldLeft(move, held, [i \in 1..(2 * total) |-> i])

Withheld_None(members, id, key) == TRUE

(* What moves is assigned to nobody in the round its holder gives it up.     *)
Withheld(members, id, key) == Claims(members, key) = {} \/ Owner(members, key).id = id

assign_cooperative_sticky(members, sizes) ==
  LET all == { key \in AllOf(sizes) : \E m \in members : subscribes_to(m, key[1]) }
      free == { key \in all : Claims(members, key) = {} }
      kept == [id \in Ids(members) |->
                 { key \in all \ free : Owner(members, key).id = id }]
      give(h, key) == LET id == emptiest(members, h, key[1]) IN [h EXCEPT ![id] = @ \cup {key}]
      target == balance(members, FoldLeft(give, kept, SortedKeys(free)))
  IN [id \in Ids(members) |-> { key \in target[id] : Withheld(members, id, key) }]

assign_all(protocol, members, sizes) ==
  CASE protocol = "roundrobin" -> assign_round_robin(members, sizes)
    [] protocol = "cooperative-sticky" -> assign_cooperative_sticky(members, sizes)
    [] OTHER -> assign_range(members, sizes)
=============================================================================

---------------------------- MODULE ReaderProofs ----------------------------
(***************************************************************************)
(* Proofs about the forward scan and the backward read, for every set of   *)
(* partitions, every log a broker can hold and every change of it, every   *)
(* call and every size of an answer: what a scan yields is what its window *)
(* holds, in order; what a tail returns are the newest records.            *)
(***************************************************************************)
EXTENDS Tail, DecodeProofs

(* A partition: what TLC's instances are instances of.                     *)
LogGood(p, l) ==
  /\ DOMAIN l = {"batches", "start", "whole"} /\ IsLog(l.batches)
  /\ l.start \in Nat /\ l.start <= LogEnd(l.batches)
  /\ l.whole => TailsIntact(l.batches)
  /\ \A i \in DOMAIN l.batches : l.batches[i].offs \subseteq DOMAIN Timestamps[p]

CursorShape(c) ==
  c \in [next : Nat, end : Nat, start : Nat, finished : BOOLEAN, buffered : Seq(Outcome)]

(* No batch lies across the position: what a request for it returns again  *)
(* from before it was never wanted.                                        *)
Aligned(L, v, c) ==
  \A i \in DOMAIN L : Seen(L[i], v) /\ L[i].last >= c.next =>
    \A o \in L[i].offs : o >= c.start => o >= c.next

(* A cursor: what it buffers lies between its start and its position, in   *)
(* order.                                                                  *)
CursorGood(p, l, v, c) ==
  /\ CursorShape(c) /\ c.start <= c.next
  /\ c.next <= LogEnd(l.batches) /\ c.end <= LogEnd(l.batches)
  /\ Rising(c.buffered)
  /\ \A k \in DOMAIN c.buffered :
       /\ c.buffered[k].offset < c.next
       /\ c.buffered[k].ok => c.buffered[k].offset >= c.start
                              /\ c.buffered[k].offset \in DOMAIN Timestamps[p]
  /\ l.whole => Aligned(l.batches, v, c)

YieldedIn(ev, p, o) == \E i \in DOMAIN ev : ev[i].ok /\ ev[i].p = p /\ ev[i].o = o

(* All between the start and the position was yielded or waits.            *)
Covered(p, l, v, c, ev) ==
  \A o \in VisibleOffsets(l.batches, v) \ Rejected :
    c.start <= o /\ o < c.next => YieldedIn(ev, p, o) \/ Has(c.buffered, o)

(* A partition taken for finished has nothing more to show.                *)
ReadOut(l, v, c) ==
  \A o \in VisibleOffsets(l.batches, v) :
    c.next <= o /\ o < c.end => ~(o < EndFor(l.batches, v))

(* What waits is in the log.                                               *)
BufferShown(l, v, c) ==
  \A k \in DOMAIN c.buffered :
    c.buffered[k].ok => c.buffered[k].offset \in VisibleOffsets(l.batches, v)

PartitionInv(p) ==
  /\ LogGood(p, log[p]) /\ CursorGood(p, log[p], scan.visibility, cursors[p])
  /\ Covered(p, log[p], scan.visibility, cursors[p], events)
  /\ cursors[p].finished => ~scan.follow
  /\ cursors[p].finished /\ p \notin starved => ReadOut(log[p], scan.visibility, cursors[p])
  /\ faults.deletes = 0 => BufferShown(log[p], scan.visibility, cursors[p])

(* An event came before everything its partition still has.                *)
Before(e, c, whole) ==
  e.ok => /\ e.o < c.next
          /\ whole => \A k \in DOMAIN c.buffered : c.buffered[k].ok => e.o < c.buffered[k].offset

Event == [p : Partitions, o : Nat, ok : BOOLEAN]
EventInv(e) ==
  /\ e \in Event /\ (e.ok => e.o \in DOMAIN Timestamps[e.p])
  /\ Before(e, cursors[e.p], log[e.p].whole)

(* A partition has nothing left from before an instant.                    *)
Later(p, ts, c) ==
  /\ \A k \in DOMAIN c.buffered :
       c.buffered[k].ok => Timestamps[p][c.buffered[k].offset] >= ts
  /\ exhausted(c) \/ \A o \in DOMAIN Timestamps[p] : o >= c.next => Timestamps[p][o] >= ts

Exact == window = 0 /\ ~scan.follow /\ scan.ceiling >= Cardinality(Partitions)
MergeInv ==
  Exact => \A i \in DOMAIN events : events[i].ok =>
    \A q \in Partitions \ {events[i].p} : log[q].whole /\ Chronological(q) =>
      Later(q, Timestamps[events[i].p][events[i].o], cursors[q])

TargetInv ==
  pc = "fetch" => \A b \in DOMAIN targets : \A p \in targets[b] :
    /\ p \in Partitions /\ scan.leader[p] = b /\ cursors[p].buffered = <<>>
    /\ ~scan.follow => ~exhausted(cursors[p])

ScanShape ==
  /\ scan \in Scans /\ window \in Nat
  /\ DOMAIN log = Partitions /\ DOMAIN cursors = Partitions
  /\ DOMAIN faults = {"growth", "deletes", "failures"} /\ faults.deletes \in Nat
  /\ events \in Seq(Event)

ScanInv ==
  /\ ScanShape
  /\ \A p \in Partitions : PartitionInv(p)
  /\ \A i \in DOMAIN events : EventInv(events[i])
  /\ LogOrder /\ NothingHidden /\ MergeOrder /\ MergeInv /\ TargetInv
  /\ pc = "done" => limit_reached \/ all_exhausted(cursors)

ReaderInv == IF pc = "off" THEN events = <<>> ELSE ScanInv

-----------------------------------------------------------------------------
(* What an answer does to a position *)

LEMMA TakeFacts ==
  ASSUME NEW c, NEW outs \in Seq(Outcome), Rising(outs)
  PROVE  /\ Take(c, outs) \in Seq(Outcome) /\ Rising(Take(c, outs))
         /\ \A k \in DOMAIN Take(c, outs) : \E m \in DOMAIN outs :
              Take(c, outs)[k] = outs[m] /\ (~outs[m].ok \/ outs[m].offset >= c.start)
         /\ \A o : Has(outs, o) /\ o >= c.start => Has(Take(c, outs), o)
<1> DEFINE S == {i \in DOMAIN outs : ~outs[i].ok \/ outs[i].offset >= c.start}
           s == Ascending(S)
           t == Take(c, outs)
<1>1. Len(outs) \in Nat /\ DOMAIN outs = 1..Len(outs) OBVIOUS
<1>2. S \in SUBSET (0..Len(outs)) BY <1>1
<1>3. s \in Seq(S) /\ Sorted(s) /\ \A x \in S : \E i \in DOMAIN s : s[i] = x BY <1>1, <1>2, AscendingFacts
<1>4. t = [i \in DOMAIN s |-> outs[s[i]]] BY DEF Take
<1> HIDE DEF s, t
<1>5. Len(s) \in Nat /\ DOMAIN s = 1..Len(s) /\ \A i \in DOMAIN s : s[i] \in S BY <1>3
<1>6. \A i \in DOMAIN s : s[i] \in DOMAIN outs /\ outs[s[i]] \in Outcome BY <1>5
<1>7. t \in Seq(Outcome) BY <1>4, <1>5, <1>6
<1>8. Rising(t) BY <1>3, <1>4, <1>6 DEF Rising, Sorted
<1>9. \A k \in DOMAIN t : \E m \in DOMAIN outs :
        t[k] = outs[m] /\ (~outs[m].ok \/ outs[m].offset >= c.start)
  BY <1>4, <1>5
<1>10. ASSUME NEW o, Has(outs, o), o >= c.start
       PROVE  Has(t, o)
  <2>1. PICK m \in DOMAIN outs : outs[m].ok /\ outs[m].offset = o BY <1>10 DEF Has
  <2>2. m \in S BY <1>10, <2>1
  <2>3. PICK i \in DOMAIN s : s[i] = m BY <1>3, <2>2
  <2> QED BY <1>4, <2>1, <2>3 DEF Has
<1> QED BY <1>7, <1>8, <1>9, <1>10 DEF t

(* A record from the position on lies in a batch the answer begins with or *)
(* comes after.                                                            *)
LEMMA VisibleAhead ==
  ASSUME NEW L, IsLog(L), NEW from \in Nat, NEW stable, NEW v, NEW lo, NEW n,
         Stretch(L, lo, n, from, stable), NEW o \in VisibleOffsets(L, v), from <= o
  PROVE  \E x \in DOMAIN L : /\ o \in L[x].offs /\ Seen(L[x], v) /\ x \in Nat /\ x > lo /\ o \in Nat
                             /\ L[x].base \in Nat /\ L[x].last \in Nat
                             /\ L[x].base <= o /\ o <= L[x].last
<1>1. PICK x \in DOMAIN L : o \in L[x].offs /\ Seen(L[x], v) BY VisibleIs
<1>2. /\ L[x].base \in Nat /\ L[x].last \in Nat /\ L[x].offs \subseteq L[x].base..L[x].last
      /\ DOMAIN L = 1..Len(L) /\ Len(L) \in Nat
  BY LogOne
<1>3. x \in Nat /\ o \in Nat /\ L[x].base <= o /\ o <= L[x].last BY <1>1, <1>2
<1>4. lo \in Nat /\ \A i \in 1..lo : L[i].last < from BY DEF Stretch
<1>5. x > lo BY <1>2, <1>3, <1>4
<1> QED BY <1>1, <1>2, <1>3, <1>5

(* A batch that still reaches the position is none of those before.        *)
LEMMA BatchAhead ==
  ASSUME NEW L, IsLog(L), NEW from \in Nat, NEW stable, NEW lo, NEW n,
         Stretch(L, lo, n, from, stable), NEW x \in DOMAIN L, L[x].last >= from
  PROVE  x \in Nat /\ lo \in Nat /\ x > lo
<1>1. L[x].last \in Nat /\ DOMAIN L = 1..Len(L) /\ Len(L) \in Nat BY LogOne
<1>2. lo \in Nat /\ \A i \in 1..lo : L[i].last < from BY DEF Stretch
<1>3. x \in Nat BY <1>1
<1>4. ~(x <= lo) BY <1>1, <1>2, <1>3
<1> QED BY <1>2, <1>3, <1>4

(* An answer that held something moves the position behind it, past all    *)
(* that it held and past nothing else; where every batch ends in a record, *)
(* to the beginning of a batch.                                            *)
LEMMA OutcomesAdvance ==
  ASSUME NEW L, IsLog(L), NEW from \in Nat, NEW stable, NEW v, NEW lo, NEW n, NEW broken, NEW outs,
         Stretch(L, lo, n, from, stable), OutInv(L, lo, v, outs, n),
         Complete(L, lo, v, outs, broken, n), broken => EndsBroken(outs), outs # <<>>,
         NEW next, next = Larger(last_offset(Last(outs)) + 1, from + 1)
  PROVE  /\ next \in Nat /\ from < next /\ next <= LogEnd(L)
         /\ \A k \in DOMAIN outs : outs[k].offset < next
         /\ \A o \in VisibleOffsets(L, v) : from <= o /\ o < next => Has(outs, o)
         /\ TailsIntact(L) =>
              \A i \in DOMAIN L : Seen(L[i], v) /\ L[i].last >= next => L[i].base >= next
<1>1. /\ outs \in Seq(Outcome) /\ Rising(outs)
      /\ \A k \in DOMAIN outs : \E m \in 1..n : From(outs[k], L[lo + m], v)
  BY DEF OutInv
<1>2. /\ lo \in Nat /\ n \in Nat /\ lo + n <= Len(L) /\ Len(L) \in Nat /\ DOMAIN L = 1..Len(L)
      /\ \A i \in 1..n : L[lo + i].last >= from
  BY DEF Stretch, IsLog
<1>3. Len(outs) \in DOMAIN outs /\ DOMAIN outs = 1..Len(outs) /\ Len(outs) \in Nat BY <1>1
<1>4. PICK z : z = outs[Len(outs)] OBVIOUS
<1>5. z = Last(outs) /\ z \in Outcome BY <1>1, <1>3, <1>4 DEF Last
<1>6. PICK m \in 1..n : From(z, L[lo + m], v) BY <1>1, <1>3, <1>4
<1>7. PICK k : k = lo + m OBVIOUS
<1>8. k \in DOMAIN L /\ k \in Nat /\ L[k].last >= from /\ k > lo /\ From(z, L[k], v) BY <1>2, <1>6, <1>7
<1>9. L[k].base \in Nat /\ L[k].last \in Nat /\ L[k].base <= L[k].last /\ L[k].last < LogEnd(L) /\ LogEnd(L) \in Nat
  BY <1>8, LogOne, LogEndFacts
<1>10. z.offset \in Nat /\ z.last \in Int /\ z.ok \in BOOLEAN BY <1>5 DEF Outcome
<1>11. last_offset(z) \in Nat /\ z.offset <= last_offset(z) /\ last_offset(z) <= L[k].last
       /\ L[k].base <= z.offset /\ z.offset <= L[k].last
       /\ (~z.ok => z.offset = L[k].base) /\ (z.ok => last_offset(z) = z.offset)
  <2>1. z.offset \in L[k].base..L[k].last BY <1>8 DEF From
  <2>2. z.last = z.offset \/ z.last \in {Unknown, L[k].last} BY <1>8, <1>10 DEF From
  <2>3. (~z.ok => z.offset = L[k].base) /\ (z.ok => z.last = z.offset) BY <1>8 DEF From
  <2> QED BY <1>9, <1>10, <2>1, <2>2, <2>3 DEF last_offset, Unknown
<1>12. next = (IF last_offset(z) + 1 < from + 1 THEN from + 1 ELSE last_offset(z) + 1) BY <1>5 DEF Larger
<1>13. /\ next \in Nat /\ from < next /\ next <= L[k].last + 1 /\ next > last_offset(z)
       /\ next = from + 1 \/ next = last_offset(z) + 1
  BY <1>8, <1>9, <1>11, <1>12
<1>14. next <= LogEnd(L) BY <1>9, <1>13
<1>15. \A j \in DOMAIN outs : outs[j].offset \in Nat /\ outs[j].offset <= z.offset
  <2> SUFFICES ASSUME NEW j \in DOMAIN outs
               PROVE  outs[j].offset \in Nat /\ outs[j].offset <= z.offset
    OBVIOUS
  <2>1. outs[j] \in Outcome BY <1>1
  <2>2. outs[j].offset \in Nat BY <2>1 DEF Outcome
  <2>3. j = Len(outs) \/ j < Len(outs) BY <1>3
  <2> QED BY <1>1, <1>3, <1>4, <1>10, <2>2, <2>3 DEF Rising
<1>16. \A j \in DOMAIN outs : outs[j].offset < next BY <1>10, <1>11, <1>13, <1>15
<1>17. ASSUME NEW x \in DOMAIN L, Seen(L[x], v), x > lo, x <= k, NEW o \in L[x].offs
       PROVE  Has(outs, o)
  <2>1. x - lo \in 1..n /\ lo + (x - lo) = x /\ x \in Nat BY <1>2, <1>7, <1>17
  <2>2. Has(outs, o) \/ (broken /\ \A j \in DOMAIN outs : outs[j].offset < o) BY <1>17, <2>1 DEF Complete
  <2>3. ASSUME broken, \A j \in DOMAIN outs : outs[j].offset < o
        PROVE  FALSE
    <3>1. ~z.ok /\ z.offset < o BY <1>3, <1>4, <2>3 DEF EndsBroken
    <3>2. L[k].health # "ok" BY <1>8, <3>1 DEF From
    <3>3. x # k BY <1>17, <3>2 DEF Seen
    <3>4. L[x].last < L[k].base BY <1>8, <1>17, <2>1, <3>3, LogTwo
    <3>5. o \in Nat /\ o <= L[x].last /\ L[x].last \in Nat
      <4>1. L[x].offs \subseteq L[x].base..L[x].last /\ L[x].base \in Nat /\ L[x].last \in Nat BY LogOne
      <4> QED BY <1>17, <4>1
    <3> QED BY <1>9, <1>11, <3>1, <3>4, <3>5
  <2> QED BY <2>2, <2>3
<1>18. ASSUME NEW o \in VisibleOffsets(L, v), from <= o, o < next
       PROVE  Has(outs, o)
  <2>1. PICK x \in DOMAIN L : /\ o \in L[x].offs /\ Seen(L[x], v) /\ x \in Nat /\ x > lo /\ o \in Nat
                              /\ L[x].base \in Nat /\ L[x].last \in Nat
                              /\ L[x].base <= o /\ o <= L[x].last
    BY <1>18, VisibleAhead
  <2>2. ~(k < x)
    <3> SUFFICES ASSUME k < x PROVE FALSE OBVIOUS
    <3>1. L[k].last < L[x].base BY <1>8, LogTwo
    <3> QED BY <1>9, <1>13, <1>18, <2>1, <3>1
  <2>3. x <= k BY <1>8, <2>1, <2>2
  <2> QED BY <1>17, <2>1, <2>3
<1>19. ASSUME TailsIntact(L), NEW x \in DOMAIN L, Seen(L[x], v), L[x].last >= next
       PROVE  L[x].base >= next
  <2>1. L[x].base \in Nat /\ L[x].last \in Nat BY LogOne
  <2>2. L[x].last >= from BY <1>13, <1>19, <2>1
  <2>3. x \in Nat /\ x > lo BY <2>2, BatchAhead
  <2>4. ASSUME x <= k
        PROVE  FALSE
    <3>1. L[x].last \in L[x].offs BY <1>19 DEF TailsIntact, Seen
    <3>2. Has(outs, L[x].last) BY <1>17, <1>19, <2>3, <2>4, <3>1
    <3>3. PICK j \in DOMAIN outs : outs[j].offset = L[x].last BY <3>2 DEF Has
    <3> QED BY <1>13, <1>16, <1>19, <2>1, <3>3
  <2>5. L[k].last < L[x].base BY <1>8, <2>3, <2>4, LogTwo
  <2> QED BY <1>9, <1>13, <2>1, <2>5
<1> QED BY <1>13, <1>14, <1>16, <1>18, <1>19

(* An answer without an outcome has nothing to see in it.                  *)
LEMMA NothingSeen ==
  ASSUME NEW L, IsLog(L), NEW v, NEW lo, NEW n, NEW broken, NEW outs,
         Complete(L, lo, v, outs, broken, n), broken => EndsBroken(outs), outs = <<>>,
         NEW m \in 1..n, Seen(L[lo + m], v)
  PROVE  L[lo + m].offs = {}
<1>1. ~broken /\ ~\E o : Has(outs, o) BY DEF EndsBroken, Has
<1> QED BY <1>1 DEF Complete

(* An answer of markers and hidden records: one step past the position.    *)
LEMMA StepAdvance ==
  ASSUME NEW L, IsLog(L), NEW from \in Nat, NEW stable, NEW v, NEW lo, NEW n, NEW broken, NEW outs,
         Stretch(L, lo, n, from, stable), Complete(L, lo, v, outs, broken, n),
         broken => EndsBroken(outs), outs = <<>>, n # 0
  PROVE  /\ from + 1 <= LogEnd(L)
         /\ \A o \in VisibleOffsets(L, v) : ~(from <= o /\ o < from + 1)
         /\ TailsIntact(L) =>
              \A i \in DOMAIN L : Seen(L[i], v) /\ L[i].last >= from + 1 => L[i].base >= from + 1
<1>1. /\ lo \in Nat /\ n \in Nat /\ lo + n <= Len(L) /\ Len(L) \in Nat /\ DOMAIN L = 1..Len(L)
      /\ \A i \in 1..n : L[lo + i].last >= from
  <2>1. Len(L) \in Nat /\ DOMAIN L = 1..Len(L) BY DEF IsLog
  <2>2. /\ lo \in Nat /\ n \in Nat /\ lo + n <= Len(L)
        /\ \A i \in 1..n : L[lo + i].last >= from
    BY Zenon DEF Stretch
  <2> QED BY <2>1, <2>2
<1>2. PICK k : k = lo + 1 OBVIOUS
<1>3. 1 \in 1..n /\ k \in DOMAIN L /\ k \in Nat /\ L[k].last >= from /\ (Seen(L[k], v) => L[k].offs = {})
  <2>1. 1 \in 1..n BY <1>1
  <2>2. k \in DOMAIN L /\ k \in Nat BY <1>1, <1>2, <2>1
  <2>3. L[k].last >= from BY <1>1, <1>2, <2>1
  <2>4. Seen(L[lo + 1], v) => L[lo + 1].offs = {} BY <2>1, NothingSeen, Zenon
  <2> QED BY <1>2, <2>1, <2>2, <2>3, <2>4
<1>4. L[k].last \in Nat /\ L[k].last < LogEnd(L) /\ LogEnd(L) \in Nat BY <1>3, LogOne, LogEndFacts
<1>5. ASSUME NEW o \in VisibleOffsets(L, v), from <= o, o < from + 1
      PROVE  FALSE
  <2>1. PICK x \in DOMAIN L : /\ o \in L[x].offs /\ Seen(L[x], v) /\ x \in Nat /\ x > lo /\ o \in Nat
                              /\ L[x].base \in Nat /\ L[x].last \in Nat
                              /\ L[x].base <= o /\ o <= L[x].last
    BY <1>5, VisibleAhead
  <2>2. x # k BY <1>3, <2>1
  <2>3. k < x BY <1>1, <1>2, <2>1, <2>2
  <2>4. L[k].last < L[x].base BY <1>3, <2>3, LogTwo
  <2> QED BY <1>3, <1>4, <1>5, <2>1, <2>4
<1>6. ASSUME TailsIntact(L), NEW x \in DOMAIN L, Seen(L[x], v), L[x].last >= from + 1
      PROVE  L[x].base >= from + 1
  <2>1. L[x].base \in Nat /\ L[x].last \in Nat BY LogOne
  <2>2. L[x].last >= from BY <1>6, <2>1
  <2>3. x \in Nat /\ x > lo BY <2>2, BatchAhead
  <2>4. x # k BY <1>3, <1>6 DEF TailsIntact, Seen
  <2>5. k < x BY <1>1, <1>2, <2>3, <2>4
  <2>6. L[k].last < L[x].base BY <1>3, <2>5, LogTwo
  <2> QED BY <1>3, <1>4, <2>1, <2>6
<1>7. from + 1 <= LogEnd(L) BY <1>3, <1>4
<1> QED BY <1>5, <1>6, <1>7

(* An answer with nothing at all: there is nothing to see up to the usable *)
(* end, unless there was no room for it.                                   *)
LEMMA NothingAhead ==
  ASSUME NEW L, IsLog(L), NEW from \in Nat, NEW stable \in Nat, NEW v, NEW budget, NEW answer,
         NEW lo, NEW n, NEW broken, NEW outs,
         Sends(L, from, stable, budget, answer, lo, n), Complete(L, lo, v, outs, broken, n),
         broken => EndsBroken(outs), outs = <<>>, ~answer.cut,
         ~(answer.sent = <<>> /\ from < stable), NEW o \in VisibleOffsets(L, v), from <= o
  PROVE  ~(o < stable)
<1> SUFFICES ASSUME o < stable PROVE FALSE OBVIOUS
<1>1. /\ Stretch(L, lo, n, from, stable) /\ answer.sent = Part(L, lo, n)
      /\ n > 0 => \A i \in DOMAIN L : L[i].last >= from /\ L[i].base < stable => i <= lo + n
  BY DEF Sends
<1>2. PICK x \in DOMAIN L : /\ o \in L[x].offs /\ Seen(L[x], v) /\ x \in Nat /\ x > lo /\ o \in Nat
                            /\ L[x].base \in Nat /\ L[x].last \in Nat
                            /\ L[x].base <= o /\ o <= L[x].last
  BY <1>1, VisibleAhead
<1>3. n \in Nat /\ lo \in Nat BY <1>1 DEF Stretch
<1>4. n > 0
  <2> SUFFICES ASSUME n = 0 PROVE FALSE BY <1>3
  <2>1. answer.sent = <<>> BY <1>1 DEF Part
  <2> QED BY <1>2, <2>1
<1>5. x <= lo + n BY <1>1, <1>2, <1>4
<1>6. x - lo \in 1..n /\ lo + (x - lo) = x BY <1>2, <1>3, <1>5
<1>7. L[x].offs = {} BY <1>2, <1>6, NothingSeen
<1> QED BY <1>2, <1>7

-----------------------------------------------------------------------------
(* A cursor and its partition's part of an answer *)

Heard(L, st, v, c) ==
  [c EXCEPT !.end = Larger(@, EndFor(L, v)), !.next = Larger(@, st)]
Refilled(L, st, c, v, follow, answer) ==
  LET e == Heard(L, st, v, c)
      d == decode_partition(answer, v)
  IN IF d.outcomes # <<>>
       THEN [e EXCEPT !.next = Advance(e, d.outcomes), !.buffered = @ \o Take(e, d.outcomes)]
     ELSE IF d.control > 0 \/ d.hidden > 0 THEN StepPast(e)
     ELSE IF d.truncated THEN TooLarge
     ELSE [e EXCEPT !.finished = ~follow]

LEMMA FillIs ==
  ASSUME NEW p, NEW answer
  PROVE  Fill(p, answer) = Refilled(log[p].batches, log[p].start, cursors[p],
                                    scan.visibility, scan.follow, answer)
BY DEF Fill, Refilled, Heard, end_for

Fills(L, v, follow, c, n, answer) ==
  /\ CursorShape(n) /\ n.start = c.start /\ c.next <= n.next
  /\ n.next <= LogEnd(L) /\ n.end <= LogEnd(L)
  /\ Rising(n.buffered)
  /\ \A k \in DOMAIN n.buffered :
       /\ n.buffered[k].offset < n.next
       /\ n.buffered[k].ok => n.buffered[k].offset >= c.start
                              /\ n.buffered[k].offset \in VisibleOffsets(L, v)
  /\ TailsIntact(L) /\ Aligned(L, v, c) =>
       /\ Aligned(L, v, n)
       /\ \A k \in DOMAIN n.buffered : n.buffered[k].ok => n.buffered[k].offset >= c.next
  /\ \A o \in VisibleOffsets(L, v) :
       c.start <= o /\ c.next <= o /\ o < n.next => Has(n.buffered, o)
  /\ n.finished =>
       /\ ~follow
       /\ ~(answer.sent = <<>> /\ c.next < EndFor(L, v)) =>
            \A o \in VisibleOffsets(L, v) : n.next <= o => ~(o < EndFor(L, v))

(* The cursor as it is read from the answer's header.                      *)
LEMMA Told ==
  ASSUME NEW L, IsLog(L), NEW st \in Nat, NEW v, NEW c, CursorShape(c),
         st <= c.next, c.end <= LogEnd(L), c.buffered = <<>>, ~c.finished,
         NEW e, e = Heard(L, st, v, c)
  PROVE  /\ CursorShape(e) /\ e.next = c.next /\ e.start = c.start /\ e.buffered = <<>>
         /\ ~e.finished /\ e.end <= LogEnd(L)
<1>1. EndFor(L, v) \in Nat /\ EndFor(L, v) <= LogEnd(L) /\ LogEnd(L) \in Nat BY EndForFacts, LogEndFacts
<1>2. c.next \in Nat /\ c.end \in Nat BY DEF CursorShape
<1>3. Larger(c.next, st) = c.next BY <1>2 DEF Larger
<1>4. PICK w \in Nat : w = Larger(c.end, EndFor(L, v)) /\ w <= LogEnd(L) BY <1>1, <1>2 DEF Larger
<1> QED BY <1>2, <1>3, <1>4 DEF CursorShape, Heard

LEMMA OkVisible ==
  ASSUME NEW L, IsLog(L), NEW v, NEW lo, NEW n, NEW from, NEW stable, Stretch(L, lo, n, from, stable),
         NEW outs, OutInv(L, lo, v, outs, n), NEW k \in DOMAIN outs, outs[k].ok
  PROVE  /\ outs[k].offset \in VisibleOffsets(L, v)
         /\ \E x \in DOMAIN L : Seen(L[x], v) /\ L[x].last >= from /\ outs[k].offset \in L[x].offs
<1>1. /\ lo \in Nat /\ n \in Nat /\ lo + n <= Len(L) /\ \A i \in 1..n : L[lo + i].last >= from
  BY Zenon DEF Stretch
<1>2. PICK m \in 1..n : From(outs[k], L[lo + m], v) BY DEF OutInv
<1>3. DOMAIN L = 1..Len(L) /\ Len(L) \in Nat BY DEF IsLog
<1>4. PICK x : x = lo + m OBVIOUS
<1>5. x \in DOMAIN L /\ L[x].last >= from /\ From(outs[k], L[x], v) BY <1>1, <1>2, <1>3, <1>4
<1>6. outs[k].offset \in L[x].offs /\ Seen(L[x], v) BY <1>5 DEF From
<1> QED BY <1>5, <1>6, VisibleIs

LEMMA Filled ==
  ASSUME NEW L, IsLog(L), NEW st \in Nat, NEW v, NEW follow \in BOOLEAN, NEW c, CursorShape(c),
         st <= c.next, c.start <= c.next, c.next <= LogEnd(L), c.end <= LogEnd(L),
         c.buffered = <<>>, ~c.finished,
         NEW budget \in Nat, NEW answer, answer = Answer(L, c.next, EndFor(L, v), budget),
         NEW n, n = Refilled(L, st, c, v, follow, answer), n # TooLarge
  PROVE  Fills(L, v, follow, c, n, answer)
<1> DEFINE d == decode_partition(answer, v)
           stable == EndFor(L, v)
           from == c.next
<1>1. PICK e : e = Heard(L, st, v, c) OBVIOUS
<1>2. /\ CursorShape(e) /\ e.next = c.next /\ e.start = c.start /\ e.buffered = <<>>
      /\ ~e.finished /\ e.end <= LogEnd(L)
  BY <1>1, Told
<1>3. stable \in Nat /\ from \in Nat /\ c.start \in Nat /\ LogEnd(L) \in Nat
  BY EndForFacts, LogEndFacts DEF CursorShape
<1>4. PICK lo, len, broken : /\ Sends(L, from, stable, budget, answer, lo, len)
                             /\ Decodes(L, v, answer, d, lo, len, broken)
  <2>1. from \in Int /\ stable \in Int BY <1>3
  <2> HIDE DEF stable, from
  <2> QED BY <2>1, Decoded DEF stable, from
<1>5. n = (IF d.outcomes # <<>>
             THEN [e EXCEPT !.next = Advance(e, d.outcomes), !.buffered = @ \o Take(e, d.outcomes)]
           ELSE IF d.control > 0 \/ d.hidden > 0 THEN StepPast(e)
           ELSE IF d.truncated THEN TooLarge
           ELSE [e EXCEPT !.finished = ~follow])
  BY <1>1 DEF Refilled
<1>6. PICK outs : outs = d.outcomes OBVIOUS
<1>7. /\ Stretch(L, lo, len, from, stable) /\ OutInv(L, lo, v, outs, len)
      /\ Complete(L, lo, v, outs, broken, len) /\ (broken => EndsBroken(outs))
      /\ len = 0 => d.control = 0 /\ d.hidden = 0
      /\ outs = <<>> /\ ~d.truncated => ~answer.cut
  BY <1>4, <1>6 DEF Sends, Decodes
<1> HIDE DEF d, stable, from
<1>8. CASE outs # <<>>
  <2> DEFINE t == Take(e, outs)
  <2>1. outs \in Seq(Outcome) /\ Rising(outs) BY <1>7 DEF OutInv
  <2>2. PICK next : next = Larger(last_offset(Last(outs)) + 1, from + 1) OBVIOUS
  <2>3. /\ next \in Nat /\ from < next /\ next <= LogEnd(L)
        /\ \A k \in DOMAIN outs : outs[k].offset < next
        /\ \A o \in VisibleOffsets(L, v) : from <= o /\ o < next => Has(outs, o)
        /\ TailsIntact(L) =>
             \A i \in DOMAIN L : Seen(L[i], v) /\ L[i].last >= next => L[i].base >= next
    BY <1>3, <1>7, <1>8, <2>2, OutcomesAdvance
  <2>4. /\ t \in Seq(Outcome) /\ Rising(t)
        /\ \A k \in DOMAIN t : \E m \in DOMAIN outs :
             t[k] = outs[m] /\ (~outs[m].ok \/ outs[m].offset >= c.start)
        /\ \A o : Has(outs, o) /\ o >= c.start => Has(t, o)
    BY <1>2, <2>1, TakeFacts
  <2>5. Advance(e, outs) = next BY <1>2, <2>2 DEF Advance, from
  <2> HIDE DEF t
  <2>6. <<>> \o t = t BY <2>4
  <2>7. n = [e EXCEPT !.next = next, !.buffered = t] BY <1>2, <1>5, <1>6, <1>8, <2>5, <2>6 DEF t
  <2>8. /\ CursorShape(n) /\ n.start = c.start /\ n.next = next /\ n.buffered = t
        /\ n.end = e.end /\ ~n.finished
    BY <1>2, <2>3, <2>4, <2>7 DEF CursorShape
  <2>9. \A k \in DOMAIN t : /\ t[k].offset < next
                            /\ t[k].ok => t[k].offset >= c.start /\ t[k].offset \in VisibleOffsets(L, v)
    <3> SUFFICES ASSUME NEW k \in DOMAIN t
                 PROVE  /\ t[k].offset < next
                        /\ t[k].ok => t[k].offset >= c.start /\ t[k].offset \in VisibleOffsets(L, v)
      OBVIOUS
    <3>1. PICK m \in DOMAIN outs : t[k] = outs[m] /\ (~outs[m].ok \/ outs[m].offset >= c.start) BY <2>4
    <3>2. outs[m].ok => outs[m].offset \in VisibleOffsets(L, v) BY <1>7, OkVisible
    <3> QED BY <2>3, <3>1, <3>2
  <2>10. ASSUME TailsIntact(L), Aligned(L, v, c)
         PROVE  /\ Aligned(L, v, n)
                /\ \A k \in DOMAIN t : t[k].ok => t[k].offset >= from
    <3>1. Aligned(L, v, n)
      <4> SUFFICES ASSUME NEW i \in DOMAIN L, Seen(L[i], v), L[i].last >= next, NEW o \in L[i].offs
                   PROVE  o >= next
        BY <2>8 DEF Aligned
      <4>1. L[i].base >= next BY <2>3, <2>10
      <4>2. L[i].base \in Nat /\ L[i].last \in Nat /\ L[i].offs \subseteq L[i].base..L[i].last BY LogOne
      <4>3. o \in Nat /\ o >= L[i].base BY <4>2
      <4> QED BY <2>3, <4>1, <4>2, <4>3
    <3>2. ASSUME NEW k \in DOMAIN t, t[k].ok
          PROVE  t[k].offset >= from
      <4>1. PICK m \in DOMAIN outs : t[k] = outs[m] /\ outs[m].ok /\ outs[m].offset >= c.start BY <2>4, <3>2
      <4>2. PICK x \in DOMAIN L : Seen(L[x], v) /\ L[x].last >= from /\ outs[m].offset \in L[x].offs
        BY <1>7, <4>1, OkVisible
      <4> QED BY <2>10, <4>1, <4>2 DEF Aligned, from
    <3> QED BY <3>1, <3>2
  <2>11. \A o \in VisibleOffsets(L, v) : c.start <= o /\ from <= o /\ o < next => Has(t, o)
    <3> SUFFICES ASSUME NEW o \in VisibleOffsets(L, v), c.start <= o, from <= o, o < next
                 PROVE  Has(t, o)
      OBVIOUS
    <3>1. o \in Nat BY VisibleNat
    <3>2. o >= c.start BY <1>3, <3>1
    <3> QED BY <2>3, <2>4, <3>2
  <2>12. c.next <= next BY <1>3, <2>3 DEF from
  <2> QED BY <1>2, <2>3, <2>4, <2>8, <2>9, <2>10, <2>11, <2>12 DEF Fills, from
<1>9. CASE outs = <<>> /\ (d.control > 0 \/ d.hidden > 0)
  <2>1. len # 0 BY <1>7, <1>9
  <2>2. /\ from + 1 <= LogEnd(L)
        /\ \A o \in VisibleOffsets(L, v) : ~(from <= o /\ o < from + 1)
        /\ TailsIntact(L) =>
             \A i \in DOMAIN L : Seen(L[i], v) /\ L[i].last >= from + 1 => L[i].base >= from + 1
    BY <1>3, <1>7, <1>9, <2>1, StepAdvance
  <2>3. n = [e EXCEPT !.next = @ + 1] BY <1>5, <1>6, <1>9 DEF StepPast
  <2>4. PICK next \in Nat : next = from + 1 BY <1>3
  <2>5. /\ CursorShape(n) /\ n.start = c.start /\ n.next = next /\ n.buffered = <<>>
        /\ n.end = e.end /\ ~n.finished
    BY <1>2, <1>3, <2>3, <2>4 DEF CursorShape, from
  <2>6. ASSUME TailsIntact(L)
        PROVE  Aligned(L, v, n)
    <3> SUFFICES ASSUME NEW i \in DOMAIN L, Seen(L[i], v), L[i].last >= next, NEW o \in L[i].offs
                 PROVE  o >= next
      BY <2>5 DEF Aligned
    <3>1. L[i].base >= next BY <2>2, <2>4, <2>6
    <3>2. L[i].base \in Nat /\ L[i].last \in Nat /\ L[i].offs \subseteq L[i].base..L[i].last BY LogOne
    <3>3. o \in Nat /\ o >= L[i].base BY <3>2
    <3> QED BY <3>1, <3>2, <3>3
  <2>7. c.next <= next /\ next <= LogEnd(L) BY <1>3, <2>2, <2>4 DEF from
  <2>8. \A o \in VisibleOffsets(L, v) : ~(from <= o /\ o < next) BY <2>2, <2>4
  <2>9. Rising(<<>>) BY DEF Rising
  <2> QED BY <1>2, <2>5, <2>6, <2>7, <2>8, <2>9 DEF Fills, from
<1>10. CASE outs = <<>> /\ ~(d.control > 0 \/ d.hidden > 0)
  <2>1. ~d.truncated /\ n = [e EXCEPT !.finished = ~follow] BY <1>5, <1>6, <1>10
  <2>2. ~answer.cut BY <1>7, <1>10, <2>1
  <2>3. /\ CursorShape(n) /\ n.start = c.start /\ n.next = c.next /\ n.buffered = <<>>
        /\ n.end = e.end /\ n.finished = ~follow
    BY <1>2, <2>1 DEF CursorShape
  <2>4. ASSUME ~(answer.sent = <<>> /\ c.next < stable), NEW o \in VisibleOffsets(L, v), from <= o
        PROVE  ~(o < stable)
    BY <1>3, <1>4, <1>7, <1>10, <2>2, <2>4, NothingAhead DEF from
  <2>5. Aligned(L, v, c) => Aligned(L, v, n) BY <2>3 DEF Aligned
  <2>6. \A o \in VisibleOffsets(L, v) : ~(from <= o /\ o < from)
    <3>1. \A o \in VisibleOffsets(L, v) : o \in Nat BY VisibleNat
    <3> QED BY <1>3, <3>1
  <2>7. Rising(<<>>) /\ c.next <= c.next BY <1>3 DEF Rising, from
  <2>8. ~(answer.sent = <<>> /\ c.next < stable) =>
          \A o \in VisibleOffsets(L, v) : from <= o => ~(o < stable)
    BY <2>4
  <2>9. n.finished => ~follow BY <2>3
  <2>10. /\ \A k \in DOMAIN n.buffered : FALSE
         /\ Rising(n.buffered) /\ n.end <= LogEnd(L) /\ n.next <= LogEnd(L) /\ c.next <= n.next
    BY <1>2, <2>3, <2>7
  <2>11. \A o \in VisibleOffsets(L, v) : ~(c.next <= o /\ o < n.next) BY <2>3, <2>6 DEF from
  <2>12. ~(answer.sent = <<>> /\ c.next < EndFor(L, v)) =>
          \A o \in VisibleOffsets(L, v) : n.next <= o => ~(o < EndFor(L, v))
    BY <2>3, <2>8 DEF from, stable
  <2>13. CursorShape(n) /\ n.start = c.start BY <2>3
  <2> QED BY <2>5, <2>9, <2>10, <2>11, <2>12, <2>13 DEF Fills
<1> QED BY <1>8, <1>9, <1>10

-----------------------------------------------------------------------------
(* The partitions of a request share its answer, one after another.        *)
ShareIter(base, s, S, it) ==
  it = [t \in SUBSET S |-> IF t = {} THEN base ELSE Share(it[t \ {Max(t)}], s[Max(t)])]

LEMMA ShareIterExists ==
  ASSUME NEW base, NEW s, NEW n \in Nat
  PROVE  \E it : ShareIter(base, s, 1..n, it)
<1> DEFINE T == {k \in Nat : \E it : ShareIter(base, s, 1..k, it)}
<1>1. 0 \in T
  <2>1. SUBSET (1..0) = {{}} OBVIOUS
  <2>2. ShareIter(base, s, 1..0, [t \in SUBSET (1..0) |-> base]) BY <2>1 DEF ShareIter
  <2> QED BY <2>2
<1>2. ASSUME NEW k \in Nat, k \in T
      PROVE  k + 1 \in T
  <2>1. PICK it : ShareIter(base, s, 1..k, it) BY <1>2
  <2> DEFINE more == [t \in SUBSET (1..(k + 1)) |->
                        IF k + 1 \in t THEN Share(it[t \ {k + 1}], s[k + 1]) ELSE it[t]]
  <2>2. ASSUME NEW t \in SUBSET (1..(k + 1))
        PROVE  more[t] = IF t = {} THEN base ELSE Share(more[t \ {Max(t)}], s[Max(t)])
    <3>1. CASE k + 1 \in t
      <4>1. Max(t) = k + 1
        <5>1. Max(t) \in t /\ \A y \in t : Max(t) >= y
          <6>1. t \subseteq 0..(k + 1) /\ t # {} /\ k + 1 \in Nat BY <3>1
          <6> QED BY <6>1, GreatestOf
        <5>2. Max(t) \in 1..(k + 1) /\ Max(t) >= k + 1 BY <5>1, <3>1
        <5> QED BY <5>2
      <4>2. t \ {k + 1} \in SUBSET (1..(k + 1)) /\ k + 1 \notin t \ {k + 1} OBVIOUS
      <4>3. more[t \ {k + 1}] = it[t \ {k + 1}] BY <4>2
      <4> QED BY <3>1, <4>1, <4>3
    <3>2. CASE k + 1 \notin t
      <4>1. t \in SUBSET (1..k) BY <3>2
      <4>2. it[t] = IF t = {} THEN base ELSE Share(it[t \ {Max(t)}], s[Max(t)]) BY <2>1, <4>1 DEF ShareIter
      <4>3. t # {} => more[t \ {Max(t)}] = it[t \ {Max(t)}]
        <5>1. t \ {Max(t)} \in SUBSET (1..(k + 1)) /\ k + 1 \notin t \ {Max(t)} BY <3>2
        <5> QED BY <5>1
      <4>4. more[t] = it[t] BY <3>2
      <4> QED BY <4>2, <4>3, <4>4
    <3> QED BY <3>1, <3>2
  <2>3. ShareIter(base, s, 1..(k + 1), more) BY <2>2 DEF ShareIter
  <2> QED BY <2>3
<1> HIDE DEF T
<1>3. n \in T BY <1>1, <1>2, NatSetInduction
<1> QED BY <1>3 DEF T

ShareAll(base, s) == FoldLeft(Share, base, s)

Turns(base, s, n, r) ==
  /\ r[0] = base
  /\ \A i \in 1..n : r[i] = Share(r[i - 1], s[i])
  /\ ShareAll(base, s) = r[n]

LEMMA ShareTurns ==
  ASSUME NEW base, NEW s, NEW n \in Nat, DOMAIN s = 1..n
  PROVE  \E r : Turns(base, s, n, r)
<1> DEFINE it == CHOOSE it : ShareIter(base, s, 1..n, it)
<1>1. ShareAll(base, s) = it[1..n] BY Zenon DEF ShareAll, FoldLeft, MapThenFoldSet, ShareIter
<1>2. ShareIter(base, s, 1..n, it) BY ShareIterExists
<1> HIDE DEF it
<1> DEFINE r == [i \in 0..n |-> it[1..i]]
<1>3. ASSUME NEW i \in 1..n
      PROVE  r[i] = Share(r[i - 1], s[i])
  <2>1. (1..i) \in SUBSET (1..n) /\ 1..i # {} OBVIOUS
  <2>2. Max(1..i) = i
    <3>1. 1..i \subseteq 0..i /\ i \in Nat OBVIOUS
    <3>2. Max(1..i) \in 1..i /\ \A y \in 1..i : Max(1..i) >= y BY <2>1, <3>1, GreatestOf
    <3> QED BY <3>2
  <2>3. (1..i) \ {i} = 1..(i - 1) OBVIOUS
  <2>4. it[1..i] = Share(it[1..(i - 1)], s[i]) BY <1>2, <2>1, <2>2, <2>3 DEF ShareIter
  <2>5. r[i] = it[1..i] /\ r[i - 1] = it[1..(i - 1)] OBVIOUS
  <2> QED BY <2>4, <2>5
<1>4. r[0] = base
  <2>1. {} \in SUBSET (1..n) /\ 1..0 = {} OBVIOUS
  <2> QED BY <1>2, <2>1 DEF ShareIter
<1>5. r[n] = it[1..n] OBVIOUS
<1> HIDE DEF r
<1>6. Turns(base, s, n, r) BY <1>1, <1>3, <1>4, <1>5 DEF Turns
<1> QED BY <1>6

AnswerTo(p, budget) ==
  Answer(log[p].batches, cursors[p].next, end_for(p, scan.visibility), budget)
AnswerSet == {AnswerTo(p, budget) : p \in Partitions, budget \in Nat}

ShareInv(asked, acc, i) ==
  /\ DOMAIN acc = {"left", "of"} /\ acc.left \in Nat
  /\ acc.of \in Seq(AnswerSet) /\ Len(acc.of) = i
  /\ \A j \in 1..i : \E budget \in Nat : acc.of[j] = AnswerTo(asked[j], budget)

LEMMA ShareStep ==
  ASSUME \A p \in Partitions : IsLog(log[p].batches) /\ cursors[p].next \in Nat,
         NEW asked \in Seq(Partitions), NEW i \in Nat, i + 1 <= Len(asked),
         NEW acc, ShareInv(asked, acc, i)
  PROVE  ShareInv(asked, Share(acc, asked[i + 1]), i + 1)
<1> DEFINE p == asked[i + 1]
           budget == Smaller(PartitionMax, acc.left)
           answer == AnswerTo(p, budget)
           L == log[p].batches
           from == cursors[p].next
           stable == end_for(p, scan.visibility)
<1>1. /\ DOMAIN acc = {"left", "of"} /\ acc.left \in Nat
      /\ acc.of \in Seq(AnswerSet) /\ Len(acc.of) = i
      /\ \A j \in 1..i : \E b \in Nat : acc.of[j] = AnswerTo(asked[j], b)
  BY DEF ShareInv
<1>2. p \in Partitions BY DEF ShareInv
<1>3. budget \in Nat /\ budget <= acc.left
  <2>1. PartitionMax \in Nat BY ScanAssumption
  <2> QED BY <1>1, <2>1 DEF Smaller
<1>4. IsLog(L) /\ from \in Int BY <1>2
<1>5. stable \in Int BY <1>4, EndForFacts DEF end_for
<1>6. answer = Answer(L, from, stable, budget) BY DEF AnswerTo
<1>7. Share(acc, p) = [left |-> acc.left - Len(answer.sent), of |-> Append(acc.of, answer)]
  BY DEF Share, AnswerTo
<1> HIDE DEF budget, answer, L, from, stable, p
<1>8. PICK lo, n : Sends(L, from, stable, budget, answer, lo, n) BY <1>3, <1>4, <1>5, <1>6, AnswerFacts
<1>9. n \in Nat /\ n <= budget /\ Len(answer.sent) = n
  <2>1. n \in Nat /\ n <= budget /\ answer.sent = Part(L, lo, n) BY <1>8 DEF Sends, Stretch
  <2> QED BY <2>1 DEF Part
<1>10. acc.left - Len(answer.sent) \in Nat BY <1>1, <1>3, <1>9
<1>11. answer \in AnswerSet BY <1>2, <1>3 DEF AnswerSet, answer
<1> DEFINE of == Append(acc.of, answer)
<1>12. /\ of \in Seq(AnswerSet) /\ Len(of) = i + 1 /\ of[i + 1] = answer
       /\ \A j \in 1..i : of[j] = acc.of[j]
  BY <1>1, <1>11
<1> HIDE DEF of
<1>13. ASSUME NEW j \in 1..(i + 1)
       PROVE  \E b \in Nat : of[j] = AnswerTo(asked[j], b)
  <2>1. CASE j \in 1..i BY <1>1, <1>12, <2>1
  <2>2. CASE j = i + 1 BY <1>3, <1>12, <2>2 DEF answer, p
  <2> QED BY <2>1, <2>2
<1>14. Share(acc, p) = [left |-> acc.left - Len(answer.sent), of |-> of] BY <1>7 DEF of
<1>15. ShareInv(asked, Share(acc, p), i + 1) BY <1>10, <1>12, <1>13, <1>14 DEF ShareInv
<1> QED BY <1>15 DEF p

(* Each partition asked about gets an answer of its own.                   *)
LEMMA AnswersAre ==
  ASSUME \A p \in Partitions : IsLog(log[p].batches) /\ cursors[p].next \in Nat,
         NEW asked \in Seq(Partitions)
  PROVE  \A i \in DOMAIN asked : \E budget \in Nat : Answers(asked)[i] = AnswerTo(asked[i], budget)
<1> DEFINE base == [left |-> FetchMax, of |-> <<>>]
<1>1. PICK n \in Nat : n = Len(asked) /\ DOMAIN asked = 1..n OBVIOUS
<1>2. Answers(asked) = ShareAll(base, asked).of BY DEF Answers, ShareAll
<1>3. PICK r : /\ r[0] = base
               /\ \A i \in 1..n : r[i] = Share(r[i - 1], asked[i])
               /\ ShareAll(base, asked) = r[n]
  <2> HIDE DEF base
  <2>1. \E r : Turns(base, asked, n, r) BY <1>1, ShareTurns
  <2> QED BY <2>1 DEF Turns
<1> DEFINE T == {i \in Nat : i <= n => ShareInv(asked, r[i], i)}
<1>4. 0 \in T
  <2>1. FetchMax \in Nat BY ScanAssumption
  <2>2. ShareInv(asked, base, 0) BY <2>1 DEF ShareInv
  <2> QED BY <1>3, <2>2
<1>5. ASSUME NEW i \in Nat, i \in T
      PROVE  i + 1 \in T
  <2> SUFFICES ASSUME i + 1 <= n
               PROVE  ShareInv(asked, r[i + 1], i + 1)
    OBVIOUS
  <2>1. ShareInv(asked, r[i], i) BY <1>1, <1>5
  <2>2. i + 1 \in 1..n /\ (i + 1) - 1 = i BY <1>1
  <2>3. r[i + 1] = Share(r[i], asked[i + 1]) BY <1>3, <2>2
  <2>4. ShareInv(asked, Share(r[i], asked[i + 1]), i + 1)
    <3>1. i + 1 <= Len(asked) BY <1>1
    <3> QED BY <2>1, <3>1, ShareStep
  <2> QED BY <2>3, <2>4
<1> HIDE DEF T
<1>6. n \in T BY <1>1, <1>4, <1>5, NatSetInduction
<1>7. ShareInv(asked, r[n], n) BY <1>1, <1>6 DEF T
<1> HIDE DEF base
<1> QED BY <1>1, <1>2, <1>3, <1>7 DEF ShareInv

-----------------------------------------------------------------------------
(* The answer to a request *)

LEMMA FiniteBound ==
  ASSUME NEW S, S \subseteq Nat, IsFiniteSet(S)
  PROVE  \E n \in Nat : S \subseteq 0..n
<1>1. PICK m \in Nat : ExistsSurjection(1..m, S) BY FS_NatSurjection
<1>2. PICK f \in [1..m -> S] : \A t \in S : \E s \in 1..m : f[s] = t BY <1>1 DEF ExistsSurjection, Surjection
<1> DEFINE T == {k \in Nat : k <= m => \E n \in Nat : \A i \in 1..k : f[i] <= n}
<1>3. 0 \in T OBVIOUS
<1>4. ASSUME NEW k \in Nat, k \in T
      PROVE  k + 1 \in T
  <2> SUFFICES ASSUME k + 1 <= m
               PROVE  \E n \in Nat : \A i \in 1..(k + 1) : f[i] <= n
    OBVIOUS
  <2>1. PICK n \in Nat : \A i \in 1..k : f[i] <= n BY <1>4
  <2>2. f[k + 1] \in Nat /\ \A i \in 1..k : f[i] \in Nat
    <3>1. k + 1 \in 1..m /\ \A i \in 1..k : i \in 1..m OBVIOUS
    <3>2. \A i \in 1..m : f[i] \in Nat BY <1>2
    <3> QED BY <3>1, <3>2
  <2>3. PICK x \in Nat : x = f[k + 1] BY <2>2
  <2>4. n + x \in Nat /\ \A i \in 1..(k + 1) : f[i] <= n + x
    <3>1. \A i \in 1..(k + 1) : i \in 1..k \/ i = k + 1 OBVIOUS
    <3>2. \A i \in 1..k : f[i] <= n + x BY <2>1, <2>2, <2>3
    <3>3. f[k + 1] <= n + x BY <2>3
    <3> QED BY <3>1, <3>2, <3>3
  <2> QED BY <2>4
<1> HIDE DEF T
<1>5. m \in T BY <1>3, <1>4, NatSetInduction
<1>6. PICK n \in Nat : \A i \in 1..m : f[i] <= n BY <1>5 DEF T
<1>7. \A t \in S : t \in 0..n BY <1>2, <1>6
<1> QED BY <1>7

(* What a partition's part of an answer is, and what becomes of its cursor. *)
Serves(p, c, nstarved) ==
  \E budget \in Nat :
    /\ log[p].start <= cursors[p].next
    /\ c = Fill(p, AnswerTo(p, budget)) /\ c # TooLarge
    /\ p \notin nstarved => ~(AnswerTo(p, budget).sent = <<>> /\ cursors[p].next < end_for(p, scan.visibility))

LEMMA FetchServes ==
  ASSUME ScanInv, NEW b, FetchFrom(b)
  PROVE  /\ pc = "fetch" /\ b \in DOMAIN targets
         /\ UNCHANGED <<log, scan, events, completed, window, faults>>
         /\ \/ pc' = "failed" /\ UNCHANGED <<cursors, targets, starved>>
            \/ /\ pc' \in {"emit", "fetch"} /\ DOMAIN cursors' = Partitions
               /\ targets' = [a \in DOMAIN targets \ {b} |-> targets[a]]
               /\ starved \subseteq starved'
               /\ \A p \in Partitions \ targets[b] : cursors'[p] = cursors[p]
               /\ \A p \in targets[b] : Serves(p, cursors'[p], starved')
<1> DEFINE asked   == Ascending(targets[b])
           answers == Answers(asked)
           filled  == [i \in DOMAIN asked |-> Fill(asked[i], answers[i])]
           place(p) == CHOOSE i \in DOMAIN asked : asked[i] = p
           refused == \/ \E p \in targets[b] : cursors[p].next < log[p].start
                      \/ \E i \in DOMAIN asked : filled[i] = TooLarge
<1>1. /\ pc = "fetch" /\ b \in DOMAIN targets
      /\ UNCHANGED <<log, scan, events, completed, window, faults>>
      /\ IF refused THEN pc' = "failed" /\ UNCHANGED <<cursors, targets, starved>>
         ELSE /\ cursors' = [p \in Partitions |->
                    IF p \in targets[b] THEN filled[place(p)] ELSE cursors[p]]
              /\ targets' = [a \in DOMAIN targets \ {b} |-> targets[a]]
              /\ pc' = IF DOMAIN targets = {b} THEN "emit" ELSE "fetch"
              /\ starved' = starved \cup
                   { p \in targets[b] : answers[place(p)].sent = <<>>
                       /\ cursors[p].next < end_for(p, scan.visibility) }
  BY DEF FetchFrom
<1>2. targets[b] \subseteq Partitions BY <1>1 DEF ScanInv, TargetInv
<1>3. CASE refused BY <1>1, <1>3
<1>4. CASE ~refused
  <2>1. PICK n \in Nat : Partitions \subseteq 0..n BY ScanAssumption, FiniteBound
  <2>2. asked \in Seq(targets[b]) /\ \A x \in targets[b] : \E i \in DOMAIN asked : asked[i] = x
    <3>1. targets[b] \in SUBSET (0..n) BY <1>2, <2>1
    <3> QED BY <3>1, AscendingFacts
  <2> HIDE DEF asked
  <2>3. asked \in Seq(Partitions) /\ \A i \in DOMAIN asked : asked[i] \in targets[b]
    <3>1. Len(asked) \in Nat /\ DOMAIN asked = 1..Len(asked) /\ asked \in [1..Len(asked) -> targets[b]]
      BY <2>2
    <3> QED BY <1>2, <3>1
  <2>4. \A p \in Partitions : IsLog(log[p].batches) /\ cursors[p].next \in Nat /\ log[p].start \in Nat
    BY DEF ScanInv, PartitionInv, LogGood, CursorGood, CursorShape
  <2>5. \A i \in DOMAIN asked : \E budget \in Nat : answers[i] = AnswerTo(asked[i], budget)
    BY <2>3, <2>4, AnswersAre
  <2> HIDE DEF answers
  <2>6. /\ cursors' = [p \in Partitions |->
                    IF p \in targets[b] THEN filled[place(p)] ELSE cursors[p]]
        /\ targets' = [a \in DOMAIN targets \ {b} |-> targets[a]]
        /\ pc' \in {"emit", "fetch"}
        /\ starved' = starved \cup
             { p \in targets[b] : answers[place(p)].sent = <<>>
                 /\ cursors[p].next < end_for(p, scan.visibility) }
    BY <1>1, <1>4
  <2>7. ASSUME NEW p \in targets[b]
        PROVE  Serves(p, cursors'[p], starved')
    <3>1. PICK i : i = place(p) OBVIOUS
    <3>2. i \in DOMAIN asked /\ asked[i] = p BY <2>2, <3>1
    <3>3. PICK budget \in Nat : answers[i] = AnswerTo(p, budget) BY <2>5, <3>2
    <3>4. cursors'[p] = filled[i] /\ filled[i] = Fill(p, AnswerTo(p, budget)) BY <1>2, <2>6, <3>1, <3>2, <3>3
    <3>5. filled[i] # TooLarge BY <1>4, <3>2
    <3>6. log[p].start <= cursors[p].next BY <1>2, <1>4, <2>4
    <3>7. p \notin starved' => ~(AnswerTo(p, budget).sent = <<>> /\ cursors[p].next < end_for(p, scan.visibility))
      <4> HIDE DEF place, filled, refused
      <4> QED BY <2>6, <3>1, <3>3
    <3> HIDE DEF filled, refused
    <3> QED BY <3>4, <3>5, <3>6, <3>7 DEF Serves
  <2>8. \A p \in Partitions \ targets[b] : cursors'[p] = cursors[p] BY <2>6
  <2>9. DOMAIN cursors' = Partitions /\ starved \subseteq starved' BY <2>6
  <2> HIDE DEF filled, refused, place
  <2> QED BY <1>1, <2>6, <2>7, <2>8, <2>9
<1> QED BY <1>3, <1>4

-----------------------------------------------------------------------------
(* Steps that move no cursor *)

(* What does not depend on where the loop is.                              *)
Core ==
  /\ ScanShape
  /\ \A p \in Partitions : PartitionInv(p)
  /\ \A i \in DOMAIN events : EventInv(events[i])
  /\ LogOrder /\ NothingHidden /\ MergeOrder /\ MergeInv

LEMMA ScanInvIs ==
  ScanInv <=> Core /\ TargetInv /\ (pc = "done" => limit_reached \/ all_exhausted(cursors))
BY DEF ScanInv, Core

LEMMA ScanInvIsNext ==
  ScanInv' <=> Core' /\ TargetInv' /\ (pc' = "done" => limit_reached' \/ all_exhausted(cursors)')
BY DEF ScanInv, Core

LEMMA Unmoved ==
  ASSUME Core, pc # "off", UNCHANGED <<log, scan, cursors, events, starved>>,
         window' \in Nat, window' = 0 => window = 0,
         DOMAIN faults' = {"growth", "deletes", "failures"}, faults'.deletes = faults.deletes
  PROVE  Core'
<1>1. log' = log /\ scan' = scan /\ cursors' = cursors /\ events' = events /\ starved' = starved OBVIOUS
<1>2. ScanShape' BY <1>1 DEF Core, ScanShape
<1>3. ASSUME NEW p \in Partitions PROVE PartitionInv(p)' BY <1>1 DEF Core, PartitionInv
<1>4. ASSUME NEW i \in DOMAIN events' PROVE EventInv(events[i])'
  <2>1. EventInv(events[i]) BY <1>1 DEF Core
  <2> QED BY <1>1, <2>1 DEF EventInv
<1>5. LogOrder' BY <1>1 DEF Core, LogOrder
<1>6. NothingHidden' BY <1>1 DEF Core, NothingHidden
<1>7. MergeOrder' BY <1>1 DEF Core, MergeOrder
<1>8. MergeInv' BY <1>1 DEF Core, MergeInv, Exact
<1> QED BY <1>2, <1>3, <1>4, <1>5, <1>6, <1>7, <1>8 DEF Core

LEMMA LargerFacts ==
  ASSUME NEW x \in Nat, NEW y \in Nat
  PROVE  Larger(x, y) \in Nat /\ Larger(x, y) >= x /\ Larger(x, y) >= y
BY DEF Larger

Merging == { p \in Partitions : ~(exhausted(cursors[p]) /\ cursors[p].buffered = <<>>) }

LEMMA MergingFacts ==
  /\ Cardinality(Merging) \in Nat /\ IsFiniteSet(Merging) /\ Merging \subseteq Partitions
  /\ Cardinality(Merging) <= Cardinality(Partitions) /\ Cardinality(Partitions) \in Nat
<1>1. IsFiniteSet(Partitions) /\ Merging \subseteq Partitions BY ScanAssumption DEF Merging
<1>2. IsFiniteSet(Merging) /\ Cardinality(Merging) <= Cardinality(Partitions) BY <1>1, FS_Subset
<1> QED BY <1>1, <1>2, FS_CardinalityType

LEMMA DegradedFacts ==
  ASSUME ScanShape
  PROVE  /\ Degraded \in Nat /\ Degraded >= window
         /\ Cardinality(Merging) >= 2 /\ Cardinality(Merging) <= scan.ceiling => Degraded >= 1
<1>1. window \in Nat /\ scan.ceiling \in Nat BY ScanAssumption DEF ScanShape
<1>2. PICK m \in Nat : m = Cardinality(Merging) BY MergingFacts
<1>3. PICK w : w = reorder_window(scan.ceiling, m) OBVIOUS
<1>4. Degraded = Larger(window, w) BY <1>2, <1>3 DEF Degraded, Merging
<1>5. w = IF m <= 1 THEN 0 ELSE scan.ceiling \div m BY <1>3 DEF reorder_window
<1>6. w \in Nat
  <2>1. CASE m <= 1 BY <2>1, <1>5
  <2>2. CASE m > 1 BY <2>2, <1>5, <1>1
  <2> QED BY <2>1, <2>2
<1>7. m >= 2 /\ m <= scan.ceiling => w >= 1
  <2> SUFFICES ASSUME m >= 2, m <= scan.ceiling PROVE w >= 1 OBVIOUS
  <2>1. w = scan.ceiling \div m BY <1>5
  <2> QED BY <2>1, <1>1
<1> QED BY <1>1, <1>2, <1>4, <1>6, <1>7, LargerFacts

LEMMA DryFacts ==
  ASSUME NEW p \in Dry
  PROVE  /\ p \in Partitions /\ cursors[p].buffered = <<>>
         /\ ~scan.follow => ~exhausted(cursors[p])
BY DEF Dry, should_fetch

LEMMA RefillStep ==
  ASSUME ScanInv, StartRefill
  PROVE  ScanInv' /\ pc' # "off"
<1>1. /\ pc = "refill" /\ UNCHANGED <<log, scan, cursors, events, completed, starved, faults>>
      /\ \/ /\ limit_reached /\ pc' = "done"
            /\ UNCHANGED <<targets, window>>
         \/ /\ ~limit_reached /\ window' = Degraded /\ pc' = "emit" /\ UNCHANGED targets
         \/ /\ targets' = [b \in { scan.leader[p] : p \in Dry } |-> { p \in Dry : scan.leader[p] = b }]
            /\ pc' \in {"emit", "fetch"} /\ UNCHANGED window
  BY DEF StartRefill
<1>2. Core /\ ScanShape BY ScanInvIs DEF Core
<1>3. window' \in Nat /\ (window' = 0 => window = 0)
  <2>1. window \in Nat BY <1>2 DEF ScanShape
  <2>2. Degraded \in Nat /\ Degraded >= window BY <1>2, DegradedFacts
  <2> QED BY <2>1, <2>2, <1>1
<1>4. Core'
  <2>1. DOMAIN faults' = {"growth", "deletes", "failures"} /\ faults'.deletes = faults.deletes
    BY <1>1, <1>2 DEF ScanShape
  <2> QED BY <1>1, <1>2, <1>3, <2>1, Unmoved
<1>5. TargetInv'
  <2> SUFFICES ASSUME pc' = "fetch", NEW b \in DOMAIN targets', NEW p \in targets'[b]
               PROVE  /\ p \in Partitions /\ scan'.leader[p] = b /\ cursors'[p].buffered = <<>>
                      /\ ~scan'.follow => ~exhausted(cursors'[p])
    BY DEF TargetInv, exhausted
  <2>1. targets' = [a \in { scan.leader[q] : q \in Dry } |-> { q \in Dry : scan.leader[q] = a }] BY <1>1
  <2>2. p \in Dry /\ scan.leader[p] = b BY <2>1
  <2> QED BY <2>2, <1>1, DryFacts
<1>6. pc' = "done" => limit_reached' BY <1>1 DEF limit_reached, records_emitted
<1> QED BY <1>1, <1>4, <1>5, <1>6, ScanInvIsNext

LEMMA FetchFailsStep ==
  ASSUME ScanInv, FetchFails
  PROVE  ScanInv' /\ pc' # "off"
<1>1. /\ pc = "fetch" /\ pc' = "failed" /\ faults' = [faults EXCEPT !.failures = @ + 1]
      /\ UNCHANGED <<log, scan, cursors, events, starved, window>>
  BY DEF FetchFails
<1>2. Core /\ ScanShape BY ScanInvIs DEF Core
<1>3. window' \in Nat /\ (window' = 0 => window = 0) BY <1>1, <1>2 DEF ScanShape
<1>4. DOMAIN faults' = {"growth", "deletes", "failures"} /\ faults'.deletes = faults.deletes
  BY <1>1, <1>2 DEF ScanShape
<1>5. Core' BY <1>1, <1>2, <1>3, <1>4, Unmoved
<1>6. TargetInv' BY <1>1 DEF TargetInv
<1> QED BY <1>1, <1>5, <1>6, ScanInvIsNext

-----------------------------------------------------------------------------
(* The step that takes an answer *)

(* A partition it serves.                                                  *)
LEMMA ServedFills ==
  ASSUME ScanInv, pc = "fetch", NEW b \in DOMAIN targets, NEW p \in targets[b],
         NEW n, NEW nst, Serves(p, n, nst)
  PROVE  /\ p \in Partitions /\ cursors[p].buffered = <<>> /\ (~scan.follow => ~exhausted(cursors[p]))
         /\ \E answer :
              /\ Fills(log[p].batches, scan.visibility, scan.follow, cursors[p], n, answer)
              /\ p \notin nst => ~(answer.sent = <<>> /\ cursors[p].next < EndFor(log[p].batches, scan.visibility))
<1> DEFINE L == log[p].batches
           v == scan.visibility
           c == cursors[p]
<1>1. /\ p \in Partitions /\ c.buffered = <<>> /\ (~scan.follow => ~exhausted(c)) BY DEF ScanInv, TargetInv
<1>2. LogGood(p, log[p]) /\ CursorGood(p, log[p], v, c) /\ (c.finished => ~scan.follow)
  BY <1>1 DEF ScanInv, PartitionInv
<1>3. IsLog(L) /\ log[p].start \in Nat BY <1>2 DEF LogGood
<1>4. CursorShape(c) /\ c.start <= c.next /\ c.next <= LogEnd(L) /\ c.end <= LogEnd(L) BY <1>2 DEF CursorGood
<1>5. ~c.finished BY <1>1, <1>2 DEF exhausted
<1>6. scan.follow \in BOOLEAN BY ScanAssumption DEF ScanInv, ScanShape
<1>7. PICK budget \in Nat :
        /\ log[p].start <= c.next /\ n = Fill(p, AnswerTo(p, budget)) /\ n # TooLarge
        /\ p \notin nst => ~(AnswerTo(p, budget).sent = <<>> /\ c.next < end_for(p, v))
  BY DEF Serves
<1>8. PICK answer : answer = AnswerTo(p, budget) OBVIOUS
<1>9. answer = Answer(L, c.next, EndFor(L, v), budget) BY <1>8 DEF AnswerTo, end_for
<1>10. n = Refilled(L, log[p].start, c, v, scan.follow, answer) /\ n # TooLarge BY <1>7, <1>8, FillIs
<1>11. log[p].start <= c.next BY <1>7
<1> HIDE DEF L, v, c
<1>12. Fills(L, v, scan.follow, c, n, answer) BY <1>1, <1>3, <1>4, <1>5, <1>6, <1>9, <1>10, <1>11, Filled
<1>13. p \notin nst => ~(answer.sent = <<>> /\ c.next < EndFor(L, v)) BY <1>7, <1>8 DEF end_for, L
<1> QED BY <1>1, <1>12, <1>13 DEF L, v, c

(* What an answer makes of a cursor, and of the events before it.          *)
LEMMA FillKeeps ==
  ASSUME NEW p, NEW l, NEW v, NEW follow, NEW c, NEW n, NEW answer, NEW ev,
         LogGood(p, l), CursorGood(p, l, v, c), c.buffered = <<>>, Covered(p, l, v, c, ev),
         Fills(l.batches, v, follow, c, n, answer)
  PROVE  /\ CursorGood(p, l, v, n) /\ Covered(p, l, v, n, ev) /\ BufferShown(l, v, n)
         /\ n.start = c.start
         /\ \A e : e.o \in Nat /\ Before(e, c, l.whole) => Before(e, n, l.whole)
<1> DEFINE L == l.batches
<1>1. IsLog(L) /\ (l.whole => TailsIntact(L)) /\ \A i \in DOMAIN L : L[i].offs \subseteq DOMAIN Timestamps[p]
  BY DEF LogGood
<1>2. /\ CursorShape(n) /\ n.start = c.start /\ c.next <= n.next
      /\ n.next <= LogEnd(L) /\ n.end <= LogEnd(L) /\ Rising(n.buffered)
  BY DEF Fills
<1>3. \A k \in DOMAIN n.buffered :
        /\ n.buffered[k].offset < n.next
        /\ n.buffered[k].ok => n.buffered[k].offset >= c.start
                               /\ n.buffered[k].offset \in VisibleOffsets(L, v)
  BY DEF Fills
<1>4. l.whole => /\ Aligned(L, v, n)
                 /\ \A k \in DOMAIN n.buffered : n.buffered[k].ok => n.buffered[k].offset >= c.next
  BY <1>1 DEF Fills, CursorGood
<1>5. \A o \in VisibleOffsets(L, v) :
        c.start <= o /\ c.next <= o /\ o < n.next => Has(n.buffered, o)
  BY DEF Fills
<1>6. CursorShape(c) /\ c.start <= c.next BY DEF CursorGood
<1>7. c.next \in Nat /\ n.next \in Nat /\ c.start \in Nat /\ n.buffered \in Seq(Outcome)
  BY <1>2, <1>6 DEF CursorShape
<1> HIDE DEF L
<1>8. \A o \in VisibleOffsets(L, v) : o \in DOMAIN Timestamps[p] /\ o \in Nat
  <2> SUFFICES ASSUME NEW o \in VisibleOffsets(L, v) PROVE o \in DOMAIN Timestamps[p] /\ o \in Nat OBVIOUS
  <2>1. o \in Nat BY <1>1, VisibleNat
  <2>2. \E m \in DOMAIN L : o \in L[m].offs BY VisibleIs
  <2> QED BY <2>1, <2>2, <1>1
<1>9. CursorGood(p, l, v, n)
  <2>1. n.start <= n.next BY <1>2, <1>6, <1>7
  <2> QED BY <2>1, <1>2, <1>3, <1>4, <1>8 DEF CursorGood, L
<1>10. Covered(p, l, v, n, ev)
  <2> SUFFICES ASSUME NEW o \in VisibleOffsets(L, v) \ Rejected, n.start <= o, o < n.next
               PROVE  YieldedIn(ev, p, o) \/ Has(n.buffered, o)
    BY DEF Covered, L
  <2>1. o \in Nat /\ c.start <= o BY <1>8, <1>2
  <2>2. CASE o < c.next
    <3>1. YieldedIn(ev, p, o) \/ Has(c.buffered, o) BY <2>1, <2>2 DEF Covered, L
    <3> QED BY <3>1 DEF Has
  <2>3. CASE c.next <= o BY <2>1, <2>3, <1>5
  <2> QED BY <2>1, <2>2, <2>3, <1>7
<1>11. BufferShown(l, v, n) BY <1>3 DEF BufferShown, L
<1>12. ASSUME NEW e, e.o \in Nat, Before(e, c, l.whole)
       PROVE  Before(e, n, l.whole)
  <2> SUFFICES ASSUME e.ok
               PROVE  /\ e.o < n.next
                      /\ l.whole => \A k \in DOMAIN n.buffered : n.buffered[k].ok => e.o < n.buffered[k].offset
    BY DEF Before
  <2>1. e.o < c.next /\ e.o \in Nat BY <1>12 DEF Before
  <2>2. e.o < n.next BY <2>1, <1>2, <1>7
  <2>3. ASSUME l.whole, NEW k \in DOMAIN n.buffered, n.buffered[k].ok
        PROVE  e.o < n.buffered[k].offset
    <3>1. n.buffered[k] \in Outcome BY <1>7
    <3>2. n.buffered[k].offset \in Nat BY <3>1 DEF Outcome
    <3>3. n.buffered[k].offset >= c.next BY <2>3, <1>4
    <3> QED BY <2>1, <3>2, <3>3, <1>7
  <2> QED BY <2>2, <2>3
<1> QED BY <1>2, <1>9, <1>10, <1>11, <1>12

(* Nothing an answer brings lies before what was yielded.                  *)
LEMMA FillLater ==
  ASSUME NEW p \in Partitions, NEW l, NEW v, NEW follow, NEW c, NEW n, NEW answer, NEW ts,
         LogGood(p, l), CursorGood(p, l, v, c), CursorGood(p, l, v, n), l.whole, ~exhausted(c), Later(p, ts, c),
         Fills(l.batches, v, follow, c, n, answer)
  PROVE  Later(p, ts, n)
<1>1. \A o \in DOMAIN Timestamps[p] : o >= c.next => Timestamps[p][o] >= ts BY DEF Later
<1>2. c.next <= n.next /\ c.next \in Nat /\ n.next \in Nat /\ n.buffered \in Seq(Outcome)
  BY DEF Fills, CursorGood, CursorShape
<1>3. \A k \in DOMAIN n.buffered : n.buffered[k].ok => n.buffered[k].offset >= c.next
                                                       /\ n.buffered[k].offset \in DOMAIN Timestamps[p]
  BY DEF Fills, LogGood, CursorGood
<1>4. \A k \in DOMAIN n.buffered : n.buffered[k].ok => Timestamps[p][n.buffered[k].offset] >= ts BY <1>1, <1>3
<1>5. ASSUME NEW o \in DOMAIN Timestamps[p], o >= n.next PROVE Timestamps[p][o] >= ts
  <2>1. o \in Nat BY ScanAssumption
  <2> QED BY <1>1, <1>2, <1>5, <2>1
<1> QED BY <1>4, <1>5 DEF Later

LEMMA FetchStep ==
  ASSUME ScanInv, NEW b, FetchFrom(b)
  PROVE  ScanInv' /\ pc' # "off"
<1>1. /\ pc = "fetch" /\ b \in DOMAIN targets
      /\ log' = log /\ scan' = scan /\ events' = events /\ window' = window /\ faults' = faults
      /\ \/ pc' = "failed" /\ UNCHANGED <<cursors, targets, starved>>
         \/ /\ pc' \in {"emit", "fetch"} /\ DOMAIN cursors' = Partitions
            /\ targets' = [a \in DOMAIN targets \ {b} |-> targets[a]]
            /\ starved \subseteq starved'
            /\ \A p \in Partitions \ targets[b] : cursors'[p] = cursors[p]
            /\ \A p \in targets[b] : Serves(p, cursors'[p], starved')
  BY FetchServes
<1>2. Core /\ ScanShape BY ScanInvIs DEF Core
<1>3. CASE pc' = "failed" /\ UNCHANGED <<cursors, targets, starved>>
  <2>1. window' \in Nat /\ (window' = 0 => window = 0) BY <1>1, <1>2 DEF ScanShape
  <2>2. DOMAIN faults' = {"growth", "deletes", "failures"} /\ faults'.deletes = faults.deletes
    BY <1>1, <1>2 DEF ScanShape
  <2>3. Core' BY <1>1, <1>2, <1>3, <2>1, <2>2, Unmoved
  <2>4. TargetInv' BY <1>3 DEF TargetInv
  <2> QED BY <1>3, <2>3, <2>4, ScanInvIsNext
<1>4. CASE /\ pc' \in {"emit", "fetch"} /\ DOMAIN cursors' = Partitions
           /\ targets' = [a \in DOMAIN targets \ {b} |-> targets[a]]
           /\ starved \subseteq starved'
           /\ \A p \in Partitions \ targets[b] : cursors'[p] = cursors[p]
           /\ \A p \in targets[b] : Serves(p, cursors'[p], starved')
  <2> DEFINE v == scan.visibility
  <2>1. \A p \in Partitions : PartitionInv(p) BY DEF ScanInv
  <2>2. ASSUME NEW p \in targets[b]
        PROVE  /\ p \in Partitions /\ cursors[p].buffered = <<>> /\ (~scan.follow => ~exhausted(cursors[p]))
               /\ \E answer :
                    /\ Fills(log[p].batches, v, scan.follow, cursors[p], cursors'[p], answer)
                    /\ p \notin starved' => ~(answer.sent = <<>> /\ cursors[p].next < EndFor(log[p].batches, v))
    <3>1. Serves(p, cursors'[p], starved') BY <1>4
    <3> QED BY <3>1, <1>1, ServedFills
  <2>3. ASSUME NEW p \in targets[b]
        PROVE  /\ p \in Partitions
               /\ CursorGood(p, log[p], v, cursors'[p]) /\ Covered(p, log[p], v, cursors'[p], events)
               /\ BufferShown(log[p], v, cursors'[p]) /\ cursors'[p].start = cursors[p].start
               /\ \A e : e.o \in Nat /\ Before(e, cursors[p], log[p].whole) => Before(e, cursors'[p], log[p].whole)
               /\ cursors'[p].finished => ~scan.follow
               /\ cursors'[p].finished /\ p \notin starved' => ReadOut(log[p], v, cursors'[p])
    <3>1. p \in Partitions /\ cursors[p].buffered = <<>> BY <2>2
    <3>2. PICK answer :
            /\ Fills(log[p].batches, v, scan.follow, cursors[p], cursors'[p], answer)
            /\ p \notin starved' => ~(answer.sent = <<>> /\ cursors[p].next < EndFor(log[p].batches, v))
      BY <2>2
    <3>3. /\ LogGood(p, log[p]) /\ CursorGood(p, log[p], v, cursors[p])
          /\ Covered(p, log[p], v, cursors[p], events)
      BY <2>1, <3>1 DEF PartitionInv
    <3>4. Fills(log[p].batches, v, scan.follow, cursors[p], cursors'[p], answer) BY <3>2
    <3> HIDE DEF v
    <3>5. /\ CursorGood(p, log[p], v, cursors'[p]) /\ Covered(p, log[p], v, cursors'[p], events)
          /\ BufferShown(log[p], v, cursors'[p]) /\ cursors'[p].start = cursors[p].start
          /\ \A e : e.o \in Nat /\ Before(e, cursors[p], log[p].whole) => Before(e, cursors'[p], log[p].whole)
      <4> DEFINE l == log[p]
                 c == cursors[p]
                 n == cursors'[p]
      <4>1. c.buffered = <<>> /\ LogGood(p, l) /\ CursorGood(p, l, v, c) /\ Covered(p, l, v, c, events)
        BY <3>1, <3>3
      <4>2. Fills(l.batches, v, scan.follow, c, n, answer) BY <3>4
      <4> HIDE DEF l, c, n
      <4>3. /\ CursorGood(p, l, v, n) /\ Covered(p, l, v, n, events) /\ BufferShown(l, v, n)
            /\ n.start = c.start
            /\ \A e : e.o \in Nat /\ Before(e, c, l.whole) => Before(e, n, l.whole)
        BY <4>1, <4>2, FillKeeps
      <4> QED BY <4>3 DEF l, c, n
    <3>6. cursors'[p].finished => ~scan.follow BY <3>4 DEF Fills
    <3>7. cursors'[p].finished /\ p \notin starved' => ReadOut(log[p], v, cursors'[p])
      BY <3>2 DEF Fills, ReadOut
    <3> QED BY <3>1, <3>5, <3>6, <3>7
  <2>4. ScanShape' BY <1>1, <1>2, <1>4 DEF ScanShape
  <2>5. ASSUME NEW p \in Partitions PROVE PartitionInv(p)'
    <3>1. CASE p \in targets[b]
      <4>1. LogGood(p, log[p]) BY <2>1 DEF PartitionInv
      <4>2. /\ CursorGood(p, log[p], v, cursors'[p]) /\ Covered(p, log[p], v, cursors'[p], events)
            /\ BufferShown(log[p], v, cursors'[p])
            /\ cursors'[p].finished => ~scan.follow
            /\ cursors'[p].finished /\ p \notin starved' => ReadOut(log[p], v, cursors'[p])
        BY <3>1, <2>3
      <4> QED BY <4>1, <4>2, <1>1 DEF PartitionInv
    <3>2. CASE p \notin targets[b]
      <4>1. cursors'[p] = cursors[p] BY <3>2, <1>4
      <4>2. p \notin starved' => p \notin starved BY <1>4
      <4> QED BY <4>1, <4>2, <1>1, <2>1 DEF PartitionInv
    <3> QED BY <3>1, <3>2
  <2>6. \A p \in Partitions : cursors'[p].start = cursors[p].start BY <2>3, <1>4
  <2>7. \A i \in DOMAIN events : events[i] \in Event /\ EventInv(events[i]) /\ events[i].p \in Partitions /\ events[i].o \in Nat
    BY DEF ScanInv, EventInv, Event
  <2>8. ASSUME NEW i \in DOMAIN events' PROVE EventInv(events[i])'
    <3>1. PICK e : e = events[i] OBVIOUS
    <3>2. e \in Event /\ EventInv(e) /\ e.p \in Partitions /\ e.o \in Nat BY <3>1, <2>7, <1>1
    <3>3. Before(e, cursors[e.p], log[e.p].whole) BY <3>2 DEF EventInv
    <3>4. Before(e, cursors'[e.p], log[e.p].whole)
      <4>1. CASE e.p \in targets[b] BY <4>1, <2>3, <3>2, <3>3
      <4>2. CASE e.p \notin targets[b] BY <4>2, <3>2, <3>3, <1>4
      <4> QED BY <4>1, <4>2
    <3>5. events'[i] = e BY <3>1, <1>1
    <3> QED BY <3>2, <3>4, <3>5, <1>1 DEF EventInv
  <2>9. LogOrder' BY <1>1 DEF ScanInv, LogOrder
  <2>10. NothingHidden'
    <3>1. NothingHidden BY DEF ScanInv
    <3> SUFFICES ASSUME faults.deletes = 0, NEW i \in DOMAIN events, events[i].ok
                 PROVE  /\ events[i].o \in VisibleOffsets(log[events[i].p].batches, scan.visibility)
                        /\ events[i].o >= cursors'[events[i].p].start /\ events[i].o \notin Rejected
      BY <1>1 DEF NothingHidden
    <3> QED BY <3>1, <2>6, <2>7 DEF NothingHidden
  <2>11. MergeOrder' BY <1>1 DEF ScanInv, MergeOrder
  <2>12. MergeInv'
    <3>1. MergeInv BY DEF ScanInv
    <3> SUFFICES ASSUME Exact, NEW i \in DOMAIN events, events[i].ok, NEW q \in Partitions \ {events[i].p},
                        log[q].whole, Chronological(q)
                 PROVE  Later(q, Timestamps[events[i].p][events[i].o], cursors'[q])
      BY <1>1 DEF MergeInv, Exact, Chronological
    <3>2. PICK ts : ts = Timestamps[events[i].p][events[i].o] OBVIOUS
    <3>3. Later(q, ts, cursors[q]) BY <3>1, <3>2 DEF MergeInv
    <3>4. CASE q \in targets[b]
      <4>1. ~exhausted(cursors[q]) BY <3>4, <2>2 DEF Exact
      <4>2. PICK answer : Fills(log[q].batches, v, scan.follow, cursors[q], cursors'[q], answer) BY <3>4, <2>2
      <4>3. LogGood(q, log[q]) /\ CursorGood(q, log[q], v, cursors[q]) BY <2>1 DEF PartitionInv
      <4>4. CursorGood(q, log[q], v, cursors'[q]) BY <3>4, <2>3
      <4> HIDE DEF v
      <4>5. Later(q, ts, cursors'[q]) BY <4>1, <4>2, <4>3, <4>4, <3>3, FillLater
      <4> QED BY <4>5, <3>2
    <3>5. CASE q \notin targets[b] BY <3>5, <3>2, <3>3, <1>4
    <3> QED BY <3>4, <3>5
  <2>13. TargetInv'
    <3> SUFFICES ASSUME pc' = "fetch", NEW a \in DOMAIN targets', NEW p \in targets'[a]
                 PROVE  /\ p \in Partitions /\ scan'.leader[p] = a /\ cursors'[p].buffered = <<>>
                        /\ ~scan'.follow => ~exhausted(cursors'[p])
      BY DEF TargetInv, exhausted
    <3>1. a \in DOMAIN targets /\ a # b /\ p \in targets[a] BY <1>4
    <3>2. /\ p \in Partitions /\ scan.leader[p] = a /\ cursors[p].buffered = <<>>
          /\ ~scan.follow => ~exhausted(cursors[p])
      BY <3>1, <1>1 DEF ScanInv, TargetInv
    <3>3. p \notin targets[b] BY <3>1, <3>2, <1>1 DEF ScanInv, TargetInv
    <3>4. cursors'[p] = cursors[p] BY <3>2, <3>3, <1>4
    <3> QED BY <3>2, <3>4, <1>1
  <2>14. Core' BY <2>4, <2>5, <2>8, <2>9, <2>10, <2>11, <2>12 DEF Core
  <2> QED BY <2>13, <2>14, <1>4, ScanInvIsNext
<1> QED BY <1>1, <1>3, <1>4

-----------------------------------------------------------------------------
(* The step that yields *)

LEMMA TailIndex ==
  ASSUME NEW S, NEW s \in Seq(S), s # <<>>
  PROVE  /\ Tail(s) \in Seq(S) /\ DOMAIN Tail(s) = 1..(Len(s) - 1) /\ Len(s) \in Nat /\ Len(s) >= 1
         /\ DOMAIN s = 1..Len(s) /\ 1 \in DOMAIN s /\ Head(s) = s[1] /\ Head(s) \in S
         /\ \A k \in DOMAIN Tail(s) : k \in Nat /\ k >= 1 /\ k + 1 \in DOMAIN s /\ Tail(s)[k] = s[k + 1]
         /\ \A k \in DOMAIN s : k \in Nat /\ (k = 1 \/ (k > 1 /\ k - 1 \in DOMAIN Tail(s) /\ Tail(s)[k - 1] = s[k]))
OBVIOUS

Popped(c, n) ==
  /\ CursorShape(n) /\ n.next = c.next /\ n.end = c.end /\ n.start = c.start
  /\ n.finished = c.finished /\ n.buffered = Tail(c.buffered)

LEMMA PopShape ==
  ASSUME NEW c, CursorShape(c), c.buffered # <<>>, NEW n, n = [c EXCEPT !.buffered = Tail(@)]
  PROVE  Popped(c, n)
<1>1. c.buffered \in Seq(Outcome) BY DEF CursorShape
<1>2. Tail(c.buffered) \in Seq(Outcome) BY <1>1
<1> QED BY <1>2 DEF CursorShape, Popped

(* The first of a buffer, and the buffer without it.                       *)
LEMMA PopFacts ==
  ASSUME NEW p, NEW l, NEW v, NEW c, CursorGood(p, l, v, c), c.buffered # <<>>,
         NEW n, Popped(c, n), NEW o, o = Head(c.buffered)
  PROVE  /\ o \in Outcome /\ o.offset \in Nat /\ o.offset < c.next /\ c.next \in Nat
         /\ o.ok => o.offset >= c.start /\ o.offset \in DOMAIN Timestamps[p]
         /\ \A k \in DOMAIN n.buffered : o.offset < n.buffered[k].offset
         /\ \A k \in DOMAIN n.buffered : \E m \in DOMAIN c.buffered : n.buffered[k] = c.buffered[m]
         /\ \A m \in DOMAIN c.buffered : c.buffered[m] = o \/ \E k \in DOMAIN n.buffered : n.buffered[k] = c.buffered[m]
         /\ 1 \in DOMAIN c.buffered /\ c.buffered[1] = o
         /\ CursorGood(p, l, v, n)
<1> DEFINE s == c.buffered
           t == n.buffered
<1>1. s \in Seq(Outcome) /\ c.next \in Nat BY DEF CursorGood, CursorShape
<1>2. t = Tail(s) /\ CursorShape(n) /\ n.next = c.next /\ n.end = c.end /\ n.start = c.start BY DEF Popped
<1>3. /\ Rising(s)
      /\ \A k \in DOMAIN s : /\ s[k].offset < c.next
                             /\ s[k].ok => s[k].offset >= c.start /\ s[k].offset \in DOMAIN Timestamps[p]
  BY DEF CursorGood
<1>4. s # <<>> /\ o = Head(s) OBVIOUS
<1> HIDE DEF s, t
<1>5. /\ t \in Seq(Outcome) /\ DOMAIN t = 1..(Len(s) - 1) /\ Len(s) \in Nat /\ Len(s) >= 1
      /\ DOMAIN s = 1..Len(s) /\ 1 \in DOMAIN s /\ o = s[1] /\ o \in Outcome
      /\ \A k \in DOMAIN t : k \in Nat /\ k >= 1 /\ k + 1 \in DOMAIN s /\ t[k] = s[k + 1]
      /\ \A k \in DOMAIN s : k \in Nat /\ (k = 1 \/ (k > 1 /\ k - 1 \in DOMAIN t /\ t[k - 1] = s[k]))
  BY <1>1, <1>2, <1>4, TailIndex
<1>6. o.offset \in Nat /\ o.offset < c.next /\ (o.ok => o.offset >= c.start /\ o.offset \in DOMAIN Timestamps[p])
  BY <1>3, <1>5 DEF Outcome
<1>7. ASSUME NEW k \in DOMAIN t PROVE o.offset < t[k].offset
  <2>1. k + 1 \in DOMAIN s /\ 1 \in DOMAIN s /\ 1 < k + 1 /\ t[k] = s[k + 1] BY <1>5
  <2> QED BY <2>1, <1>3, <1>5 DEF Rising
<1>8. Rising(t)
  <2> SUFFICES ASSUME NEW j \in DOMAIN t, NEW k \in DOMAIN t, j < k PROVE t[j].offset < t[k].offset
    BY DEF Rising
  <2>1. j + 1 \in DOMAIN s /\ k + 1 \in DOMAIN s /\ j + 1 < k + 1 /\ t[k] = s[k + 1] /\ t[j] = s[j + 1]
    BY <1>5
  <2> QED BY <2>1, <1>3 DEF Rising
<1>9. \A k \in DOMAIN t : \E m \in DOMAIN s : t[k] = s[m] BY <1>5
<1>10. \A m \in DOMAIN s : s[m] = o \/ \E k \in DOMAIN t : t[k] = s[m] BY <1>5
<1>11. CursorGood(p, l, v, n)
  <2>1. n.start <= n.next /\ n.next <= LogEnd(l.batches) /\ n.end <= LogEnd(l.batches) BY <1>2 DEF CursorGood
  <2>2. l.whole => Aligned(l.batches, v, n)
    <3>1. l.whole => Aligned(l.batches, v, c) BY DEF CursorGood
    <3> QED BY <3>1, <1>2 DEF Aligned
  <2>3. \A k \in DOMAIN t : /\ t[k].offset < n.next
                            /\ t[k].ok => t[k].offset >= n.start /\ t[k].offset \in DOMAIN Timestamps[p]
    BY <1>2, <1>3, <1>9
  <2> QED BY <2>1, <2>2, <2>3, <1>2, <1>8 DEF CursorGood, t
<1> QED BY <1>1, <1>5, <1>6, <1>7, <1>9, <1>10, <1>11 DEF s, t

LEMMA PopCovered ==
  ASSUME NEW p, NEW l, NEW v, NEW c, CursorGood(p, l, v, c), c.buffered # <<>>,
         NEW n, Popped(c, n), NEW o, o = Head(c.buffered), NEW ev, NEW ev2, Covered(p, l, v, c, ev),
         \A x : YieldedIn(ev, p, x) => YieldedIn(ev2, p, x),
         o.ok /\ o.offset \notin Rejected => YieldedIn(ev2, p, o.offset)
  PROVE  Covered(p, l, v, n, ev2)
<1> SUFFICES ASSUME NEW x \in VisibleOffsets(l.batches, v) \ Rejected, n.start <= x, x < n.next
             PROVE  YieldedIn(ev2, p, x) \/ Has(n.buffered, x)
  BY DEF Covered
<1>1. n.start = c.start /\ n.next = c.next BY DEF Popped
<1>2. YieldedIn(ev, p, x) \/ Has(c.buffered, x) BY <1>1 DEF Covered
<1>3. CASE Has(c.buffered, x)
  <2>1. PICK m \in DOMAIN c.buffered : c.buffered[m].ok /\ c.buffered[m].offset = x BY <1>3 DEF Has
  <2>2. c.buffered[m] = o \/ \E k \in DOMAIN n.buffered : n.buffered[k] = c.buffered[m] BY PopFacts
  <2>3. CASE c.buffered[m] = o BY <2>1, <2>3
  <2>4. CASE \E k \in DOMAIN n.buffered : n.buffered[k] = c.buffered[m] BY <2>1, <2>4 DEF Has
  <2> QED BY <2>2, <2>3, <2>4
<1> QED BY <1>2, <1>3

LEMMA PopBefore ==
  ASSUME NEW p, NEW l, NEW v, NEW c, CursorGood(p, l, v, c), c.buffered # <<>>,
         NEW n, Popped(c, n), NEW e, Before(e, c, l.whole)
  PROVE  Before(e, n, l.whole)
<1>1. n.next = c.next BY DEF Popped
<1>2. \A k \in DOMAIN n.buffered : \E m \in DOMAIN c.buffered : n.buffered[k] = c.buffered[m] BY PopFacts
<1> QED BY <1>1, <1>2 DEF Before

LEMMA PopLater ==
  ASSUME NEW p, NEW l, NEW v, NEW c, CursorGood(p, l, v, c), c.buffered # <<>>,
         NEW n, Popped(c, n), NEW ts, Later(p, ts, c)
  PROVE  Later(p, ts, n)
<1>1. n.next = c.next /\ n.end = c.end /\ n.finished = c.finished BY DEF Popped
<1>2. \A k \in DOMAIN n.buffered : \E m \in DOMAIN c.buffered : n.buffered[k] = c.buffered[m] BY PopFacts
<1> QED BY <1>1, <1>2 DEF Later, exhausted

(* The heads of the buffers have a least one.                              *)
Ahead(p, q) ==
  \/ head_timestamp(p) < head_timestamp(q)
  \/ head_timestamp(p) = head_timestamp(q) /\ p <= q

LEMMA HeadTime ==
  ASSUME ScanInv, NEW p \in Partitions, cursors[p].buffered # <<>>
  PROVE  /\ head_timestamp(p) + 1 \in Nat /\ head_timestamp(p) \in Int
         /\ Head(cursors[p].buffered).ok => head_timestamp(p) = Timestamps[p][Head(cursors[p].buffered).offset]
         /\ ~Head(cursors[p].buffered).ok => head_timestamp(p) = -1
<1> DEFINE c == cursors[p]
<1>1. PICK o : o = Head(c.buffered) OBVIOUS
<1>2. CursorGood(p, log[p], scan.visibility, c) BY DEF ScanInv, PartitionInv
<1>3. c.buffered \in Seq(Outcome) BY <1>2 DEF CursorGood, CursorShape
<1>4. o = c.buffered[1] /\ 1 \in DOMAIN c.buffered BY <1>1, <1>3
<1>5. o.ok => o.offset \in DOMAIN Timestamps[p] BY <1>2, <1>4 DEF CursorGood
<1>6. o.ok => Timestamps[p][o.offset] \in Nat BY <1>5, ScanAssumption
<1>7. head_timestamp(p) = IF o.ok THEN Timestamps[p][o.offset] ELSE -1 BY <1>1 DEF head_timestamp
<1>8. PICK h : h = head_timestamp(p) OBVIOUS
<1>9. (o.ok => h = Timestamps[p][o.offset]) /\ (~o.ok => h = -1) BY <1>7, <1>8
<1>10. h + 1 \in Nat /\ h \in Int
  <2>1. CASE o.ok BY <2>1, <1>6, <1>9
  <2>2. CASE ~o.ok BY <2>2, <1>9
  <2> QED BY <2>1, <2>2
<1> QED BY <1>1, <1>8, <1>9, <1>10

LEMMA ChoiceFacts ==
  ASSUME ScanInv, \E p \in Partitions : cursors[p].buffered # <<>>
  PROVE  /\ Choice \in Partitions /\ cursors[Choice].buffered # <<>>
         /\ \A q \in Partitions : cursors[q].buffered # <<>> => Ahead(Choice, q)
<1> DEFINE B == {p \in Partitions : cursors[p].buffered # <<>>}
           T == {head_timestamp(p) + 1 : p \in B}
<1>1. \A p \in B : head_timestamp(p) + 1 \in Nat /\ head_timestamp(p) \in Int BY HeadTime
<1>2. T \subseteq Nat /\ T # {} BY <1>1
<1>3. PICK t \in T : \A y \in T : t <= y BY <1>2, LeastOf
<1> DEFINE P == {p \in B : head_timestamp(p) + 1 = t}
<1>4. P \subseteq Nat /\ P # {} BY ScanAssumption
<1>5. PICK p \in P : \A q \in P : p <= q BY <1>4, LeastOf
<1>6. ASSUME NEW q \in Partitions, cursors[q].buffered # <<>>
      PROVE  Ahead(p, q)
  <2>1. q \in B /\ p \in B /\ head_timestamp(p) + 1 = t BY <1>6
  <2>2. head_timestamp(q) + 1 \in T BY <2>1
  <2>3. t <= head_timestamp(q) + 1 BY <2>2, <1>3
  <2>4. head_timestamp(q) \in Int /\ head_timestamp(p) \in Int BY <2>1, <1>1
  <2>5. head_timestamp(q) = head_timestamp(p) => p <= q BY <2>1, <1>5
  <2>6. PICK x \in Int, y \in Int : x = head_timestamp(p) /\ y = head_timestamp(q) BY <2>4
  <2>7. x <= y BY <2>1, <2>3, <2>6
  <2> QED BY <2>5, <2>6, <2>7 DEF Ahead
<1>7. \E z \in Partitions : /\ cursors[z].buffered # <<>>
                            /\ \A q \in Partitions : cursors[q].buffered # <<>> => Ahead(z, q)
  BY <1>5, <1>6
<1> HIDE DEF B, T, P
<1> QED BY <1>7 DEF Choice, Ahead

(* What emit_next does when it yields from partition p.                    *)
Yields(p, o) ==
  /\ cursors[p].buffered # <<>> /\ o = Head(cursors[p].buffered)
  /\ \A q \in Partitions : cursors[q].buffered # <<>> => Ahead(p, q)
  /\ DOMAIN cursors' = Partitions /\ Popped(cursors[p], cursors'[p])
  /\ \A q \in Partitions \ {p} : cursors'[q] = cursors[q]
  /\ events' = IF ~(o.ok /\ o.offset \in Rejected)
               THEN Append(events, [p |-> p, o |-> o.offset, ok |-> o.ok]) ELSE events
  /\ waiting_on_empty_partition /\ Cardinality(Partitions) <= scan.ceiling => window' >= 1

LEMMA EmitIs ==
  ASSUME ScanInv, EmitNext
  PROVE  /\ pc = "emit" /\ log' = log /\ scan' = scan /\ starved' = starved /\ faults' = faults
         /\ window' \in Nat /\ (window' = 0 => window = 0)
         /\ pc' \in {"done", "refill"}
         /\ pc' = "done" => all_exhausted(cursors)'
         /\ \/ UNCHANGED <<cursors, events>>
            \/ \E p \in Partitions : \E o : Yields(p, o)
<1> DEFINE full == waiting_on_empty_partition /\ buffered_total >= scan.ceiling
<1>1. /\ pc = "emit" /\ log' = log /\ scan' = scan /\ starved' = starved /\ faults' = faults
      /\ window' = IF full THEN Degraded ELSE window
  BY DEF EmitNext
<1>2. ScanShape /\ \A p \in Partitions : CursorGood(p, log[p], scan.visibility, cursors[p])
  BY DEF ScanInv, PartitionInv
<1>3. window \in Nat /\ Degraded \in Nat /\ Degraded >= window BY <1>2, DegradedFacts DEF ScanShape
<1>4. window' \in Nat /\ (window' = 0 => window = 0) BY <1>1, <1>3
<1>5. CASE ~MayEmit
  <2>1. /\ pc' = IF all_exhausted(cursors) THEN "done" ELSE "refill"
        /\ UNCHANGED <<cursors, events, completed>>
    BY <1>5 DEF EmitNext
  <2>2. pc' = "done" => all_exhausted(cursors)' BY <2>1, <1>1 DEF all_exhausted, exhausted
  <2> QED BY <1>1, <1>4, <2>1, <2>2
<1>6. CASE MayEmit
  <2> DEFINE p == Choice
             o == Head(cursors[p].buffered)
             c == [cursors[p] EXCEPT !.buffered = Tail(@)]
             matches == ~(o.ok /\ o.offset \in Rejected)
             drained == exhausted(c) /\ c.buffered = <<>> /\ ~scan.follow
  <2>1. /\ cursors' = [cursors EXCEPT ![p] = c]
        /\ events' = IF matches
                     THEN Append(events, [p |-> p, o |-> o.offset, ok |-> o.ok])
                     ELSE events
        /\ pc' = IF ~matches /\ ~drained /\ all_exhausted(cursors')
                 THEN "done" ELSE "refill"
    BY <1>6 DEF EmitNext
  <2>2. (\E q \in Partitions : cursors[q].buffered # <<>>) /\ (~waiting_on_empty_partition \/ buffered_total >= scan.ceiling)
    BY <1>6 DEF MayEmit
  <2>3. /\ p \in Partitions /\ cursors[p].buffered # <<>>
        /\ \A q \in Partitions : cursors[q].buffered # <<>> => Ahead(p, q)
    BY <2>2, ChoiceFacts
  <2>4. all_exhausted(cursors') => all_exhausted(cursors)' BY <1>1 DEF all_exhausted, exhausted
  <2>5. pc' \in {"done", "refill"} /\ (pc' = "done" => all_exhausted(cursors)')
    <3> HIDE DEF matches, drained
    <3> QED BY <2>1, <2>4
  <2>6. DOMAIN cursors = Partitions BY <1>2 DEF ScanShape
  <2>7. DOMAIN cursors' = Partitions /\ cursors'[p] = c /\ \A q \in Partitions \ {p} : cursors'[q] = cursors[q]
    <3> HIDE DEF c, p
    <3> QED BY <2>1, <2>3, <2>6
  <2>8. Popped(cursors[p], cursors'[p])
    <3>1. CursorShape(cursors[p]) BY <1>2, <2>3 DEF CursorGood
    <3> QED BY <2>3, <2>7, <3>1, PopShape
  <2>9. ASSUME waiting_on_empty_partition, Cardinality(Partitions) <= scan.ceiling
        PROVE  window' >= 1
    <3>1. PICK w \in Partitions : ~exhausted(cursors[w]) /\ cursors[w].buffered = <<>>
      BY <2>9 DEF waiting_on_empty_partition
    <3>2. w \in Merging /\ p \in Merging /\ w # p BY <3>1, <2>3 DEF Merging
    <3>3. Cardinality({w}) = 1 /\ {w} \in SUBSET Merging /\ {w} # Merging BY <3>2, FS_Singleton
    <3>4. Cardinality({w}) <= Cardinality(Merging) /\ Cardinality({w}) # Cardinality(Merging)
      BY <3>3, MergingFacts, FS_Subset
    <3>5. scan.ceiling \in Nat BY <1>2, ScanAssumption DEF ScanShape
    <3>6. Cardinality(Merging) >= 2 /\ Cardinality(Merging) <= scan.ceiling
      BY <3>3, <3>4, <3>5, <2>9, MergingFacts
    <3>7. Degraded >= 1 BY <3>6, <1>2, DegradedFacts
    <3>8. full BY <2>2, <2>9
    <3> QED BY <3>7, <3>8, <1>1
  <2>10. Yields(p, o)
    <3> HIDE DEF c, p
    <3> QED BY <2>1, <2>3, <2>7, <2>8, <2>9 DEF Yields
  <2> HIDE DEF p, o
  <2> QED BY <1>1, <1>4, <2>3, <2>5, <2>10
<1> QED BY <1>5, <1>6

(* A sequence of events and the same with one more, if it is wanted.       *)
Adds(ev, ev2, e, wanted) ==
  /\ ev2 \in Seq(Event)
  /\ \A i \in DOMAIN ev : i \in DOMAIN ev2 /\ ev2[i] = ev[i]
  /\ \A i \in DOMAIN ev2 : i \in DOMAIN ev \/ (wanted /\ ev2[i] = e)
  /\ \A i, j \in DOMAIN ev2 : i < j => i \in DOMAIN ev
  /\ wanted => \E i \in DOMAIN ev2 : ev2[i] = e

LEMMA AddsIs ==
  ASSUME NEW ev \in Seq(Event), NEW e \in Event, NEW wanted \in BOOLEAN,
         NEW ev2, ev2 = IF wanted THEN Append(ev, e) ELSE ev
  PROVE  Adds(ev, ev2, e, wanted)
<1>1. CASE wanted
  <2>1. ev2 = Append(ev, e) BY <1>1
  <2>2. ev2 \in Seq(Event) /\ DOMAIN ev = 1..Len(ev) /\ DOMAIN ev2 = 1..(Len(ev) + 1) /\ Len(ev) \in Nat
    BY <2>1
  <2>3. ev2[Len(ev) + 1] = e /\ \A i \in DOMAIN ev : ev2[i] = ev[i] BY <2>1
  <2> QED BY <1>1, <2>2, <2>3 DEF Adds
<1>2. CASE ~wanted
  <2>1. ev2 = ev BY <1>2
  <2>2. DOMAIN ev = 1..Len(ev) /\ Len(ev) \in Nat OBVIOUS
  <2> QED BY <1>2, <2>1 DEF Adds
<1> QED BY <1>1, <1>2

(* What waits elsewhere is not older than the record that is yielded.      *)
LEMMA YieldLater ==
  ASSUME ScanInv, Exact, ~waiting_on_empty_partition,
         NEW p \in Partitions, cursors[p].buffered # <<>>,
         \A q \in Partitions : cursors[q].buffered # <<>> => Ahead(p, q),
         Head(cursors[p].buffered).ok,
         NEW q \in Partitions, q # p, Chronological(q)
  PROVE  Later(q, Timestamps[p][Head(cursors[p].buffered).offset], cursors[q])
<1> DEFINE c == cursors[q]
<1>1. PICK ts : ts = Timestamps[p][Head(cursors[p].buffered).offset] OBVIOUS
<1>2. head_timestamp(p) = ts /\ ts \in Int /\ ts + 1 \in Nat BY <1>1, HeadTime
<1>3. ts \in Nat
  <2>1. CursorGood(p, log[p], scan.visibility, cursors[p]) BY DEF ScanInv, PartitionInv
  <2>2. cursors[p].buffered \in Seq(Outcome) BY <2>1 DEF CursorGood, CursorShape
  <2>3. 1 \in DOMAIN cursors[p].buffered /\ Head(cursors[p].buffered) = cursors[p].buffered[1] BY <2>2
  <2>4. Head(cursors[p].buffered).offset \in DOMAIN Timestamps[p] BY <2>1, <2>3 DEF CursorGood
  <2> QED BY <1>1, <2>4, ScanAssumption
<1>4. CASE c.buffered = <<>>
  <2>1. exhausted(c) BY <1>4 DEF waiting_on_empty_partition
  <2> QED BY <1>4, <2>1 DEF Later
<1>5. CASE c.buffered # <<>>
  <2>1. PICK o : o = Head(c.buffered) OBVIOUS
  <2>2. CursorGood(q, log[q], scan.visibility, c) BY DEF ScanInv, PartitionInv
  <2>3. c.buffered \in Seq(Outcome) /\ c.next \in Nat BY <2>2 DEF CursorGood, CursorShape
  <2>4. 1 \in DOMAIN c.buffered /\ o = c.buffered[1] /\ o \in Outcome /\ DOMAIN c.buffered = 1..Len(c.buffered) /\ Len(c.buffered) \in Nat
    BY <2>1, <2>3, <1>5
  <2>5. head_timestamp(q) \in Int /\ (o.ok => head_timestamp(q) = Timestamps[q][o.offset]) /\ (~o.ok => head_timestamp(q) = -1)
    BY <1>5, <2>1, HeadTime
  <2>6. ts <= head_timestamp(q)
    <3>1. Ahead(p, q) BY <1>5
    <3> QED BY <3>1, <1>2, <2>5 DEF Ahead
  <2>7. o.ok BY <2>5, <2>6, <1>3
  <2>8. ts <= Timestamps[q][o.offset] BY <2>5, <2>6, <2>7
  <2>9. o.offset \in DOMAIN Timestamps[q] /\ o.offset < c.next /\ o.offset \in Nat
    BY <2>2, <2>4, <2>7 DEF CursorGood, Outcome
  <2>10. ASSUME NEW x \in DOMAIN Timestamps[q], o.offset <= x
         PROVE  Timestamps[q][x] >= ts
    <3>1. x \in Nat /\ Timestamps[q][x] \in Nat /\ Timestamps[q][o.offset] \in Nat BY <2>9, ScanAssumption
    <3>2. o.offset < x => Timestamps[q][o.offset] <= Timestamps[q][x] BY <2>9 DEF Chronological
    <3> QED BY <2>8, <2>9, <2>10, <3>1, <3>2, <1>3
  <2>11. ASSUME NEW k \in DOMAIN c.buffered, c.buffered[k].ok
         PROVE  Timestamps[q][c.buffered[k].offset] >= ts
    <3>1. c.buffered[k].offset \in DOMAIN Timestamps[q] /\ c.buffered[k] \in Outcome
      BY <2>2, <2>3, <2>11 DEF CursorGood
    <3>2. o.offset <= c.buffered[k].offset
      <4>1. CASE k = 1 BY <4>1, <2>4, <2>9
      <4>2. CASE k # 1
        <5>1. 1 < k BY <4>2, <2>4
        <5>2. Rising(c.buffered) BY <2>2 DEF CursorGood
        <5>3. o.offset < c.buffered[k].offset BY <5>1, <5>2, <2>4 DEF Rising
        <5> QED BY <5>3, <2>9, <3>1 DEF Outcome
      <4> QED BY <4>1, <4>2
    <3> QED BY <3>1, <3>2, <2>10
  <2>12. ASSUME NEW x \in DOMAIN Timestamps[q], x >= c.next
         PROVE  Timestamps[q][x] >= ts
    <3>1. x \in Nat BY ScanAssumption
    <3>2. o.offset <= x BY <3>1, <2>3, <2>9, <2>12
    <3> QED BY <3>2, <2>10
  <2>13. Later(q, ts, c) BY <2>11, <2>12 DEF Later
  <2> QED BY <2>13, <1>1
<1> QED BY <1>4, <1>5

LEMMA EmitStep ==
  ASSUME ScanInv, EmitNext
  PROVE  ScanInv' /\ pc' # "off"
<1>1. /\ pc = "emit" /\ log' = log /\ scan' = scan /\ starved' = starved /\ faults' = faults
      /\ window' \in Nat /\ (window' = 0 => window = 0)
      /\ pc' \in {"done", "refill"} /\ (pc' = "done" => all_exhausted(cursors)')
  BY EmitIs
<1>2. UNCHANGED <<cursors, events>> \/ \E p \in Partitions : \E o : Yields(p, o) BY EmitIs
<1>3. Core /\ ScanShape BY ScanInvIs DEF Core
<1>4. TargetInv' BY <1>1 DEF TargetInv
<1>5. DOMAIN faults' = {"growth", "deletes", "failures"} /\ faults'.deletes = faults.deletes
  BY <1>1, <1>3 DEF ScanShape
<1>6. CASE UNCHANGED <<cursors, events>>
  <2>1. Core' BY <1>1, <1>3, <1>5, <1>6, Unmoved
  <2> QED BY <1>1, <1>4, <2>1, ScanInvIsNext
<1>7. ASSUME NEW p \in Partitions, NEW o, Yields(p, o)
      PROVE  Core'
  <2> DEFINE v == scan.visibility
             c == cursors[p]
             n == cursors'[p]
             wanted == ~(o.ok /\ o.offset \in Rejected)
             e == [p |-> p, o |-> o.offset, ok |-> o.ok]
  <2>1. /\ c.buffered # <<>> /\ o = Head(c.buffered)
        /\ \A q \in Partitions : cursors[q].buffered # <<>> => Ahead(p, q)
        /\ DOMAIN cursors' = Partitions /\ Popped(c, n)
        /\ \A q \in Partitions \ {p} : cursors'[q] = cursors[q]
        /\ events' = IF wanted THEN Append(events, e) ELSE events
        /\ waiting_on_empty_partition /\ Cardinality(Partitions) <= scan.ceiling => window' >= 1
    BY <1>7 DEF Yields
  <2>2. \A q \in Partitions : PartitionInv(q) BY DEF ScanInv
  <2>3. LogGood(p, log[p]) /\ CursorGood(p, log[p], v, c) /\ Covered(p, log[p], v, c, events)
    BY <2>2 DEF PartitionInv
  <2> HIDE DEF c, n
  <2>4. /\ o \in Outcome /\ o.offset \in Nat /\ o.offset < c.next /\ c.next \in Nat
        /\ o.ok => o.offset >= c.start /\ o.offset \in DOMAIN Timestamps[p]
        /\ \A k \in DOMAIN n.buffered : o.offset < n.buffered[k].offset
        /\ \A k \in DOMAIN n.buffered : \E m \in DOMAIN c.buffered : n.buffered[k] = c.buffered[m]
        /\ 1 \in DOMAIN c.buffered /\ c.buffered[1] = o
        /\ CursorGood(p, log[p], v, n)
    BY <2>1, <2>3, PopFacts
  <2>5. e \in Event /\ e.p = p /\ e.o = o.offset /\ (e.ok <=> o.ok) /\ e.ok \in BOOLEAN
    BY <2>4 DEF Event, Outcome
  <2>6. wanted \in BOOLEAN OBVIOUS
  <2>7. events \in Seq(Event) BY <1>3 DEF ScanShape
  <2> HIDE DEF wanted, e
  <2>8. Adds(events, events', e, wanted) BY <2>1, <2>5, <2>6, <2>7, AddsIs
  <2>9. n.next = c.next /\ n.end = c.end /\ n.start = c.start /\ n.finished = c.finished BY <2>1 DEF Popped
  <2>10. \A q \in Partitions : \A x : YieldedIn(events, q, x) => YieldedIn(events', q, x)
    BY <2>8 DEF Adds, YieldedIn
  <2>11. o.ok /\ o.offset \notin Rejected => YieldedIn(events', p, o.offset)
    <3> SUFFICES ASSUME o.ok, o.offset \notin Rejected PROVE YieldedIn(events', p, o.offset) OBVIOUS
    <3>1. \E i \in DOMAIN events' : events'[i] = e BY <2>8 DEF Adds, wanted
    <3> QED BY <3>1, <2>5 DEF YieldedIn
  <2>12. ScanShape'
    <3>1. events' \in Seq(Event) BY <2>8 DEF Adds
    <3> QED BY <3>1, <2>1, <1>1, <1>3, <1>5 DEF ScanShape
  <2>13. ASSUME NEW q \in Partitions PROVE PartitionInv(q)'
    <3>1. CASE q = p
      <4>1. Covered(p, log[p], v, n, events')
        <5>1. \A x : YieldedIn(events, p, x) => YieldedIn(events', p, x) BY <2>10
        <5> QED BY <2>1, <2>3, <5>1, <2>11, PopCovered
      <4>2. n.finished => ~scan.follow BY <2>2, <2>9 DEF PartitionInv, c
      <4>3. n.finished /\ p \notin starved => ReadOut(log[p], v, n)
        <5>1. n.finished /\ p \notin starved => ReadOut(log[p], v, c) BY <2>2, <2>9 DEF PartitionInv, c
        <5> QED BY <5>1, <2>9 DEF ReadOut
      <4>4. faults.deletes = 0 => BufferShown(log[p], v, n)
        <5>1. faults.deletes = 0 => BufferShown(log[p], v, c) BY <2>2 DEF PartitionInv, c
        <5> QED BY <5>1, <2>4 DEF BufferShown
      <4> QED BY <3>1, <4>1, <4>2, <4>3, <4>4, <2>3, <2>4, <1>1 DEF PartitionInv, n
    <3>2. CASE q # p
      <4>1. cursors'[q] = cursors[q] BY <3>2, <2>1
      <4>2. /\ LogGood(q, log[q]) /\ CursorGood(q, log[q], v, cursors[q])
            /\ Covered(q, log[q], v, cursors[q], events)
            /\ cursors[q].finished => ~scan.follow
            /\ cursors[q].finished /\ q \notin starved => ReadOut(log[q], v, cursors[q])
            /\ faults.deletes = 0 => BufferShown(log[q], v, cursors[q])
        BY <2>2 DEF PartitionInv
      <4>3. Covered(q, log[q], v, cursors[q], events') BY <4>2, <2>10 DEF Covered
      <4> QED BY <4>1, <4>2, <4>3, <1>1 DEF PartitionInv
    <3> QED BY <3>1, <3>2
  <2>14. ASSUME NEW i \in DOMAIN events
         PROVE  /\ events[i] \in Event /\ EventInv(events[i]) /\ events[i].p \in Partitions
                /\ events[i].o \in Nat /\ Before(events[i], cursors[events[i].p], log[events[i].p].whole)
    <3>1. EventInv(events[i]) BY DEF ScanInv
    <3> QED BY <3>1 DEF EventInv, Event
  <2>15. \A i \in DOMAIN events' : \/ i \in DOMAIN events /\ events'[i] = events[i]
                                   \/ wanted /\ events'[i] = e
    BY <2>8 DEF Adds
  <2>16. \A i, j \in DOMAIN events' : i < j => i \in DOMAIN events /\ events'[i] = events[i] BY <2>8 DEF Adds
  <2>17. ASSUME NEW i \in DOMAIN events' PROVE EventInv(events[i])'
    <3>1. PICK x : x = events'[i] OBVIOUS
    <3>2. CASE i \in DOMAIN events /\ x = events[i]
      <4>1. /\ x \in Event /\ x.p \in Partitions /\ EventInv(x)
            /\ Before(x, cursors[x.p], log[x.p].whole)
        BY <3>2, <2>14
      <4>2. Before(x, cursors'[x.p], log[x.p].whole)
        <5>1. CASE x.p = p
          <6>1. Before(x, c, log[p].whole) BY <4>1, <5>1 DEF c
          <6>2. Before(x, n, log[p].whole) BY <6>1, <2>1, <2>3, PopBefore
          <6> QED BY <6>2, <5>1 DEF n
        <5>2. CASE x.p # p BY <5>2, <4>1, <2>1
        <5> QED BY <5>1, <5>2
      <4> QED BY <3>1, <4>1, <4>2, <1>1 DEF EventInv
    <3>3. CASE x = e
      <4>1. e.ok => e.o \in DOMAIN Timestamps[e.p] BY <2>4, <2>5
      <4>2. Before(e, n, log[p].whole) BY <2>4, <2>5, <2>9 DEF Before
      <4> QED BY <3>1, <3>3, <4>1, <4>2, <2>5, <1>1 DEF EventInv, n
    <3> QED BY <3>1, <3>2, <3>3, <2>15
  <2>18. LogOrder'
    <3> SUFFICES ASSUME NEW i \in DOMAIN events', NEW j \in DOMAIN events',
                        i < j, events'[i].ok, events'[j].ok, events'[i].p = events'[j].p,
                        log[events'[i].p].whole
                 PROVE  events'[i].o < events'[j].o
      BY <1>1 DEF LogOrder
    <3>1. i \in DOMAIN events /\ events'[i] = events[i] BY <2>16
    <3>2. CASE j \in DOMAIN events /\ events'[j] = events[j] BY <3>1, <3>2 DEF ScanInv, LogOrder
    <3>3. CASE wanted /\ events'[j] = e
      <4>1. events[i].p = p /\ o.ok /\ events[i].ok /\ log[p].whole BY <3>1, <3>3, <2>5
      <4>2. Before(events[i], c, log[p].whole) BY <3>1, <4>1, <2>14 DEF c
      <4>3. events[i].o < o.offset BY <4>1, <4>2, <2>4 DEF Before
      <4> QED BY <3>1, <3>3, <4>3, <2>5
    <3> QED BY <3>2, <3>3, <2>15
  <2>19. NothingHidden'
    <3> SUFFICES ASSUME faults.deletes = 0, NEW i \in DOMAIN events', events'[i].ok
                 PROVE  /\ events'[i].o \in VisibleOffsets(log[events'[i].p].batches, v)
                        /\ events'[i].o >= cursors'[events'[i].p].start /\ events'[i].o \notin Rejected
      BY <1>1 DEF NothingHidden
    <3>1. CASE i \in DOMAIN events /\ events'[i] = events[i]
      <4>1. /\ events[i].o \in VisibleOffsets(log[events[i].p].batches, v)
            /\ events[i].o >= cursors[events[i].p].start /\ events[i].o \notin Rejected
        BY <3>1 DEF ScanInv, NothingHidden
      <4>2. cursors'[events[i].p].start = cursors[events[i].p].start BY <3>1, <2>1, <2>9, <2>14 DEF c, n
      <4> QED BY <3>1, <4>1, <4>2
    <3>2. CASE wanted /\ events'[i] = e
      <4>1. o.ok /\ o.offset \notin Rejected BY <3>2, <2>5 DEF wanted
      <4>2. BufferShown(log[p], v, c) BY <2>2 DEF PartitionInv, c
      <4>3. o.offset \in VisibleOffsets(log[p].batches, v) BY <4>1, <4>2, <2>4 DEF BufferShown
      <4>4. o.offset >= n.start BY <4>1, <2>4, <2>9
      <4> QED BY <3>2, <4>1, <4>3, <4>4, <2>5 DEF n
    <3> QED BY <3>1, <3>2, <2>15
  <2>20. MergeInv /\ MergeOrder /\ pc # "off" /\ (Exact' => Exact) BY <1>1 DEF ScanInv, Exact
  <2>21. MergeOrder'
    <3> SUFFICES ASSUME Exact', NEW i \in DOMAIN events', NEW j \in DOMAIN events',
                        i < j, events'[i].ok, events'[j].ok, events'[i].p # events'[j].p,
                        log[events'[j].p].whole, Chronological(events'[j].p)
                 PROVE  Timestamps[events'[i].p][events'[i].o] <= Timestamps[events'[j].p][events'[j].o]
      BY <1>1 DEF MergeOrder, Exact, Chronological
    <3>1. i \in DOMAIN events /\ events'[i] = events[i] BY <2>16
    <3>2. CASE j \in DOMAIN events /\ events'[j] = events[j] BY <3>1, <3>2, <2>20 DEF MergeOrder, Exact
    <3>3. CASE wanted /\ events'[j] = e
      <4>1. o.ok /\ events[i].ok /\ log[p].whole /\ Chronological(p) /\ p \in Partitions \ {events[i].p}
        BY <3>1, <3>3, <2>5
      <4>2. PICK ts : ts = Timestamps[events[i].p][events[i].o] OBVIOUS
      <4>3. Later(p, ts, c) BY <3>1, <4>1, <4>2, <2>20 DEF MergeInv, c
      <4>4. Timestamps[p][o.offset] >= ts BY <4>1, <4>3, <2>4 DEF Later
      <4>5. Timestamps[p][o.offset] \in Nat BY <4>1, <2>4, ScanAssumption
      <4>6. ts \in Nat
        <5>1. events[i].o \in DOMAIN Timestamps[events[i].p] /\ events[i].p \in Partitions
          BY <3>1, <4>1, <2>14 DEF EventInv
        <5> QED BY <5>1, <4>2, ScanAssumption
      <4>7. ts <= Timestamps[p][o.offset] BY <4>4, <4>5, <4>6
      <4> QED BY <3>1, <3>3, <4>2, <4>7, <2>5
    <3> QED BY <3>2, <3>3, <2>15
  <2>22. MergeInv'
    <3> SUFFICES ASSUME Exact', NEW i \in DOMAIN events', events'[i].ok,
                        NEW q \in Partitions \ {events'[i].p}, log[q].whole, Chronological(q)
                 PROVE  Later(q, Timestamps[events'[i].p][events'[i].o], cursors'[q])
      BY <1>1 DEF MergeInv, Chronological
    <3>1. CASE i \in DOMAIN events /\ events'[i] = events[i]
      <4>1. PICK ts : ts = Timestamps[events[i].p][events[i].o] OBVIOUS
      <4>2. Later(q, ts, cursors[q]) BY <3>1, <4>1, <2>20 DEF MergeInv
      <4>3. CASE q = p
        <5>1. Later(p, ts, c) BY <4>2, <4>3 DEF c
        <5>2. Later(p, ts, n) BY <5>1, <2>1, <2>3, PopLater
        <5> QED BY <3>1, <4>1, <4>3, <5>2 DEF n
      <4>4. CASE q # p BY <3>1, <4>1, <4>2, <4>4, <2>1
      <4> QED BY <4>3, <4>4
    <3>2. CASE wanted /\ events'[i] = e
      <4>1. o.ok /\ q # p /\ q \in Partitions BY <3>2, <2>5
      <4>2. ~waiting_on_empty_partition
        <5>1. window' = 0 /\ scan.ceiling >= Cardinality(Partitions) BY <1>1 DEF Exact
        <5>2. scan.ceiling \in Nat /\ Cardinality(Partitions) \in Nat
          BY <1>3, ScanAssumption, MergingFacts DEF ScanShape
        <5>3. Cardinality(Partitions) <= scan.ceiling BY <5>1, <5>2
        <5> QED BY <5>1, <5>3, <2>1
      <4>3. Later(q, Timestamps[p][Head(cursors[p].buffered).offset], cursors[q])
        BY <2>1, <2>20, <4>1, <4>2, YieldLater DEF c
      <4>4. cursors'[q] = cursors[q] BY <4>1, <2>1
      <4>5. Timestamps[events'[i].p][events'[i].o] = Timestamps[p][Head(cursors[p].buffered).offset]
        BY <3>2, <2>1, <2>5 DEF c
      <4> QED BY <4>3, <4>4, <4>5
    <3> QED BY <3>1, <3>2, <2>15
  <2> QED BY <2>12, <2>13, <2>17, <2>18, <2>19, <2>21, <2>22 DEF Core
<1>8. Core' BY <1>2, <1>6, <1>7, <1>1, <1>3, <1>5, Unmoved
<1> QED BY <1>1, <1>4, <1>8, ScanInvIsNext

-----------------------------------------------------------------------------
(* The log changes under the scan *)

(* What a cursor knows of a log it still knows of what became of it.       *)
Survives(p, l, m, v, c) ==
  /\ LogGood(p, m) /\ CursorGood(p, m, v, c) /\ (m.whole <=> l.whole)
  /\ \A o \in VisibleOffsets(m.batches, v) : o < c.next => o \in VisibleOffsets(l.batches, v)
  /\ ReadOut(l, v, c) => ReadOut(m, v, c)

LEMMA LogMoves ==
  ASSUME ScanInv, pc # "off", NEW p \in Partitions,
         DOMAIN log' = Partitions, \A q \in Partitions \ {p} : log'[q] = log[q],
         UNCHANGED <<scan, cursors, pc, targets, events, window, starved>>,
         DOMAIN faults' = {"growth", "deletes", "failures"}, faults'.deletes \in Nat,
         faults'.deletes = 0 => /\ faults.deletes = 0
                                /\ VisibleOffsets(log[p].batches, scan.visibility)
                                     \subseteq VisibleOffsets(log'[p].batches, scan.visibility),
         Survives(p, log[p], log'[p], scan.visibility, cursors[p])
  PROVE  ScanInv' /\ pc' # "off"
<1> DEFINE v == scan.visibility
<1>1. /\ scan' = scan /\ cursors' = cursors /\ pc' = pc /\ targets' = targets /\ events' = events
      /\ window' = window /\ starved' = starved
  OBVIOUS
<1>2. /\ LogGood(p, log'[p]) /\ CursorGood(p, log'[p], v, cursors[p]) /\ (log'[p].whole <=> log[p].whole)
      /\ \A o \in VisibleOffsets(log'[p].batches, v) : o < cursors[p].next => o \in VisibleOffsets(log[p].batches, v)
      /\ ReadOut(log[p], v, cursors[p]) => ReadOut(log'[p], v, cursors[p])
  BY DEF Survives
<1>3. \A q \in Partitions : log'[q].whole <=> log[q].whole BY <1>2
<1>4. \A q \in Partitions : faults'.deletes = 0 =>
        VisibleOffsets(log[q].batches, v) \subseteq VisibleOffsets(log'[q].batches, v)
  OBVIOUS
<1>5. ScanShape' BY <1>1 DEF ScanInv, ScanShape
<1>6. ASSUME NEW q \in Partitions PROVE PartitionInv(q)'
  <2>1. PartitionInv(q) BY DEF ScanInv
  <2>2. CASE q = p
    <3>1. Covered(p, log[p], v, cursors[p], events) BY <2>1, <2>2 DEF PartitionInv
    <3>2. Covered(p, log'[p], v, cursors[p], events) BY <3>1, <1>2 DEF Covered
    <3>3. /\ cursors[p].finished => ~scan.follow
          /\ cursors[p].finished /\ p \notin starved => ReadOut(log'[p], v, cursors[p])
      BY <2>1, <2>2, <1>2 DEF PartitionInv
    <3>4. faults'.deletes = 0 => BufferShown(log'[p], v, cursors[p])
      BY <2>1, <2>2, <1>4 DEF PartitionInv, BufferShown
    <3> QED BY <1>1, <1>2, <2>2, <3>2, <3>3, <3>4 DEF PartitionInv
  <2>3. CASE q # p
    <3>1. log'[q] = log[q] BY <2>3
    <3> QED BY <1>1, <2>1, <3>1 DEF PartitionInv
  <2> QED BY <2>2, <2>3
<1>7. \A i \in DOMAIN events : events[i] \in Event /\ EventInv(events[i]) /\ events[i].p \in Partitions
  BY DEF ScanInv, EventInv, Event
<1>8. ASSUME NEW i \in DOMAIN events' PROVE EventInv(events[i])'
  <2>1. EventInv(events[i]) /\ events[i].p \in Partitions BY <1>1, <1>7
  <2> QED BY <1>1, <1>3, <2>1 DEF EventInv, Before
<1>9. LogOrder' BY <1>1, <1>3, <1>7 DEF ScanInv, LogOrder
<1>10. NothingHidden'
  <2> SUFFICES ASSUME faults'.deletes = 0, NEW i \in DOMAIN events, events[i].ok
               PROVE  /\ events[i].o \in VisibleOffsets(log'[events[i].p].batches, v)
                      /\ events[i].o >= cursors[events[i].p].start /\ events[i].o \notin Rejected
    BY <1>1 DEF NothingHidden
  <2>1. /\ events[i].o \in VisibleOffsets(log[events[i].p].batches, v)
        /\ events[i].o >= cursors[events[i].p].start /\ events[i].o \notin Rejected
    BY DEF ScanInv, NothingHidden
  <2> QED BY <2>1, <1>4, <1>7
<1>11. MergeOrder' BY <1>1, <1>3, <1>7 DEF ScanInv, MergeOrder
<1>12. MergeInv' BY <1>1, <1>3 DEF ScanInv, MergeInv, Exact
<1>13. TargetInv' BY <1>1 DEF ScanInv, TargetInv
<1>14. pc' = "done" => limit_reached' \/ all_exhausted(cursors)'
  BY <1>1 DEF ScanInv, limit_reached, records_emitted, all_exhausted, exhausted
<1>15. Core' BY <1>5, <1>6, <1>8, <1>9, <1>10, <1>11, <1>12 DEF Core
<1> QED BY <1>1, <1>13, <1>14, <1>15, ScanInvIsNext

(* A batch more.                                                           *)
LEMMA GrowSurvives ==
  ASSUME NEW p, NEW l, LogGood(p, l), NEW v, NEW c, CursorGood(p, l, v, c),
         NEW b, Continues(l.batches, b), b.last \in b.offs, b.offs \subseteq DOMAIN Timestamps[p],
         NEW m, DOMAIN m = {"batches", "start", "whole"}, m.batches = Append(l.batches, b),
         m.start = l.start, m.whole = l.whole
  PROVE  /\ Survives(p, l, m, v, c)
         /\ VisibleOffsets(l.batches, v) \subseteq VisibleOffsets(m.batches, v)
<1> DEFINE L == l.batches
           M == m.batches
<1>1. /\ IsLog(L) /\ l.start \in Nat /\ l.start <= LogEnd(L) /\ (l.whole => TailsIntact(L))
      /\ \A i \in DOMAIN L : L[i].offs \subseteq DOMAIN Timestamps[p]
  BY DEF LogGood
<1>2. /\ CursorShape(c) /\ c.start <= c.next /\ c.next <= LogEnd(L) /\ c.end <= LogEnd(L)
      /\ Rising(c.buffered)
      /\ l.whole => Aligned(L, v, c)
  BY DEF CursorGood
<1>3. c.next \in Nat /\ c.end \in Nat /\ c.start \in Nat BY <1>2 DEF CursorShape
<1>4. M = Append(L, b) /\ Continues(L, b) OBVIOUS
<1> HIDE DEF L, M
<1>5. /\ \A i \in DOMAIN L : i \in DOMAIN M /\ M[i] = L[i]
      /\ Len(L) + 1 \in DOMAIN M /\ M[Len(L) + 1] = b
      /\ \A i \in DOMAIN M : i \in DOMAIN L \/ i = Len(L) + 1
      /\ LogEnd(M) = b.last + 1 /\ b.last \in Nat /\ LogEnd(L) \in Nat /\ LogEnd(L) <= b.last
  BY <1>1, <1>4, AppendFacts
<1>6. IsLog(M) BY <1>1, <1>4, AppendIsLog
<1>7. EndFor(L, v) = EndFor(M, v) \/ EndFor(L, v) = LogEnd(L) BY <1>1, <1>4, AppendStable
<1>8. b.base = LogEnd(L) /\ b.base \in Nat /\ \A o \in b.offs : o \in Nat /\ o >= LogEnd(L)
  <2>1. b.base = LogEnd(L) /\ b.offs \subseteq b.base..b.last BY <1>4 DEF Continues, IsBatch
  <2>2. PICK x \in Nat, y \in Nat : x = b.base /\ y = b.last BY <2>1, <1>5
  <2>3. b.offs \subseteq x..y /\ x = LogEnd(L) BY <2>1, <2>2
  <2> QED BY <2>2, <2>3
<1>9. VisibleOffsets(L, v) \subseteq VisibleOffsets(M, v)
  <2> SUFFICES ASSUME NEW o \in VisibleOffsets(L, v) PROVE o \in VisibleOffsets(M, v) OBVIOUS
  <2>1. PICK i \in DOMAIN L : o \in L[i].offs /\ Seen(L[i], v) BY VisibleIs
  <2>2. i \in DOMAIN M /\ M[i] = L[i] BY <1>5
  <2> QED BY <2>1, <2>2, VisibleIs
<1>10. ASSUME NEW o \in VisibleOffsets(M, v), o < LogEnd(L)
       PROVE  o \in VisibleOffsets(L, v)
  <2>1. PICK i \in DOMAIN M : o \in M[i].offs /\ Seen(M[i], v) BY VisibleIs
  <2>2. i # Len(L) + 1 BY <2>1, <1>5, <1>8, <1>10
  <2>3. i \in DOMAIN L /\ M[i] = L[i] BY <2>2, <1>5
  <2> QED BY <2>1, <2>3, VisibleIs
<1>11. LogGood(p, m)
  <2>1. l.start <= LogEnd(M) BY <1>1, <1>5
  <2>2. l.whole => TailsIntact(M)
    <3> SUFFICES ASSUME l.whole, NEW i \in DOMAIN M, M[i].health = "ok", ~M[i].control
                 PROVE  M[i].last \in M[i].offs
      BY DEF TailsIntact
    <3>1. CASE i \in DOMAIN L BY <3>1, <1>1, <1>5 DEF TailsIntact
    <3>2. CASE i = Len(L) + 1 BY <3>2, <1>5
    <3> QED BY <3>1, <3>2, <1>5
  <2>3. \A i \in DOMAIN M : M[i].offs \subseteq DOMAIN Timestamps[p] BY <1>1, <1>5
  <2> QED BY <2>1, <2>2, <2>3, <1>1, <1>6 DEF LogGood, M
<1>12. CursorGood(p, m, v, c)
  <2>1. c.next <= LogEnd(M) /\ c.end <= LogEnd(M) BY <1>2, <1>3, <1>5
  <2>2. l.whole => Aligned(M, v, c)
    <3> SUFFICES ASSUME l.whole, NEW i \in DOMAIN M, Seen(M[i], v), M[i].last >= c.next,
                        NEW o \in M[i].offs, o >= c.start
                 PROVE  o >= c.next
      BY DEF Aligned
    <3>1. CASE i \in DOMAIN L BY <3>1, <1>2, <1>5 DEF Aligned
    <3>2. CASE i = Len(L) + 1 BY <3>2, <1>2, <1>3, <1>5, <1>8
    <3> QED BY <3>1, <3>2, <1>5
  <2> QED BY <2>1, <2>2, <1>2 DEF CursorGood, M
<1>13. ASSUME NEW o \in VisibleOffsets(M, v), o < c.next
       PROVE  o \in VisibleOffsets(L, v)
  <2>1. o \in Nat BY <1>6, VisibleNat
  <2>2. o < LogEnd(L) BY <2>1, <1>2, <1>3, <1>5, <1>13
  <2> QED BY <2>2, <1>10
<1>14. ASSUME ReadOut(l, v, c)
       PROVE  ReadOut(m, v, c)
  <2> SUFFICES ASSUME NEW o \in VisibleOffsets(M, v), c.next <= o, o < c.end, o < EndFor(M, v)
               PROVE  FALSE
    BY DEF ReadOut, M
  <2>1. o \in Nat BY <1>6, VisibleNat
  <2>2. o < LogEnd(L) BY <2>1, <1>2, <1>3, <1>5
  <2>3. o \in VisibleOffsets(L, v) BY <2>2, <1>10
  <2>4. ~(o < EndFor(L, v)) BY <2>3, <1>14 DEF ReadOut, L
  <2> QED BY <2>2, <2>4, <1>7
<1> QED BY <1>9, <1>11, <1>12, <1>13, <1>14 DEF Survives, L, M

(* A batch less, at the beginning.                                         *)
LEMMA DeleteSurvives ==
  ASSUME NEW p, NEW l, LogGood(p, l), NEW v, NEW c, CursorGood(p, l, v, c),
         l.batches # <<>>, Head(l.batches).last < LastStable(l.batches),
         NEW m, DOMAIN m = {"batches", "start", "whole"},
         m.batches = IF Len(l.batches) > 1 THEN Tail(l.batches) ELSE l.batches,
         m.start = Head(l.batches).last + 1, m.whole = l.whole
  PROVE  Survives(p, l, m, v, c)
<1> DEFINE L == l.batches
           M == m.batches
<1>1. /\ IsLog(L) /\ (l.whole => TailsIntact(L))
      /\ \A i \in DOMAIN L : L[i].offs \subseteq DOMAIN Timestamps[p]
  BY DEF LogGood
<1>2. /\ CursorShape(c) /\ c.next <= LogEnd(L) /\ c.end <= LogEnd(L)
      /\ l.whole => Aligned(L, v, c)
  BY DEF CursorGood
<1>3. M = IF Len(L) > 1 THEN Tail(L) ELSE L OBVIOUS
<1>4. L # <<>> /\ Head(L).last < LastStable(L) /\ m.start = Head(L).last + 1 OBVIOUS
<1> HIDE DEF L, M
<1>5. L \in Seq(BatchRecord) BY <1>1 DEF IsLog
<1>6. 1 \in DOMAIN L /\ Head(L) = L[1] /\ Len(L) \in Nat BY <1>4, <1>5
<1>7. L[1].last \in Nat /\ L[1].last < LogEnd(L) /\ LogEnd(L) \in Nat BY <1>1, <1>6, LogOne, LogEndFacts
<1>8. m.start \in Nat /\ m.start <= LogEnd(L) BY <1>4, <1>6, <1>7
<1>9. /\ IsLog(M) /\ LogEnd(M) = LogEnd(L) /\ EndFor(M, v) = EndFor(L, v)
      /\ \A i \in DOMAIN M : \E j \in DOMAIN L : M[i] = L[j]
  <2>1. CASE Len(L) > 1
    <3>1. M = Tail(L) BY <1>3, <2>1
    <3>2. IsLog(M) BY <1>1, <2>1, <3>1, TailIsLog
    <3>3. LogEnd(M) = LogEnd(L) /\ \A i \in DOMAIN M : i + 1 \in DOMAIN L /\ M[i] = L[i + 1]
      BY <1>1, <2>1, <3>1, TailFacts
    <3>4. L[1].last < LastStable(L) => EndFor(L, v) = EndFor(Tail(L), v) BY <1>1, <2>1, TailStable
    <3> QED BY <3>1, <3>2, <3>3, <3>4, <1>4, <1>6
  <2>2. CASE ~(Len(L) > 1) BY <2>2, <1>1, <1>3
  <2> QED BY <2>1, <2>2
<1>10. VisibleOffsets(M, v) \subseteq VisibleOffsets(L, v)
  <2> SUFFICES ASSUME NEW o \in VisibleOffsets(M, v) PROVE o \in VisibleOffsets(L, v) OBVIOUS
  <2>1. PICK i \in DOMAIN M : o \in M[i].offs /\ Seen(M[i], v) BY VisibleIs
  <2>2. PICK j \in DOMAIN L : M[i] = L[j] BY <1>9
  <2> QED BY <2>1, <2>2, VisibleIs
<1>11. LogGood(p, m)
  <2>1. l.whole => TailsIntact(M) BY <1>1, <1>9 DEF TailsIntact
  <2>2. \A i \in DOMAIN M : M[i].offs \subseteq DOMAIN Timestamps[p] BY <1>1, <1>9
  <2> QED BY <2>1, <2>2, <1>8, <1>9 DEF LogGood, M
<1>12. CursorGood(p, m, v, c)
  <2>1. l.whole => Aligned(M, v, c) BY <1>2, <1>9 DEF Aligned
  <2>2. LogEnd(m.batches) = LogEnd(l.batches) BY <1>9 DEF L, M
  <2>3. /\ c.start <= c.next /\ Rising(c.buffered)
        /\ \A k \in DOMAIN c.buffered :
             /\ c.buffered[k].offset < c.next
             /\ c.buffered[k].ok => c.buffered[k].offset >= c.start
                                    /\ c.buffered[k].offset \in DOMAIN Timestamps[p]
    BY DEF CursorGood
  <2> QED BY <2>1, <2>2, <2>3, <1>2 DEF CursorGood, L, M
<1>13. ReadOut(l, v, c) => ReadOut(m, v, c) BY <1>9, <1>10 DEF ReadOut, L, M
<1> QED BY <1>10, <1>11, <1>12, <1>13 DEF Survives, L, M

(* What a batch more makes of a partition.                                 *)
Grown(p, l, m) ==
  \E b : /\ Continues(l.batches, b) /\ b.last \in b.offs /\ b.offs \subseteq DOMAIN Timestamps[p]
        /\ DOMAIN m = {"batches", "start", "whole"} /\ m.batches = Append(l.batches, b)
        /\ m.start = l.start /\ m.whole = l.whole

LEMMA GrowIs ==
  ASSUME NEW p \in Partitions, DOMAIN log = Partitions, LogGood(p, log[p]), Grow(p)
  PROVE  /\ DOMAIN log' = Partitions /\ (\A q \in Partitions \ {p} : log'[q] = log[q])
         /\ Grown(p, log[p], log'[p])
<1> DEFINE L == log[p].batches
           base == LogEnd(L)
<1>1. PICK offs \in Grows :
        /\ \A o \in offs : base + o \in DOMAIN Timestamps[p]
        /\ log' = [log EXCEPT ![p].batches =
             Append(@, Plain(base, base + CHOOSE m \in offs : \A o \in offs : o <= m,
                             { base + o : o \in offs }))]
  BY DEF Grow, high_watermark
<1>2. IsLog(L) /\ DOMAIN log[p] = {"batches", "start", "whole"} BY DEF LogGood
<1>3. base \in Nat BY <1>2, LogEndFacts
<1>4. offs \subseteq Nat /\ IsFiniteSet(offs) /\ offs # {} BY ScanAssumption
<1>5. PICK m \in offs : m = (CHOOSE x \in offs : \A o \in offs : o <= x) /\ \A o \in offs : o <= m
  <2>1. PICK n \in Nat : offs \subseteq 0..n BY <1>4, FiniteBound
  <2>2. Max(offs) \in offs /\ \A y \in offs : Max(offs) >= y BY <1>4, <2>1, GreatestOf
  <2>3. \E x \in offs : \A o \in offs : o <= x BY <1>4, <2>2
  <2> QED BY <2>3
<1>6. PICK b : b = Plain(base, base + m, { base + o : o \in offs }) OBVIOUS
<1>7. log' = [log EXCEPT ![p].batches = Append(@, b)] BY <1>1, <1>5, <1>6
<1>8. m \in Nat /\ \A o \in offs : o \in Nat /\ o <= m BY <1>4, <1>5
<1> HIDE DEF L, base
<1>9. /\ b.base = base /\ b.last = base + m /\ b.offs = { base + o : o \in offs } /\ ~b.control
       /\ b.pid = 0 /\ b.tx = 0 /\ ~b.aborted /\ b.health = "ok"
  BY <1>6 DEF Plain
<1>10. { base + o : o \in offs } \subseteq base..(base + m)
  <2> SUFFICES ASSUME NEW o \in offs PROVE base + o \in base..(base + m) OBVIOUS
  <2>1. o \in Nat /\ o <= m BY <1>8
  <2> QED BY <2>1, <1>3, <1>8
<1>11. { base + o : o \in offs } \subseteq Nat BY <1>3, <1>4
<1>12. b \in BatchRecord BY <1>3, <1>6, <1>8, <1>11 DEF Plain, BatchRecord
<1>13. Continues(L, b)
  <2>1. base <= base + m BY <1>3, <1>8
  <2>2. IsBatch(b) BY <2>1, <1>9, <1>10 DEF IsBatch
  <2> QED BY <2>2, <1>9, <1>12 DEF Continues, base
<1>14. b.last \in b.offs /\ b.offs \subseteq DOMAIN Timestamps[p] BY <1>1, <1>5, <1>9
<1>15. DOMAIN log' = Partitions /\ \A q \in Partitions \ {p} : log'[q] = log[q] BY <1>7
<1>16. log'[p] = [log[p] EXCEPT !.batches = Append(@, b)] BY <1>7
<1>17. /\ DOMAIN log'[p] = {"batches", "start", "whole"} /\ log'[p].batches = Append(L, b)
       /\ log'[p].start = log[p].start /\ log'[p].whole = log[p].whole
  BY <1>2, <1>16 DEF L
<1> QED BY <1>13, <1>14, <1>15, <1>17 DEF Grown, L

LEMMA GrowStep ==
  ASSUME ScanInv, pc # "off", NEW p \in Partitions, Grow(p)
  PROVE  ScanInv' /\ pc' # "off"
<1> DEFINE v == scan.visibility
<1>1. /\ faults' = [faults EXCEPT !.growth = @ + 1]
      /\ UNCHANGED <<scan, cursors, pc, targets, events, completed, window, starved>>
  BY DEF Grow
<1>2. LogGood(p, log[p]) /\ CursorGood(p, log[p], v, cursors[p]) /\ ScanShape BY DEF ScanInv, PartitionInv
<1>3. DOMAIN log = Partitions BY <1>2 DEF ScanShape
<1>4. /\ DOMAIN log' = Partitions /\ (\A q \in Partitions \ {p} : log'[q] = log[q])
      /\ Grown(p, log[p], log'[p])
  BY <1>2, <1>3, GrowIs
<1>5. /\ Survives(p, log[p], log'[p], v, cursors[p])
      /\ VisibleOffsets(log[p].batches, v) \subseteq VisibleOffsets(log'[p].batches, v)
  <2> DEFINE l == log[p]
             n == log'[p]
             c == cursors[p]
  <2>1. PICK b : /\ Continues(l.batches, b) /\ b.last \in b.offs /\ b.offs \subseteq DOMAIN Timestamps[p]
                 /\ DOMAIN n = {"batches", "start", "whole"} /\ n.batches = Append(l.batches, b)
                 /\ n.start = l.start /\ n.whole = l.whole
    BY <1>4 DEF Grown
  <2>2. LogGood(p, l) /\ CursorGood(p, l, v, c) BY <1>2
  <2> HIDE DEF l, n, c, v
  <2>3. Survives(p, l, n, v, c) /\ VisibleOffsets(l.batches, v) \subseteq VisibleOffsets(n.batches, v)
    BY <2>1, <2>2, GrowSurvives
  <2> QED BY <2>3 DEF l, n, c
<1>6. DOMAIN faults' = {"growth", "deletes", "failures"} /\ faults'.deletes = faults.deletes /\ faults.deletes \in Nat
  BY <1>1, <1>2 DEF ScanShape
<1> QED BY <1>1, <1>4, <1>5, <1>6, LogMoves

LEMMA DeleteStep ==
  ASSUME ScanInv, pc # "off", NEW p \in Partitions, DeleteFirst(p)
  PROVE  ScanInv' /\ pc' # "off"
<1> DEFINE v == scan.visibility
<1>1. /\ log[p].batches # <<>> /\ Head(log[p].batches).last < LastStable(log[p].batches)
      /\ log' = [log EXCEPT ![p].start = Head(log[p].batches).last + 1,
                            ![p].batches = IF Len(@) > 1 THEN Tail(@) ELSE @]
      /\ faults' = [faults EXCEPT !.deletes = @ + 1]
      /\ UNCHANGED <<scan, cursors, pc, targets, events, completed, window, starved>>
  BY DEF DeleteFirst
<1>2. LogGood(p, log[p]) /\ CursorGood(p, log[p], v, cursors[p]) /\ ScanShape BY DEF ScanInv, PartitionInv
<1>3. DOMAIN log[p] = {"batches", "start", "whole"} /\ DOMAIN log = Partitions BY <1>2 DEF LogGood, ScanShape
<1>4. DOMAIN log' = Partitions /\ \A q \in Partitions \ {p} : log'[q] = log[q] BY <1>1, <1>3
<1>5. /\ DOMAIN log'[p] = {"batches", "start", "whole"}
      /\ log'[p].batches = IF Len(log[p].batches) > 1 THEN Tail(log[p].batches) ELSE log[p].batches
      /\ log'[p].start = Head(log[p].batches).last + 1 /\ log'[p].whole = log[p].whole
  BY <1>1, <1>3
<1>6. Survives(p, log[p], log'[p], v, cursors[p])
  <2> DEFINE l == log[p]
             n == log'[p]
             c == cursors[p]
  <2>1. LogGood(p, l) /\ CursorGood(p, l, v, c) /\ l.batches # <<>> /\ Head(l.batches).last < LastStable(l.batches)
    BY <1>1, <1>2
  <2>2. /\ DOMAIN n = {"batches", "start", "whole"}
        /\ n.batches = IF Len(l.batches) > 1 THEN Tail(l.batches) ELSE l.batches
        /\ n.start = Head(l.batches).last + 1 /\ n.whole = l.whole
    BY <1>5
  <2> HIDE DEF l, n, c, v
  <2>3. Survives(p, l, n, v, c) BY <2>1, <2>2, DeleteSurvives
  <2> QED BY <2>3 DEF l, n, c
<1>7. DOMAIN faults' = {"growth", "deletes", "failures"} /\ faults'.deletes \in Nat /\ faults'.deletes # 0
  BY <1>1, <1>2 DEF ScanShape
<1> QED BY <1>1, <1>4, <1>6, <1>7, LogMoves

-----------------------------------------------------------------------------
(* The beginning *)

LEMMA FoundIn ==
  ASSUME NEW p, NEW l, IsLog(l.batches), NEW at, at_timestamp(p, l, at) # None
  PROVE  at_timestamp(p, l, at) \in Nat /\ at_timestamp(p, l, at) <= LogEnd(l.batches)
<1> DEFINE L == l.batches
           later == { o \in UNION { b.offs : b \in ToSet(L) } : o >= l.start /\ Timestamps[p][o] >= at }
<1>1. at_timestamp(p, l, at) = IF later = {} THEN None ELSE CHOOSE o \in later : \A q \in later : o <= q
  BY DEF at_timestamp
<1>2. later # {} BY <1>1
<1>3. ASSUME NEW o \in later PROVE o \in Nat /\ o <= LogEnd(L)
  <2>1. PICK b \in ToSet(L) : o \in b.offs OBVIOUS
  <2>2. PICK i \in DOMAIN L : b = L[i] BY DEF ToSet
  <2>3. /\ L[i].base \in Nat /\ L[i].last \in Nat /\ L[i].offs \subseteq L[i].base..L[i].last
        /\ L[i].last < LogEnd(L) /\ LogEnd(L) \in Nat
    BY LogOne, LogEndFacts
  <2>4. PICK x \in Nat, y \in Nat, z \in Nat : x = L[i].base /\ y = L[i].last /\ z = LogEnd(L) BY <2>3
  <2>5. o \in x..y /\ y < z BY <2>1, <2>2, <2>3, <2>4
  <2> QED BY <2>4, <2>5
<1>4. Min(later) \in later /\ \A y \in later : Min(later) <= y BY <1>2, <1>3, LeastOf
<1> HIDE DEF later
<1>5. (CHOOSE o \in later : \A q \in later : o <= q) \in later BY <1>4
<1> QED BY <1>1, <1>2, <1>3, <1>5

LEMMA StartIn ==
  ASSUME NEW p, NEW l, IsLog(l.batches), l.start = 0, NEW from,
         from.kind \in {"Earliest", "Latest", "Offset", "Timestamp"}, from.at \in Nat
  PROVE  /\ StartOf(p, l, from) \in Nat /\ StartOf(p, l, from) <= LogEnd(l.batches)
         /\ bounds(l).latest = LogEnd(l.batches) /\ LogEnd(l.batches) \in Nat
<1>1. PICK end \in Nat : end = LogEnd(l.batches) BY LogEndFacts
<1>2. bounds(l).earliest = 0 /\ bounds(l).latest = end BY <1>1 DEF bounds, Larger
<1>3. PICK found : found = at_timestamp(p, l, from.at) OBVIOUS
<1>4. found # None => found \in Nat /\ found <= end BY <1>1, <1>3, FoundIn
<1>5. PICK at \in Nat : at = from.at OBVIOUS
<1>6. resolve_offset_start(at, 0, end) \in Nat /\ resolve_offset_start(at, 0, end) <= end
  BY DEF resolve_offset_start, Smaller, Larger
<1>7. CASE from.kind = "Earliest"
  <2>1. StartOf(p, l, from) = 0 BY <1>2, <1>7 DEF StartOf, Earliest, Latest
  <2> QED BY <1>1, <1>2, <2>1
<1>8. CASE from.kind = "Latest"
  <2>1. StartOf(p, l, from) = end BY <1>2, <1>8 DEF StartOf, Earliest, Latest
  <2> QED BY <1>1, <1>2, <2>1
<1>9. CASE from.kind = "Offset"
  <2>1. StartOf(p, l, from) = resolve_offset_start(at, 0, end)
    BY <1>2, <1>5, <1>9 DEF StartOf, Earliest, Latest
  <2> QED BY <1>1, <1>2, <1>6, <2>1
<1>10. CASE from.kind = "Timestamp"
  <2>1. StartOf(p, l, from) = IF found = None THEN end ELSE found
    BY <1>2, <1>3, <1>10 DEF StartOf, Earliest, Latest
  <2> QED BY <1>1, <1>2, <1>4, <2>1
<1> QED BY <1>7, <1>8, <1>9, <1>10

LEMMA ScanBegins ==
  ASSUME ScanInit
  PROVE  ScanInv /\ pc # "off"
<1>1. PICK l : /\ \A p \in Partitions : l[p] \in Logs[p]
               /\ log = [p \in Partitions |->
                    [batches |-> l[p], start |-> 0, whole |-> TailsIntact(l[p])]]
  BY DEF ScanInit, LogInit
<1>2. /\ faults = [growth |-> 0, deletes |-> 0, failures |-> 0] /\ scan \in Scans
      /\ cursors = [p \in Partitions |-> plan(p, log[p], scan.from, scan.follow)]
      /\ pc = "refill" /\ events = <<>> /\ window = 0 /\ starved = {}
  BY DEF ScanInit, LogInit
<1>3. scan.from.kind \in {"Earliest", "Latest", "Offset", "Timestamp"} /\ scan.from.at \in Nat /\ scan.follow \in BOOLEAN
  BY <1>2, ScanAssumption
<1>4. ScanShape BY <1>1, <1>2 DEF ScanShape
<1>5. ASSUME NEW p \in Partitions PROVE PartitionInv(p)
  <2> DEFINE v == scan.visibility
             c == cursors[p]
  <2>1. PICK L : L = l[p] OBVIOUS
  <2>2. /\ DOMAIN log[p] = {"batches", "start", "whole"} /\ log[p].batches = L /\ log[p].start = 0
        /\ log[p].whole = TailsIntact(L)
    BY <1>1, <2>1
  <2>3. IsLog(L) /\ \A i \in DOMAIN L : L[i].offs \subseteq DOMAIN Timestamps[p] BY <1>1, <2>1, ScanAssumption
  <2>4. log[p].whole => TailsIntact(L) BY <2>2 DEF TailsIntact
  <2>5. LogEnd(L) \in Nat BY <2>3, LogEndFacts
  <2>6. LogGood(p, log[p]) BY <2>2, <2>3, <2>4, <2>5 DEF LogGood
  <2>7. PICK start : start = StartOf(p, log[p], scan.from) OBVIOUS
  <2>8. start \in Nat /\ start <= LogEnd(L) /\ bounds(log[p]).latest = LogEnd(L)
    BY <2>2, <2>3, <2>7, <1>3, StartIn
  <2>9. c = [next |-> start, end |-> LogEnd(L), start |-> start,
             finished |-> start >= LogEnd(L) /\ ~scan.follow, buffered |-> <<>>]
    BY <1>2, <2>7, <2>8 DEF plan
  <2>10. c.next = start /\ c.end = LogEnd(L) /\ c.start = start /\ c.buffered = <<>>
         /\ (c.finished <=> start >= LogEnd(L) /\ ~scan.follow)
    <3>1. PICK fin : fin = (start >= LogEnd(L) /\ ~scan.follow) OBVIOUS
    <3>2. fin <=> start >= LogEnd(L) /\ ~scan.follow BY <3>1
    <3>3. c = [next |-> start, end |-> LogEnd(L), start |-> start, finished |-> fin, buffered |-> <<>>]
      BY <2>9, <3>1
    <3> HIDE DEF c
    <3>4. c.next = start /\ c.end = LogEnd(L) /\ c.start = start /\ c.buffered = <<>> /\ c.finished = fin
      BY <3>3
    <3> QED BY <3>2, <3>4
  <2>11. CursorShape(c) BY <2>5, <2>8, <2>9 DEF CursorShape
  <2> HIDE DEF c
  <2>12. CursorGood(p, log[p], v, c)
    <3>1. Rising(c.buffered) /\ DOMAIN c.buffered = {} BY <2>10 DEF Rising
    <3>2. Aligned(L, v, c) BY <2>10 DEF Aligned
    <3>3. c.start <= c.next /\ c.next <= LogEnd(L) /\ c.end <= LogEnd(L) BY <2>5, <2>8, <2>10
    <3> QED BY <2>2, <2>11, <3>1, <3>2, <3>3 DEF CursorGood
  <2>13. Covered(p, log[p], v, c, events)
    <3> SUFFICES ASSUME NEW o \in VisibleOffsets(L, v), c.start <= o, o < c.next PROVE FALSE
      BY <2>2 DEF Covered
    <3>1. o \in Nat BY <2>3, VisibleNat
    <3> QED BY <3>1, <2>8, <2>10
  <2>14. c.finished => ~scan.follow BY <2>10
  <2>15. c.finished => ReadOut(log[p], v, c)
    <3> SUFFICES ASSUME c.finished, NEW o \in VisibleOffsets(L, v), c.next <= o, o < c.end PROVE FALSE
      BY <2>2 DEF ReadOut
    <3>1. o \in Nat BY <2>3, VisibleNat
    <3> QED BY <3>1, <2>5, <2>8, <2>10
  <2>16. BufferShown(log[p], v, c) BY <2>10 DEF BufferShown
  <2> QED BY <2>6, <2>12, <2>13, <2>14, <2>15, <2>16 DEF PartitionInv, c
<1>6. DOMAIN events = {} BY <1>2
<1>7. LogOrder /\ NothingHidden /\ MergeOrder /\ MergeInv
  BY <1>6 DEF LogOrder, NothingHidden, MergeOrder, MergeInv
<1>8. TargetInv /\ pc # "done" /\ pc # "off" BY <1>2 DEF TargetInv
<1> QED BY <1>4, <1>5, <1>6, <1>7, <1>8 DEF ScanInv

-----------------------------------------------------------------------------
(* The reader *)

LEMMA ReaderBegins ==
  ReaderInit => ReaderInv
<1> SUFFICES ASSUME ReaderInit PROVE ReaderInv OBVIOUS
<1>1. CASE ScanInit BY <1>1, ScanBegins DEF ReaderInv
<1>2. CASE pc = "off" /\ events = <<>> BY <1>2 DEF ReaderInv
<1> QED BY <1>1, <1>2 DEF ReaderInit

LEMMA ScanStutters ==
  ASSUME ScanInv, pc # "off",
         UNCHANGED <<log, scan, cursors, pc, targets, events, window, starved>>,
         DOMAIN faults' = {"growth", "deletes", "failures"}, faults'.deletes = faults.deletes
  PROVE  ScanInv' /\ pc' # "off"
<1>1. /\ log' = log /\ scan' = scan /\ cursors' = cursors /\ pc' = pc /\ targets' = targets
      /\ events' = events /\ window' = window /\ starved' = starved
  OBVIOUS
<1>2. Core /\ ScanShape BY ScanInvIs DEF Core
<1>3. window' \in Nat /\ (window' = 0 => window = 0) BY <1>1, <1>2 DEF ScanShape
<1>4. Core' BY <1>1, <1>2, <1>3, Unmoved
<1>5. TargetInv' BY <1>1 DEF ScanInv, TargetInv
<1>6. pc' = "done" => limit_reached' \/ all_exhausted(cursors)'
  BY <1>1 DEF ScanInv, limit_reached, records_emitted, all_exhausted, exhausted
<1> QED BY <1>1, <1>4, <1>5, <1>6, ScanInvIsNext

LEMMA ScanVarsStutter ==
  ASSUME ScanInv, pc # "off", UNCHANGED scanVars
  PROVE  ScanInv' /\ pc' # "off"
<1>1. /\ UNCHANGED <<log, scan, cursors, pc, targets, events, window, starved>> /\ faults' = faults
  BY DEF scanVars
<1>2. DOMAIN faults' = {"growth", "deletes", "failures"} /\ faults'.deletes = faults.deletes
  BY <1>1 DEF ScanInv, ScanShape
<1> QED BY <1>1, <1>2, ScanStutters

LEMMA ScanKeeps ==
  ASSUME ScanInv, pc # "off", ScanNext
  PROVE  ScanInv' /\ pc' # "off"
<1>1. CASE StartRefill BY <1>1, RefillStep
<1>2. CASE \E b \in DOMAIN targets : FetchFrom(b) BY <1>2, FetchStep
<1>3. CASE EmitNext BY <1>3, EmitStep
<1>4. CASE FetchFails BY <1>4, FetchFailsStep
<1>5. CASE ScanRests
  <2>1. UNCHANGED scanVars BY <1>5 DEF ScanRests
  <2> QED BY <2>1, ScanVarsStutter
<1>6. CASE \E p \in Partitions : Grow(p) BY <1>6, GrowStep
<1>7. CASE \E p \in Partitions : DeleteFirst(p) BY <1>7, DeleteStep
<1> QED BY <1>1, <1>2, <1>3, <1>4, <1>5, <1>6, <1>7 DEF ScanNext, ScanStep

LEMMA ReaderKeeps ==
  ASSUME ReaderInv, [ReaderNext]_readerVars
  PROVE  ReaderInv'
<1>1. CASE pc # "off"
  <2>1. ScanInv BY <1>1 DEF ReaderInv
  <2>2. CASE ScanNext BY <1>1, <2>1, <2>2, ScanKeeps DEF ReaderInv
  <2>3. CASE UNCHANGED scanVars BY <1>1, <2>1, <2>3, ScanVarsStutter DEF ReaderInv
  <2>4. CASE TailFails
    <3>1. /\ faults' = [faults EXCEPT !.failures = @ + 1]
          /\ UNCHANGED <<log, scan, cursors, pc, targets, events, completed, window, starved>>
      BY <2>4 DEF TailFails
    <3>2. DOMAIN faults' = {"growth", "deletes", "failures"} /\ faults'.deletes = faults.deletes
      BY <2>1, <3>1 DEF ScanInv, ScanShape
    <3> QED BY <1>1, <2>1, <3>1, <3>2, ScanStutters DEF ReaderInv
  <2> QED BY <2>2, <2>3, <2>4 DEF ReaderNext, readerVars
<1>2. CASE pc = "off"
  <2>1. events = <<>> BY <1>2 DEF ReaderInv
  <2>2. pc' = pc /\ events' = events
    <3>1. CASE ScanNext
      BY <1>2, <3>1 DEF ScanNext, ScanStep, StartRefill, FetchFrom, EmitNext, FetchFails, ScanRests, Grow, DeleteFirst, scanVars
    <3>2. CASE UNCHANGED scanVars BY <3>2 DEF scanVars
    <3>3. CASE TailFails BY <3>3 DEF TailFails
    <3> QED BY <3>1, <3>2, <3>3 DEF ReaderNext, readerVars
  <2> QED BY <1>2, <2>1, <2>2 DEF ReaderInv
<1> QED BY <1>1, <1>2

(* A scan that ends has yielded what it was to yield.                      *)
LEMMA ReaderInvSound ==
  ReaderInv => ScanSound
<1> SUFFICES ASSUME ReaderInv PROVE ScanSound OBVIOUS
<1>1. CASE pc = "off"
  <2>1. DOMAIN events = {} BY <1>1 DEF ReaderInv
  <2> QED BY <1>1, <2>1 DEF ScanSound, LogOrder, NothingHidden, WholeWindow, MergeOrder
<1>2. CASE pc # "off"
  <2>1. ScanInv BY <1>2 DEF ReaderInv
  <2>2. WholeWindow
    <3> SUFFICES ASSUME pc = "done", ~limit_reached, NEW p \in Partitions \ starved,
                        NEW o \in VisibleOffsets(log[p].batches, scan.visibility) \ Rejected, Due(p, o)
                 PROVE  Yielded(p, o)
      BY DEF WholeWindow
    <3> DEFINE c == cursors[p]
               v == scan.visibility
    <3>1. exhausted(c) /\ c.buffered = <<>> BY <2>1 DEF ScanInv, all_exhausted
    <3>2. /\ LogGood(p, log[p]) /\ CursorGood(p, log[p], v, c)
          /\ Covered(p, log[p], v, c, events) /\ (c.finished => ReadOut(log[p], v, c))
      BY <2>1 DEF ScanInv, PartitionInv
    <3>3. c.start <= o /\ o < c.end /\ o < EndFor(log[p].batches, v) BY DEF Due, end_for
    <3>4. o \in Nat /\ c.next \in Nat /\ c.end \in Nat
      BY <3>2, VisibleNat DEF LogGood, CursorGood, CursorShape
    <3>5. o < c.next
      <4>1. CASE c.finished
        <5>1. ~(c.next <= o) BY <3>2, <3>3, <4>1 DEF ReadOut
        <5> QED BY <5>1, <3>4
      <4>2. CASE c.next >= c.end BY <4>2, <3>3, <3>4
      <4> QED BY <3>1, <4>1, <4>2 DEF exhausted
    <3>6. YieldedIn(events, p, o) \/ Has(c.buffered, o) BY <3>2, <3>3, <3>5 DEF Covered
    <3>7. YieldedIn(events, p, o) BY <3>1, <3>6 DEF Has
    <3> QED BY <3>7 DEF YieldedIn, Yielded
  <2> QED BY <2>1, <2>2 DEF ScanSound, ScanInv
<1> QED BY <1>1, <1>2

(* Whatever the logs, the partitions, the scan and the sizes of requests,  *)
(* and however the logs grow and lose their beginnings meanwhile: a scan   *)
(* yields the records of a partition in their order and each once, nothing *)
(* that is hidden, everything by the time it ends, and with a reorder      *)
(* window of 0 in the order of timestamps (emit_next, refill).             *)
THEOREM ScanIsSound ==
  ReaderSpecification => []ScanSound
<1>1. ReaderInit => ReaderInv BY ReaderBegins
<1>2. ReaderInv /\ [ReaderNext]_readerVars => ReaderInv' BY ReaderKeeps
<1>3. ReaderInv => ScanSound BY ReaderInvSound
<1> QED BY <1>1, <1>2, <1>3, PTL DEF ReaderSpecification
-----------------------------------------------------------------------------
(* The backward read *)

(* What a walk is to find.                                                 *)
Want(p, l, w, t) ==
  { o \in VisibleOffsets(l.batches, t.visibility) \ Rejected :
      /\ o < EndFor(l.batches, t.visibility)
      /\ w.log_start <= o /\ o < w.log_end /\ AtOrBefore(p, o, t.anchor) }

WalkShape(w) ==
  /\ w \in [log_start : Nat, log_end : Nat, window_end : Nat, step : Nat,
            collected : Seq(Outcome), target : Nat, trimmed : BOOLEAN]
  /\ w.log_start <= w.window_end /\ w.window_end <= w.log_end

Found(outs, o) == \E k \in DOMAIN outs : outs[k].offset = o

(* A walk has found what there is from its window on, in order; and what   *)
(* lies below is not past the anchor.                                      *)
WalkGood(p, l, w, t) ==
  /\ Rising(w.collected)
  /\ \A k \in DOMAIN w.collected :
       w.collected[k].offset \in Want(p, l, w, t) /\ w.collected[k].offset >= w.window_end
  /\ \A o \in Want(p, l, w, t) : o >= w.window_end => Found(w.collected, o)
  /\ \A o \in VisibleOffsets(l.batches, t.visibility) :
       w.log_start <= o /\ o < w.window_end => AtOrBefore(p, o, t.anchor)

ChunkShape(l, w, c) ==
  /\ c \in [p : Partitions, start : Nat, offset : Nat, records : Seq(Outcome)]
  /\ w.log_start <= c.start /\ c.start <= w.window_end
  /\ c.start <= c.offset /\ c.offset <= LogEnd(l.batches)

(* A window has found what there is up to its offset.                      *)
ChunkGood(p, l, w, t, c) ==
  /\ Rising(c.records)
  /\ \A k \in DOMAIN c.records :
       /\ c.records[k].offset \in Want(p, l, w, t) /\ c.start <= c.records[k].offset
       /\ c.records[k].offset < c.offset /\ c.records[k].offset < w.window_end
  /\ \A o \in Want(p, l, w, t) :
       c.start <= o /\ o < c.offset /\ o < w.window_end => Found(c.records, o)
  /\ Aligned(l.batches, t.visibility, [start |-> c.start, next |-> c.offset])

Busy == tail.at \in {"walk", "read"}
Going == tail.at \in {"round", "grant", "walk", "read"}

TailShape ==
  /\ DOMAIN log = Partitions /\ DOMAIN walks = Partitions
  /\ DOMAIN faults = {"growth", "deletes", "failures"} /\ faults.deletes \in Nat
  /\ DOMAIN tail = {"at", "spec", "open", "share"} /\ tail.spec \in Tails
  /\ tail.at \in {"round", "grant", "walk", "read", "done", "failed"}
  /\ tail.open \in Seq(Partitions) /\ Sorted(tail.open) /\ tail.share \in Nat
  /\ Busy => tail.open # <<>>
  /\ tail.at = "read" => chunk.p = Head(tail.open)

TailPartition(p) ==
  /\ LogGood(p, log[p]) /\ WalkShape(walks[p]) /\ walks[p].log_end <= LogEnd(log[p].batches)
  /\ Going /\ Sound(p) => WalkGood(p, log[p], walks[p], tail.spec)

ChunkInv ==
  tail.at = "read" =>
    /\ ChunkShape(log[chunk.p], walks[chunk.p], chunk)
    /\ Sound(chunk.p) => ChunkGood(chunk.p, log[chunk.p], walks[chunk.p], tail.spec, chunk)

(* A walk that was granted a share and left has met it or has no more.     *)
Quiet(w) == has_more(w) => Len(w.collected) >= w.target
Current == Head(tail.open)
QuietInv ==
  /\ \A p \in Partitions : tail.at \in {"round", "grant"} \/ (Busy /\ p # Current) => Quiet(walks[p])
  /\ tail.at \in {"grant", "walk", "read"} =>
       \A i \in DOMAIN tail.open :
         tail.at = "grant" \/ i > 1 =>
           Len(walks[tail.open[i]].collected) >= walks[tail.open[i]].target

LimitInv ==
  /\ tail.at \in {"round", "grant"} => KeptTotal(walks) <= tail.spec.limit
  /\ Busy => KeptTotal(walks) - kept(walks[Current]) + walks[Current].target <= tail.spec.limit

TailInv ==
  /\ TailShape
  /\ \A p \in Partitions : TailPartition(p)
  /\ ChunkInv /\ QuietInv /\ LimitInv
  /\ TailSound

TailsInv == tail.at = "off" \/ (pc = "off" /\ TailInv)

-----------------------------------------------------------------------------
(* What the walks keep, added up *)

KeptIter(ws, s, S, it) ==
  it = [t \in SUBSET S |-> IF t = {} THEN 0 ELSE it[t \ {Max(t)}] + kept(ws[s[Max(t)]])]

LEMMA KeptIterExists ==
  ASSUME NEW ws, NEW s, NEW n \in Nat
  PROVE  \E it : KeptIter(ws, s, 1..n, it)
<1> DEFINE T == {k \in Nat : \E it : KeptIter(ws, s, 1..k, it)}
<1>1. 0 \in T
  <2>1. SUBSET (1..0) = {{}} OBVIOUS
  <2>2. KeptIter(ws, s, 1..0, [t \in SUBSET (1..0) |-> 0]) BY <2>1 DEF KeptIter
  <2> QED BY <2>2
<1>2. ASSUME NEW k \in Nat, k \in T
      PROVE  k + 1 \in T
  <2>1. PICK it : KeptIter(ws, s, 1..k, it) BY <1>2
  <2> DEFINE more == [t \in SUBSET (1..(k + 1)) |->
                        IF k + 1 \in t THEN it[t \ {k + 1}] + kept(ws[s[k + 1]]) ELSE it[t]]
  <2>2. ASSUME NEW t \in SUBSET (1..(k + 1))
        PROVE  more[t] = IF t = {} THEN 0 ELSE more[t \ {Max(t)}] + kept(ws[s[Max(t)]])
    <3>1. CASE k + 1 \in t
      <4>1. Max(t) = k + 1
        <5>1. Max(t) \in t /\ \A y \in t : Max(t) >= y
          <6>1. t \subseteq 0..(k + 1) /\ t # {} /\ k + 1 \in Nat BY <3>1
          <6> QED BY <6>1, GreatestOf
        <5>2. Max(t) \in 1..(k + 1) /\ Max(t) >= k + 1 BY <5>1, <3>1
        <5> QED BY <5>2
      <4>2. t \ {k + 1} \in SUBSET (1..(k + 1)) /\ k + 1 \notin t \ {k + 1} OBVIOUS
      <4>3. more[t \ {k + 1}] = it[t \ {k + 1}] BY <4>2
      <4> QED BY <3>1, <4>1, <4>3
    <3>2. CASE k + 1 \notin t
      <4>1. t \in SUBSET (1..k) BY <3>2
      <4>2. it[t] = IF t = {} THEN 0 ELSE it[t \ {Max(t)}] + kept(ws[s[Max(t)]]) BY <2>1, <4>1 DEF KeptIter
      <4>3. t # {} => more[t \ {Max(t)}] = it[t \ {Max(t)}]
        <5>1. t \ {Max(t)} \in SUBSET (1..(k + 1)) /\ k + 1 \notin t \ {Max(t)} BY <3>2
        <5> QED BY <5>1
      <4>4. more[t] = it[t] BY <3>2
      <4> QED BY <4>2, <4>3, <4>4
    <3> QED BY <3>1, <3>2
  <2>3. KeptIter(ws, s, 1..(k + 1), more) BY <2>2 DEF KeptIter
  <2> QED BY <2>3
<1> HIDE DEF T
<1>3. n \in T BY <1>1, <1>2, NatSetInduction
<1> QED BY <1>3 DEF T

KeptOf(ws, s) == FoldLeft(LAMBDA n, p : n + kept(ws[p]), 0, s)

KeptRun(ws, s, n, r) ==
  /\ r[0] = 0 /\ KeptOf(ws, s) = r[n]
  /\ \A i \in 1..n : r[i] = r[i - 1] + kept(ws[s[i]])

LEMMA KeptTurns ==
  ASSUME NEW ws, NEW s, NEW n \in Nat, DOMAIN s = 1..n
  PROVE  \E r : KeptRun(ws, s, n, r)
<1> DEFINE it == CHOOSE it : KeptIter(ws, s, 1..n, it)
<1>1. KeptOf(ws, s) = it[1..n] BY Zenon DEF KeptOf, FoldLeft, MapThenFoldSet, KeptIter
<1>2. KeptIter(ws, s, 1..n, it) BY KeptIterExists
<1> HIDE DEF it
<1> DEFINE r == [i \in 0..n |-> it[1..i]]
<1>3. ASSUME NEW i \in 1..n
      PROVE  r[i] = r[i - 1] + kept(ws[s[i]])
  <2>1. (1..i) \in SUBSET (1..n) /\ 1..i # {} OBVIOUS
  <2>2. Max(1..i) = i
    <3>1. 1..i \subseteq 0..i /\ i \in Nat OBVIOUS
    <3>2. Max(1..i) \in 1..i /\ \A y \in 1..i : Max(1..i) >= y BY <2>1, <3>1, GreatestOf
    <3> QED BY <3>2
  <2>3. (1..i) \ {i} = 1..(i - 1) OBVIOUS
  <2>4. it[1..i] = it[1..(i - 1)] + kept(ws[s[i]]) BY <1>2, <2>1, <2>2, <2>3 DEF KeptIter
  <2>5. r[i] = it[1..i] /\ r[i - 1] = it[1..(i - 1)] OBVIOUS
  <2> QED BY <2>4, <2>5
<1>4. r[0] = 0
  <2>1. {} \in SUBSET (1..n) /\ 1..0 = {} OBVIOUS
  <2> QED BY <1>2, <2>1 DEF KeptIter
<1>5. r[n] = it[1..n] OBVIOUS
<1> HIDE DEF r
<1>6. KeptRun(ws, s, n, r) BY <1>1, <1>3, <1>4, <1>5 DEF KeptRun
<1> QED BY <1>6

LEMMA PartitionsInOrder ==
  LET s == Ascending(Partitions)
  IN /\ s \in Seq(Partitions) /\ Sorted(s) /\ Len(s) \in Nat /\ DOMAIN s = 1..Len(s)
     /\ \A p \in Partitions : \E i \in DOMAIN s : s[i] = p
     /\ \A i, j \in DOMAIN s : s[i] = s[j] => i = j
<1> DEFINE s == Ascending(Partitions)
<1>1. PICK n \in Nat : Partitions \subseteq 0..n BY ScanAssumption, FiniteBound
<1>2. s \in Seq(Partitions) /\ Sorted(s) /\ \A p \in Partitions : \E i \in DOMAIN s : s[i] = p
  BY <1>1, AscendingFacts
<1> HIDE DEF s
<1>3. Len(s) \in Nat /\ DOMAIN s = 1..Len(s) /\ \A i \in DOMAIN s : s[i] \in Nat
  <2>1. Partitions \subseteq Nat BY ScanAssumption
  <2>2. Len(s) \in Nat /\ DOMAIN s = 1..Len(s) /\ \A i \in DOMAIN s : s[i] \in Partitions BY <1>2
  <2> QED BY <2>1, <2>2
<1>4. ASSUME NEW i \in DOMAIN s, NEW j \in DOMAIN s, s[i] = s[j], i # j PROVE FALSE
  <2>1. i < j \/ j < i BY <1>3, <1>4
  <2> QED BY <1>2, <1>3, <1>4, <2>1 DEF Sorted
<1> QED BY <1>2, <1>3, <1>4 DEF s

(* The sum of one walk more or less.                                       *)
LEMMA KeptTotalStep ==
  ASSUME NEW ws, NEW us, NEW p \in Partitions,
         \A q \in Partitions : kept(ws[q]) \in Nat /\ kept(us[q]) \in Nat,
         \A q \in Partitions \ {p} : kept(us[q]) = kept(ws[q])
  PROVE  /\ KeptTotal(ws) \in Nat /\ KeptTotal(us) \in Nat
         /\ KeptTotal(us) = KeptTotal(ws) - kept(ws[p]) + kept(us[p])
<1>1. PICK s : s = Ascending(Partitions) OBVIOUS
<1>2. /\ s \in Seq(Partitions) /\ Len(s) \in Nat /\ DOMAIN s = 1..Len(s)
      /\ \A i, j \in DOMAIN s : s[i] = s[j] => i = j
      /\ \E i \in DOMAIN s : s[i] = p
  BY <1>1, PartitionsInOrder
<1>3. PICK n \in Nat : n = Len(s) /\ DOMAIN s = 1..n BY <1>2
<1>4. PICK k \in 1..n : s[k] = p BY <1>2, <1>3
<1>5. PICK a : KeptRun(ws, s, n, a) BY <1>3, KeptTurns
<1>6. PICK b : KeptRun(us, s, n, b) BY <1>3, KeptTurns
<1>7. PICK x \in Nat, y \in Nat : x = kept(ws[p]) /\ y = kept(us[p]) OBVIOUS
<1> DEFINE T == {i \in Nat : i <= n =>
                   /\ a[i] \in Nat /\ b[i] \in Nat
                   /\ b[i] = IF i < k THEN a[i] ELSE a[i] - x + y}
<1>8. 0 \in T BY <1>4, <1>5, <1>6 DEF KeptRun
<1>9. ASSUME NEW i \in Nat, i \in T
      PROVE  i + 1 \in T
  <2> SUFFICES ASSUME i + 1 <= n
               PROVE  /\ a[i + 1] \in Nat /\ b[i + 1] \in Nat
                      /\ b[i + 1] = IF i + 1 < k THEN a[i + 1] ELSE a[i + 1] - x + y
    OBVIOUS
  <2>1. a[i] \in Nat /\ b[i] \in Nat /\ b[i] = IF i < k THEN a[i] ELSE a[i] - x + y BY <1>3, <1>9
  <2>2. i + 1 \in 1..n /\ (i + 1) - 1 = i BY <1>3
  <2>3. a[i + 1] = a[i] + kept(ws[s[i + 1]]) /\ b[i + 1] = b[i] + kept(us[s[i + 1]])
    BY <1>5, <1>6, <2>2 DEF KeptRun
  <2>4. s[i + 1] \in Partitions BY <1>2, <1>3, <2>2
  <2>5. PICK f \in Nat, g \in Nat : f = kept(ws[s[i + 1]]) /\ g = kept(us[s[i + 1]]) BY <2>4
  <2>6. CASE i + 1 = k
    <3>1. f = x /\ g = y BY <1>4, <1>7, <2>5, <2>6
    <3> QED BY <2>1, <2>3, <2>5, <2>6, <3>1
  <2>7. CASE i + 1 # k
    <3>1. s[i + 1] # p BY <1>2, <1>3, <1>4, <2>2, <2>7
    <3>2. f = g BY <2>4, <2>5, <3>1
    <3> QED BY <1>4, <2>1, <2>3, <2>5, <2>7, <3>2
  <2> QED BY <2>6, <2>7
<1> HIDE DEF T
<1>10. n \in T BY <1>3, <1>8, <1>9, NatSetInduction
<1>11. a[n] \in Nat /\ b[n] \in Nat /\ b[n] = a[n] - x + y BY <1>3, <1>4, <1>10 DEF T
<1>12. KeptTotal(ws) = KeptOf(ws, s) /\ KeptTotal(us) = KeptOf(us, s) BY <1>1 DEF KeptTotal, KeptOf
<1> QED BY <1>5, <1>6, <1>7, <1>11, <1>12 DEF KeptRun

LEMMA KeptTotalSame ==
  ASSUME NEW ws, NEW us,
         \A q \in Partitions : kept(ws[q]) \in Nat /\ kept(us[q]) = kept(ws[q])
  PROVE  KeptTotal(ws) \in Nat /\ KeptTotal(us) = KeptTotal(ws)
<1>1. CASE \E p \in Partitions : TRUE
  <2>1. PICK p \in Partitions : TRUE BY <1>1
  <2>2. PICK x \in Nat : x = kept(ws[p]) /\ x = kept(us[p]) BY <2>1
  <2>3. /\ KeptTotal(ws) \in Nat /\ KeptTotal(us) \in Nat
        /\ KeptTotal(us) = KeptTotal(ws) - kept(ws[p]) + kept(us[p])
    BY KeptTotalStep
  <2> QED BY <2>2, <2>3
<1>2. CASE Partitions = {}
  <2>1. PICK s : s = Ascending(Partitions) OBVIOUS
  <2>2. s \in Seq(Partitions) /\ Len(s) \in Nat /\ DOMAIN s = 1..Len(s) BY <2>1, PartitionsInOrder
  <2>3. Len(s) = 0 BY <1>2, <2>2
  <2>4. DOMAIN s = 1..0 BY <2>2, <2>3
  <2>5. KeptOf(ws, s) = 0 /\ KeptOf(us, s) = 0
    <3>1. \E r : KeptRun(ws, s, 0, r) BY <2>4, KeptTurns
    <3>2. \E r : KeptRun(us, s, 0, r) BY <2>4, KeptTurns
    <3> QED BY <3>1, <3>2 DEF KeptRun
  <2>6. KeptTotal(ws) = KeptOf(ws, s) /\ KeptTotal(us) = KeptOf(us, s) BY <2>1 DEF KeptTotal, KeptOf
  <2> QED BY <2>5, <2>6
<1> QED BY <1>1, <1>2

-----------------------------------------------------------------------------
(* A window and an answer *)

FreshIn(outs, c, w) ==
  LET found == Ascending({ i \in DOMAIN outs :
                             /\ outs[i].ok /\ outs[i].offset >= c.start /\ outs[i].offset < w.window_end
                             /\ outs[i].offset \notin Rejected })
  IN [i \in DOMAIN found |-> outs[found[i]]]

LEMMA FreshFacts ==
  ASSUME NEW c, NEW w, NEW outs \in Seq(Outcome), Rising(outs)
  PROVE  /\ FreshIn(outs, c, w) \in Seq(Outcome) /\ Rising(FreshIn(outs, c, w))
         /\ \A k \in DOMAIN FreshIn(outs, c, w) : \E m \in DOMAIN outs :
              /\ FreshIn(outs, c, w)[k] = outs[m] /\ outs[m].ok /\ outs[m].offset \notin Rejected
              /\ outs[m].offset >= c.start /\ outs[m].offset < w.window_end
         /\ \A o : Has(outs, o) /\ o >= c.start /\ o < w.window_end /\ o \notin Rejected =>
              Found(FreshIn(outs, c, w), o)
<1> DEFINE S == { i \in DOMAIN outs :
                    /\ outs[i].ok /\ outs[i].offset >= c.start /\ outs[i].offset < w.window_end
                    /\ outs[i].offset \notin Rejected }
           s == Ascending(S)
           t == FreshIn(outs, c, w)
<1>1. Len(outs) \in Nat /\ DOMAIN outs = 1..Len(outs) OBVIOUS
<1>2. S \in SUBSET (0..Len(outs)) BY <1>1
<1>3. s \in Seq(S) /\ Sorted(s) /\ \A x \in S : \E i \in DOMAIN s : s[i] = x BY <1>1, <1>2, AscendingFacts
<1>4. t = [i \in DOMAIN s |-> outs[s[i]]] BY DEF FreshIn
<1> HIDE DEF s, t
<1>5. Len(s) \in Nat /\ DOMAIN s = 1..Len(s) /\ \A i \in DOMAIN s : s[i] \in S BY <1>3
<1>6. \A i \in DOMAIN s : s[i] \in DOMAIN outs /\ outs[s[i]] \in Outcome BY <1>5
<1>7. t \in Seq(Outcome) BY <1>4, <1>5, <1>6
<1>8. Rising(t) BY <1>3, <1>4, <1>6 DEF Rising, Sorted
<1>9. \A k \in DOMAIN t : \E m \in DOMAIN outs :
        /\ t[k] = outs[m] /\ outs[m].ok /\ outs[m].offset \notin Rejected
        /\ outs[m].offset >= c.start /\ outs[m].offset < w.window_end
  BY <1>4, <1>5
<1>10. ASSUME NEW o, Has(outs, o), o >= c.start, o < w.window_end, o \notin Rejected
       PROVE  Found(t, o)
  <2>1. PICK m \in DOMAIN outs : outs[m].ok /\ outs[m].offset = o BY <1>10 DEF Has
  <2>2. m \in S BY <1>10, <2>1
  <2>3. PICK i \in DOMAIN s : s[i] = m BY <1>3, <2>2
  <2> QED BY <1>4, <2>1, <2>3 DEF Found
<1> QED BY <1>7, <1>8, <1>9, <1>10 DEF t

(* Records in front of later ones.                                         *)
LEMMA Joined ==
  ASSUME NEW a \in Seq(Outcome), NEW b \in Seq(Outcome), Rising(a), Rising(b),
         \A i \in DOMAIN a, j \in DOMAIN b : a[i].offset < b[j].offset
  PROVE  /\ a \o b \in Seq(Outcome) /\ Rising(a \o b)
         /\ \A k \in DOMAIN (a \o b) : \/ \E i \in DOMAIN a : (a \o b)[k] = a[i]
                                       \/ \E j \in DOMAIN b : (a \o b)[k] = b[j]
         /\ \A o : Found(a, o) \/ Found(b, o) => Found(a \o b, o)
<1> DEFINE s == a \o b
           m == Len(a)
           n == Len(b)
<1>1. /\ m \in Nat /\ n \in Nat /\ DOMAIN a = 1..m /\ DOMAIN b = 1..n
      /\ s \in Seq(Outcome) /\ DOMAIN s = 1..(m + n)
  OBVIOUS
<1>2. /\ \A i \in DOMAIN a : i \in DOMAIN s /\ s[i] = a[i]
      /\ \A j \in DOMAIN b : m + j \in DOMAIN s /\ s[m + j] = b[j]
  OBVIOUS
<1>3. \A k \in DOMAIN s : k \in DOMAIN a \/ (k - m \in DOMAIN b /\ m + (k - m) = k /\ k > m) BY <1>1
<1> HIDE DEF s, m, n
<1>4. \A k \in DOMAIN s : \/ k \in DOMAIN a /\ s[k] = a[k]
                          \/ k - m \in DOMAIN b /\ s[k] = b[k - m] /\ k > m
  BY <1>2, <1>3
<1>5. Rising(s)
  <2> SUFFICES ASSUME NEW i \in DOMAIN s, NEW j \in DOMAIN s, i < j
               PROVE  s[i].offset < s[j].offset
    BY DEF Rising
  <2>1. i \in Nat /\ j \in Nat /\ m \in Nat BY <1>1
  <2>2. CASE i \in DOMAIN a /\ j \in DOMAIN a
    <3>1. a[i].offset < a[j].offset BY <2>2 DEF Rising
    <3> QED BY <3>1, <2>2, <1>2
  <2>3. CASE i \in DOMAIN a /\ j \notin DOMAIN a
    <3>1. j - m \in DOMAIN b /\ s[j] = b[j - m] /\ s[i] = a[i] BY <2>3, <1>2, <1>4
    <3>2. a[i].offset < b[j - m].offset BY <3>1, <2>3
    <3> QED BY <3>1, <3>2
  <2>4. CASE i \notin DOMAIN a
    <3>1. i - m \in DOMAIN b /\ s[i] = b[i - m] /\ i > m BY <2>4, <1>4
    <3>2. j \notin DOMAIN a BY <3>1, <2>1, <1>1
    <3>3. j - m \in DOMAIN b /\ s[j] = b[j - m] BY <3>2, <1>4
    <3>4. i - m < j - m BY <2>1
    <3> QED BY <3>1, <3>3, <3>4 DEF Rising
  <2> QED BY <2>2, <2>3, <2>4
<1>6. \A k \in DOMAIN s : (\E i \in DOMAIN a : s[k] = a[i]) \/ (\E j \in DOMAIN b : s[k] = b[j]) BY <1>4
<1>7. \A o : Found(a, o) \/ Found(b, o) => Found(s, o) BY <1>2 DEF Found
<1> QED BY <1>1, <1>5, <1>6, <1>7 DEF s

(* What is wanted of a partition is in its log, in the range of the walk.  *)
LEMMA WantFacts ==
  ASSUME NEW p, NEW l, IsLog(l.batches), NEW w, NEW t, NEW o \in Want(p, l, w, t)
  PROVE  /\ o \in VisibleOffsets(l.batches, t.visibility) /\ o \notin Rejected /\ o \in Nat
         /\ o < EndFor(l.batches, t.visibility) /\ w.log_start <= o /\ o < w.log_end
BY VisibleNat DEF Want

(* One turn of read_window that gets further.                              *)
LEMMA WindowTurn ==
  ASSUME NEW p, NEW l, LogGood(p, l), NEW w, WalkShape(w), NEW t, NEW c, ChunkShape(l, w, c),
         NEW budget \in Nat, NEW outs,
         outs = decode_partition(Answer(l.batches, c.offset, EndFor(l.batches, t.visibility), budget),
                                 t.visibility).outcomes,
         outs # <<>>, NEW next, next = last_offset(Last(outs)) + 1, ~(next <= c.offset)
  PROVE  /\ outs \in Seq(Outcome) /\ Rising(outs)
         /\ next \in Nat /\ c.offset < next /\ next <= LogEnd(l.batches)
         /\ l.whole /\ WalkGood(p, l, w, t) /\ ChunkGood(p, l, w, t, c) =>
              ChunkGood(p, l, w, t, [c EXCEPT !.records = @ \o FreshIn(outs, c, w), !.offset = next])
<1> DEFINE L == l.batches
           v == t.visibility
           stable == EndFor(L, v)
           from == c.offset
           answer == Answer(L, from, stable, budget)
           d == decode_partition(answer, v)
<1>1. IsLog(L) /\ (l.whole => TailsIntact(L)) BY DEF LogGood
<1>2. stable \in Nat /\ LogEnd(L) \in Nat BY <1>1, EndForFacts, LogEndFacts
<1>3. from \in Nat /\ c.start \in Nat /\ c.start <= from /\ c.records \in Seq(Outcome)
      /\ w.log_start <= c.start
  BY DEF ChunkShape
<1>4. PICK lo, n, broken :
        /\ Sends(L, from, stable, budget, answer, lo, n)
        /\ Decodes(L, v, answer, d, lo, n, broken)
  <2>1. IsLog(L) /\ from \in Int /\ stable \in Int /\ budget \in Nat BY <1>1, <1>2, <1>3
  <2> HIDE DEF L, from, stable, v
  <2> QED BY <2>1, Decoded
<1>5. outs = d.outcomes OBVIOUS
<1> HIDE DEF answer, d
<1>6. Stretch(L, lo, n, from, stable) BY <1>4 DEF Sends
<1>7. OutInv(L, lo, v, outs, n) /\ Complete(L, lo, v, outs, broken, n) /\ (broken => EndsBroken(outs))
  BY <1>4, <1>5 DEF Decodes
<1>8. outs \in Seq(Outcome) /\ Rising(outs) BY <1>7 DEF OutInv
<1>9. last_offset(Last(outs)) \in Int
  <2>1. Last(outs) \in Outcome
    <3>1. Len(outs) \in DOMAIN outs BY <1>8
    <3> QED BY <1>8, <3>1 DEF Last
  <2>2. \A z \in Outcome : last_offset(z) \in Int BY DEF Outcome, last_offset
  <2> QED BY <2>1, <2>2
<1>10. next = Larger(last_offset(Last(outs)) + 1, from + 1) BY <1>3, <1>9 DEF Larger
<1>11. /\ next \in Nat /\ from < next /\ next <= LogEnd(L)
       /\ \A k \in DOMAIN outs : outs[k].offset < next
       /\ \A o \in VisibleOffsets(L, v) : from <= o /\ o < next => Has(outs, o)
       /\ TailsIntact(L) =>
            \A i \in DOMAIN L : Seen(L[i], v) /\ L[i].last >= next => L[i].base >= next
  <2> HIDE DEF L, v, stable, from
  <2> QED BY <1>1, <1>3, <1>6, <1>7, <1>10, OutcomesAdvance
<1>12. ASSUME l.whole, WalkGood(p, l, w, t), ChunkGood(p, l, w, t, c)
       PROVE  ChunkGood(p, l, w, t, [c EXCEPT !.records = @ \o FreshIn(outs, c, w), !.offset = next])
  <2> DEFINE fresh == FreshIn(outs, c, w)
             records == c.records \o fresh
             W == Want(p, l, w, t)
  <2>1. /\ Rising(c.records)
        /\ \A k \in DOMAIN c.records :
             /\ c.records[k].offset \in W /\ c.start <= c.records[k].offset
             /\ c.records[k].offset < from /\ c.records[k].offset < w.window_end
        /\ \A o \in W : c.start <= o /\ o < from /\ o < w.window_end => Found(c.records, o)
        /\ Aligned(L, v, [start |-> c.start, next |-> from])
    BY <1>12 DEF ChunkGood
  <2>2. /\ fresh \in Seq(Outcome) /\ Rising(fresh)
        /\ \A k \in DOMAIN fresh : \E m \in DOMAIN outs :
              /\ fresh[k] = outs[m] /\ outs[m].ok /\ outs[m].offset \notin Rejected
              /\ outs[m].offset >= c.start /\ outs[m].offset < w.window_end
        /\ \A o : Has(outs, o) /\ o >= c.start /\ o < w.window_end /\ o \notin Rejected => Found(fresh, o)
    <3>1. PICK z : z = outs OBVIOUS
    <3>2. z \in Seq(Outcome) /\ Rising(z) BY <1>8, <3>1
    <3>3. /\ FreshIn(z, c, w) \in Seq(Outcome) /\ Rising(FreshIn(z, c, w))
          /\ \A k \in DOMAIN FreshIn(z, c, w) : \E m \in DOMAIN z :
               /\ FreshIn(z, c, w)[k] = z[m] /\ z[m].ok /\ z[m].offset \notin Rejected
               /\ z[m].offset >= c.start /\ z[m].offset < w.window_end
          /\ \A o : Has(z, o) /\ o >= c.start /\ o < w.window_end /\ o \notin Rejected =>
               Found(FreshIn(z, c, w), o)
      BY ONLY <3>2, FreshFacts
    <3> QED BY ONLY <3>1, <3>3 DEF fresh
  <2> HIDE DEF fresh
  <2>3. ASSUME NEW k \in DOMAIN fresh
        PROVE  /\ fresh[k].offset \in W /\ c.start <= fresh[k].offset /\ fresh[k].offset \in Nat
               /\ fresh[k].offset < next /\ fresh[k].offset < w.window_end /\ fresh[k].offset >= from
    <3>1. PICK m \in DOMAIN outs :
              /\ fresh[k] = outs[m] /\ outs[m].ok /\ outs[m].offset \notin Rejected
              /\ outs[m].offset >= c.start /\ outs[m].offset < w.window_end
      BY <2>2
    <3>2. PICK o \in Nat : o = outs[m].offset
      <4>1. outs[m] \in Outcome BY <1>8
      <4> QED BY <4>1 DEF Outcome
    <3>3. /\ o \in VisibleOffsets(L, v)
          /\ \E x \in DOMAIN L : Seen(L[x], v) /\ L[x].last >= from /\ o \in L[x].offs
      <4> HIDE DEF L, v, stable, from
      <4> QED BY <1>1, <1>6, <1>7, <3>1, <3>2, OkVisible
    <3>4. o >= from BY <2>1, <3>1, <3>2, <3>3 DEF Aligned
    <3>5. o < stable
      <4>1. PICK x \in DOMAIN L : Seen(L[x], v) /\ o \in L[x].offs /\ L[x].base < stable
        <5>1. PICK j \in 1..n : From(outs[m], L[lo + j], v) BY <1>7 DEF OutInv
        <5>2. PICK x : x = lo + j OBVIOUS
        <5>3. x \in DOMAIN L /\ L[x].base < stable
          <6>1. DOMAIN L = 1..Len(L) /\ Len(L) \in Nat BY <1>1 DEF IsLog
          <6>2. lo \in Nat /\ n \in Nat /\ lo + n <= Len(L) /\ L[lo + j].base < stable BY <1>6 DEF Stretch
          <6> QED BY <5>2, <6>1, <6>2
        <5>4. Seen(L[x], v) /\ o \in L[x].offs BY <5>1, <5>2, <3>1, <3>2 DEF From
        <5> QED BY <5>3, <5>4
      <4>2. L[x].last < stable BY <1>1, <4>1, EndForFacts
      <4>3. L[x].base \in Nat /\ L[x].last \in Nat /\ L[x].offs \subseteq L[x].base..L[x].last BY <1>1, LogOne
      <4> QED BY <1>2, <4>1, <4>2, <4>3
    <3>6. w.log_start <= o /\ o < w.log_end /\ o < w.window_end BY <1>3, <3>1, <3>2 DEF WalkShape
    <3>7. AtOrBefore(p, o, t.anchor) BY <1>12, <3>3, <3>6 DEF WalkGood
    <3>8. o \in W BY <3>1, <3>2, <3>3, <3>5, <3>6, <3>7 DEF Want
    <3>9. o < next BY <1>11, <3>2
    <3> QED BY <3>1, <3>2, <3>4, <3>6, <3>8, <3>9
  <2>4. \A i \in DOMAIN c.records, j \in DOMAIN fresh : c.records[i].offset < fresh[j].offset
    <3> SUFFICES ASSUME NEW i \in DOMAIN c.records, NEW j \in DOMAIN fresh
                 PROVE  c.records[i].offset < fresh[j].offset
      OBVIOUS
    <3>1. c.records[i].offset < from /\ c.records[i].offset \in Nat BY <1>1, <2>1, WantFacts
    <3> QED BY <1>3, <2>3, <3>1
  <2>5. /\ records \in Seq(Outcome) /\ Rising(records)
        /\ \A k \in DOMAIN records : \/ \E i \in DOMAIN c.records : records[k] = c.records[i]
                                     \/ \E j \in DOMAIN fresh : records[k] = fresh[j]
        /\ \A o : Found(c.records, o) \/ Found(fresh, o) => Found(records, o)
    BY <1>3, <2>1, <2>2, <2>4, Joined
  <2> HIDE DEF records
  <2>6. ASSUME NEW k \in DOMAIN records
        PROVE  /\ records[k].offset \in W /\ c.start <= records[k].offset
               /\ records[k].offset < next /\ records[k].offset < w.window_end
    <3>1. CASE \E i \in DOMAIN c.records : records[k] = c.records[i]
      <4>1. PICK i \in DOMAIN c.records : records[k] = c.records[i] BY <3>1
      <4>2. c.records[i].offset \in W /\ c.start <= c.records[i].offset
            /\ c.records[i].offset < from /\ c.records[i].offset < w.window_end
        BY <2>1
      <4>3. c.records[i].offset \in Nat BY <1>1, <4>2, WantFacts
      <4> QED BY <1>3, <1>11, <4>1, <4>2, <4>3
    <3>2. CASE \E j \in DOMAIN fresh : records[k] = fresh[j] BY <2>3, <3>2
    <3> QED BY <2>5, <3>1, <3>2
  <2>7. ASSUME NEW o \in W, c.start <= o, o < next, o < w.window_end
        PROVE  Found(records, o)
    <3>1. o \in VisibleOffsets(L, v) /\ o \notin Rejected /\ o \in Nat BY <1>1, WantFacts
    <3>2. CASE o < from BY <2>1, <2>5, <2>7, <3>2
    <3>3. CASE from <= o
      <4>1. Has(outs, o) BY <1>11, <2>7, <3>1, <3>3
      <4> QED BY <1>3, <2>2, <2>5, <2>7, <3>1, <4>1
    <3> QED BY <1>3, <3>1, <3>2, <3>3
  <2>8. Aligned(L, v, [start |-> c.start, next |-> next])
    <3> SUFFICES ASSUME NEW i \in DOMAIN L, Seen(L[i], v), L[i].last >= next,
                        NEW o \in L[i].offs
                 PROVE  o >= next
      BY DEF Aligned
    <3>1. L[i].base >= next BY <1>1, <1>11, <1>12
    <3>2. L[i].base \in Nat /\ L[i].last \in Nat /\ L[i].offs \subseteq L[i].base..L[i].last BY <1>1, LogOne
    <3> QED BY <1>11, <3>1, <3>2
  <2>9. PICK e : e = [c EXCEPT !.records = records, !.offset = next] OBVIOUS
  <2>10. e.records = records /\ e.offset = next /\ e.start = c.start BY <2>9 DEF ChunkShape
  <2>11. ChunkGood(p, l, w, t, e) BY <2>5, <2>6, <2>7, <2>8, <2>10 DEF ChunkGood
  <2> QED BY <2>9, <2>11 DEF records, fresh
<1> QED BY <1>3, <1>8, <1>11, <1>12

(* A window that was read to its end joins what the walk has.              *)
LEMMA WindowEnds ==
  ASSUME NEW p, NEW l, IsLog(l.batches), NEW w, WalkShape(w), NEW t, NEW c,
         c.start \in Nat, c.offset \in Nat, c.start <= w.window_end, w.log_start <= c.start,
         c.records \in Seq(Outcome), WalkGood(p, l, w, t), ChunkGood(p, l, w, t, c),
         c.offset >= w.window_end,
         NEW u, u.collected = c.records \o w.collected, u.window_end = c.start,
         u.log_start = w.log_start, u.log_end = w.log_end
  PROVE  WalkGood(p, l, u, t)
<1> DEFINE W == Want(p, l, w, t)
           s == c.records \o w.collected
<1>1. Want(p, l, u, t) = W BY DEF Want
<1>2. /\ Rising(c.records)
      /\ \A k \in DOMAIN c.records :
             /\ c.records[k].offset \in W /\ c.start <= c.records[k].offset
             /\ c.records[k].offset < w.window_end
      /\ \A o \in W : c.start <= o /\ o < c.offset /\ o < w.window_end => Found(c.records, o)
  BY DEF ChunkGood
<1>3. /\ Rising(w.collected)
      /\ \A k \in DOMAIN w.collected :
             w.collected[k].offset \in W /\ w.collected[k].offset >= w.window_end
      /\ \A o \in W : o >= w.window_end => Found(w.collected, o)
      /\ \A o \in VisibleOffsets(l.batches, t.visibility) :
             w.log_start <= o /\ o < w.window_end => AtOrBefore(p, o, t.anchor)
  BY DEF WalkGood
<1>4. w.window_end \in Nat /\ w.collected \in Seq(Outcome) BY DEF WalkShape
<1>5. \A i \in DOMAIN c.records, j \in DOMAIN w.collected : c.records[i].offset < w.collected[j].offset
  <2> SUFFICES ASSUME NEW i \in DOMAIN c.records, NEW j \in DOMAIN w.collected
               PROVE  c.records[i].offset < w.collected[j].offset
    OBVIOUS
  <2>1. c.records[i].offset \in Nat /\ w.collected[j].offset \in Nat BY <1>2, <1>3, WantFacts
  <2> QED BY <1>2, <1>3, <1>4, <2>1
<1>6. /\ Rising(s)
      /\ \A k \in DOMAIN s : \/ \E i \in DOMAIN c.records : s[k] = c.records[i]
                             \/ \E j \in DOMAIN w.collected : s[k] = w.collected[j]
      /\ \A o : Found(c.records, o) \/ Found(w.collected, o) => Found(s, o)
  BY <1>2, <1>3, <1>4, <1>5, Joined
<1> HIDE DEF s
<1>7. ASSUME NEW k \in DOMAIN s PROVE s[k].offset \in W /\ s[k].offset >= c.start
  <2>1. CASE \E i \in DOMAIN c.records : s[k] = c.records[i]
    <3>1. PICK i \in DOMAIN c.records : s[k] = c.records[i] BY <2>1
    <3>2. c.records[i].offset \in W /\ c.start <= c.records[i].offset BY <1>2
    <3>3. c.records[i].offset \in Nat BY <3>2, WantFacts
    <3> QED BY <3>1, <3>2, <3>3
  <2>2. CASE \E j \in DOMAIN w.collected : s[k] = w.collected[j]
    <3>1. PICK j \in DOMAIN w.collected : s[k] = w.collected[j] BY <2>2
    <3>2. w.collected[j].offset \in W /\ w.collected[j].offset >= w.window_end BY <1>3
    <3>3. w.collected[j].offset \in Nat BY <3>2, WantFacts
    <3> QED BY <1>4, <3>1, <3>2, <3>3
  <2> QED BY <1>6, <2>1, <2>2
<1>8. ASSUME NEW o \in W, o >= c.start PROVE Found(s, o)
  <2>1. o \in Nat BY WantFacts
  <2>2. CASE o < w.window_end BY <1>2, <1>4, <1>6, <1>8, <2>1, <2>2
  <2>3. CASE o >= w.window_end BY <1>3, <1>6, <2>3
  <2> QED BY <1>4, <2>1, <2>2, <2>3
<1>9. ASSUME NEW o \in VisibleOffsets(l.batches, t.visibility), w.log_start <= o, o < c.start
      PROVE  AtOrBefore(p, o, t.anchor)
  <2>1. o \in Nat BY VisibleNat
  <2>2. o < w.window_end BY <1>4, <1>9, <2>1
  <2> QED BY <1>3, <1>9, <2>2
<1>10. u.collected = s BY DEF s
<1> QED BY <1>1, <1>6, <1>7, <1>8, <1>9, <1>10 DEF WalkGood

LEMMA KeptTotalNone ==
  ASSUME NEW ws, \A q \in Partitions : kept(ws[q]) = 0
  PROVE  KeptTotal(ws) = 0
<1>1. PICK s : s = Ascending(Partitions) OBVIOUS
<1>2. s \in Seq(Partitions) /\ Len(s) \in Nat /\ DOMAIN s = 1..Len(s) BY <1>1, PartitionsInOrder
<1>3. PICK n \in Nat : n = Len(s) /\ DOMAIN s = 1..n BY <1>2
<1>4. PICK a : KeptRun(ws, s, n, a) BY <1>3, KeptTurns
<1> DEFINE T == {i \in Nat : i <= n => a[i] = 0}
<1>5. 0 \in T BY <1>4 DEF KeptRun
<1>6. ASSUME NEW i \in Nat, i \in T PROVE i + 1 \in T
  <2> SUFFICES ASSUME i + 1 <= n PROVE a[i + 1] = 0 OBVIOUS
  <2>1. i + 1 \in 1..n /\ (i + 1) - 1 = i /\ a[i] = 0 BY <1>3, <1>6
  <2>2. a[i + 1] = a[i] + kept(ws[s[i + 1]]) BY <1>4, <2>1 DEF KeptRun
  <2>3. kept(ws[s[i + 1]]) = 0 BY <1>2, <1>3, <2>1
  <2> QED BY <2>1, <2>2, <2>3
<1> HIDE DEF T
<1>7. n \in T BY <1>3, <1>5, <1>6, NatSetInduction
<1>8. a[n] = 0 BY <1>3, <1>7 DEF T
<1>9. KeptTotal(ws) = KeptOf(ws, s) BY <1>1 DEF KeptTotal, KeptOf
<1> QED BY <1>4, <1>8, <1>9 DEF KeptRun

-----------------------------------------------------------------------------
(* The anchor *)

(* The first record at or after an instant.                                *)
FirstFrom(p, L, at, found) ==
  /\ found = None => \A i \in DOMAIN L : \A o \in L[i].offs : ~(Timestamps[p][o] >= at)
  /\ found # None =>
       /\ found \in Nat /\ found < LogEnd(L) /\ Timestamps[p][found] >= at
       /\ \E i \in DOMAIN L : found \in L[i].offs
       /\ \A i \in DOMAIN L : \A o \in L[i].offs : Timestamps[p][o] >= at => found <= o

LEMMA FirstAt ==
  ASSUME NEW p, NEW l, IsLog(l.batches), l.start = 0, NEW at, NEW found,
         found = at_timestamp(p, l, at)
  PROVE  FirstFrom(p, l.batches, at, found)
<1> DEFINE L == l.batches
           later == { o \in UNION { b.offs : b \in ToSet(L) } : o >= l.start /\ Timestamps[p][o] >= at }
<1>1. found = IF later = {} THEN None ELSE CHOOSE o \in later : \A q \in later : o <= q BY DEF at_timestamp
<1>2. ASSUME NEW i \in DOMAIN L, NEW o \in L[i].offs
      PROVE  o \in Nat /\ o < LogEnd(L) /\ (Timestamps[p][o] >= at => o \in later)
  <2>1. /\ L[i].base \in Nat /\ L[i].last \in Nat /\ L[i].offs \subseteq L[i].base..L[i].last
        /\ L[i].last < LogEnd(L) /\ LogEnd(L) \in Nat
    BY LogOne, LogEndFacts
  <2>2. PICK x \in Nat, y \in Nat, z \in Nat : x = L[i].base /\ y = L[i].last /\ z = LogEnd(L) BY <2>1
  <2>3. o \in x..y /\ y < z BY <2>1, <2>2
  <2>4. o \in Nat /\ o < LogEnd(L) BY <2>2, <2>3
  <2>5. o \in UNION { b.offs : b \in ToSet(L) } BY DEF ToSet
  <2> QED BY <2>4, <2>5
<1>3. ASSUME NEW o \in later
      PROVE  o \in Nat /\ o < LogEnd(L) /\ Timestamps[p][o] >= at /\ \E i \in DOMAIN L : o \in L[i].offs
  <2>1. PICK b \in ToSet(L) : o \in b.offs OBVIOUS
  <2>2. PICK i \in DOMAIN L : b = L[i] BY DEF ToSet
  <2> QED BY <1>2, <2>1, <2>2
<1> HIDE DEF later
<1>4. CASE later = {}
  <2>1. found = None BY <1>1, <1>4
  <2> QED BY <1>2, <1>4, <2>1 DEF FirstFrom
<1>5. CASE later # {}
  <2>1. Min(later) \in later /\ \A y \in later : Min(later) <= y BY <1>3, <1>5, LeastOf
  <2>2. found \in later /\ \A q \in later : found <= q BY <1>1, <1>5, <2>1
  <2>3. found \in Nat /\ found # None BY <1>3, <2>2 DEF None
  <2> QED BY <1>2, <1>3, <2>2, <2>3 DEF FirstFrom
<1> QED BY <1>4, <1>5

LEMMA AnchorFacts ==
  ASSUME NEW p, NEW l, LogGood(p, l), l.start = 0, p \in Partitions, NEW anchor,
         anchor.kind \in {"LogEnd", "Offset", "Timestamp"}, anchor.at \in Int, NEW top,
         top = resolve_anchor(p, l, anchor)
  PROVE  /\ top \in Nat /\ top <= LogEnd(l.batches)
         /\ (anchor.kind = "Timestamp" => Chronological(p)) =>
              \A i \in DOMAIN l.batches : \A o \in l.batches[i].offs :
                AtOrBefore(p, o, anchor) <=> o < top
<1> DEFINE L == l.batches
<1>1. IsLog(L) /\ \A i \in DOMAIN L : L[i].offs \subseteq DOMAIN Timestamps[p] BY DEF LogGood
<1>2. PICK end \in Nat : end = LogEnd(L) BY <1>1, LogEndFacts
<1>3. bounds(l).earliest = 0 /\ bounds(l).latest = end BY <1>2 DEF bounds, Larger
<1>4. ASSUME NEW i \in DOMAIN L, NEW o \in L[i].offs
      PROVE  o \in Nat /\ o < end /\ o \in DOMAIN Timestamps[p] /\ Timestamps[p][o] \in Nat
  <2>1. /\ L[i].base \in Nat /\ L[i].last \in Nat /\ L[i].offs \subseteq L[i].base..L[i].last
        /\ L[i].last < LogEnd(L)
    BY <1>1, LogOne, LogEndFacts
  <2>2. PICK x \in Nat, y \in Nat : x = L[i].base /\ y = L[i].last BY <2>1
  <2>3. o \in x..y /\ y < end BY <1>2, <2>1, <2>2
  <2>4. o \in DOMAIN Timestamps[p] BY <1>1
  <2> QED BY <2>3, <2>4, ScanAssumption
<1>5. PICK at \in Int : at = anchor.at OBVIOUS
<1>6. CASE anchor.kind = "LogEnd"
  <2>1. top = end BY <1>3, <1>6 DEF resolve_anchor
  <2>2. \A o : AtOrBefore(p, o, anchor) BY <1>6 DEF AtOrBefore
  <2> QED BY <1>2, <1>4, <2>1, <2>2
<1>7. CASE anchor.kind = "Offset"
  <2>1. top = clamp(at + 1, 0, end) BY <1>3, <1>5, <1>7 DEF resolve_anchor, clamp_bound
  <2>2. \A o : AtOrBefore(p, o, anchor) <=> o <= at BY <1>5, <1>7 DEF AtOrBefore
  <2>3. top \in Nat /\ top <= end /\ \A o \in Nat : o < end => (o <= at <=> o < top)
    BY <2>1 DEF clamp, Smaller, Larger
  <2> QED BY <1>2, <1>4, <2>2, <2>3
<1>8. CASE anchor.kind = "Timestamp"
  <2>1. PICK probe \in Nat : probe = timestamp_probe(at) /\ \A x \in Nat : x >= probe <=> ~(x <= at)
    BY DEF timestamp_probe, Larger
  <2>2. PICK found : found = at_timestamp(p, l, probe) OBVIOUS
  <2>3. FirstFrom(p, L, probe, found) BY <1>1, <2>2, FirstAt
  <2>4. top = IF found = None THEN end ELSE clamp(found, 0, end)
    BY <1>3, <1>5, <1>8, <2>1, <2>2 DEF resolve_anchor, clamp_bound
  <2>5. \A o : AtOrBefore(p, o, anchor) <=> Timestamps[p][o] <= at BY <1>5, <1>8 DEF AtOrBefore
  <2>6. CASE found = None
    <3>1. ASSUME NEW i \in DOMAIN L, NEW o \in L[i].offs PROVE Timestamps[p][o] <= at
      <4>1. ~(Timestamps[p][o] >= probe) BY <2>6, <2>3 DEF FirstFrom
      <4> QED BY <1>4, <2>1, <4>1
    <3> QED BY <1>2, <1>4, <2>4, <2>5, <2>6, <3>1
  <2>7. CASE found # None
    <3>1. /\ found \in Nat /\ found < end /\ Timestamps[p][found] >= probe
          /\ \E i \in DOMAIN L : found \in L[i].offs
          /\ \A i \in DOMAIN L : \A o \in L[i].offs : Timestamps[p][o] >= probe => found <= o
      BY <1>2, <2>7, <2>3 DEF FirstFrom
    <3>2. top = found BY <2>4, <2>7, <3>1 DEF clamp, Smaller, Larger
    <3>3. found \in DOMAIN Timestamps[p] /\ Timestamps[p][found] \in Nat BY <1>4, <3>1
    <3>4. ASSUME Chronological(p), NEW i \in DOMAIN L, NEW o \in L[i].offs
          PROVE  Timestamps[p][o] <= at <=> o < found
      <4>1. o \in Nat /\ o \in DOMAIN Timestamps[p] /\ Timestamps[p][o] \in Nat BY <1>4
      <4>2. o < found => Timestamps[p][o] <= at
        <5>1. o < found => ~(Timestamps[p][o] >= probe) BY <3>1, <4>1
        <5> QED BY <2>1, <4>1, <5>1
      <4>3. ~(o < found) => Timestamps[p][o] >= probe
        <5>1. CASE o = found BY <3>1, <5>1
        <5>2. CASE found < o
          <6>1. Timestamps[p][found] <= Timestamps[p][o] BY <3>3, <3>4, <4>1, <5>2 DEF Chronological
          <6> QED BY <2>1, <3>1, <3>3, <4>1, <6>1
        <5> QED BY <3>1, <4>1, <5>1, <5>2
      <4> QED BY <2>1, <4>1, <4>2, <4>3
    <3> QED BY <1>2, <1>8, <2>5, <3>1, <3>2, <3>4
  <2> QED BY <2>6, <2>7
<1> QED BY <1>6, <1>7, <1>8

-----------------------------------------------------------------------------
(* The beginning *)

LEMMA DivCeilNat ==
  ASSUME NEW x \in Nat, NEW y \in Nat \ {0}
  PROVE  div_ceil(x, y) \in Nat
<1>1. PICK a \in Nat : a = x + y - 1 OBVIOUS
<1>2. a \div y \in Nat OBVIOUS
<1> QED BY <1>1, <1>2 DEF div_ceil

LEMMA ClampNat ==
  ASSUME NEW x \in Int, NEW low \in Nat, NEW high \in Nat
  PROVE  clamp(x, low, high) \in Nat
BY DEF clamp, Smaller, Larger

LEMMA FirstStepNat ==
  ASSUME NEW t \in Tails, NEW holding \in Nat
  PROVE  clamp(first_step(t, holding), 1, t.max_step) \in Nat
<1>1. t.limit \in Nat /\ t.initial_step \in Nat /\ t.max_step \in Nat /\ MinFirstStep \in Nat
  BY TailAssumption
<1>2. PICK y \in Nat \ {0} : y = Larger(holding, 1) BY DEF Larger
<1>3. PICK d \in Nat : d = div_ceil(t.limit, y) BY <1>1, DivCeilNat
<1>4. first_step(t, holding) = IF t.initial_step > 0 THEN t.initial_step ELSE Larger(2 * d, MinFirstStep)
  BY <1>2, <1>3 DEF first_step
<1>5. first_step(t, holding) \in Int BY <1>1, <1>4 DEF Larger
<1> QED BY <1>1, <1>5, ClampNat

(* A walk before its first window.                                         *)
LEMMA WalkBegins ==
  ASSUME NEW p \in Partitions, NEW t \in Tails, NEW l, LogGood(p, l), l.start = 0,
         NEW top, top = resolve_anchor(p, l, t.anchor), NEW step \in Nat, NEW w,
         w = [log_start |-> bounds(l).earliest, log_end |-> bounds(l).latest, window_end |-> top,
              step |-> step, collected |-> <<>>, target |-> 0, trimmed |-> FALSE]
  PROVE  /\ WalkShape(w) /\ w.log_end <= LogEnd(l.batches) /\ kept(w) = 0 /\ Quiet(w)
         /\ w.collected = <<>> /\ w.target = 0
         /\ (t.anchor.kind = "Timestamp" => Chronological(p)) => WalkGood(p, l, w, t)
<1>1. IsLog(l.batches) BY DEF LogGood
<1>2. PICK end \in Nat : end = LogEnd(l.batches) BY <1>1, LogEndFacts
<1>3. bounds(l).earliest = 0 /\ bounds(l).latest = end BY <1>2 DEF bounds, Larger
<1>4. /\ top \in Nat /\ top <= end
      /\ (t.anchor.kind = "Timestamp" => Chronological(p)) =>
           \A i \in DOMAIN l.batches : \A o \in l.batches[i].offs :
             AtOrBefore(p, o, t.anchor) <=> o < top
  <2>1. PICK anchor : anchor = t.anchor OBVIOUS
  <2>2. anchor.kind \in {"LogEnd", "Offset", "Timestamp"} /\ anchor.at \in Int BY <2>1, TailAssumption
  <2>3. top = resolve_anchor(p, l, anchor) BY <2>1
  <2>4. /\ top \in Nat /\ top <= LogEnd(l.batches)
        /\ (anchor.kind = "Timestamp" => Chronological(p)) =>
             \A i \in DOMAIN l.batches : \A o \in l.batches[i].offs :
               AtOrBefore(p, o, anchor) <=> o < top
    BY <2>2, <2>3, AnchorFacts
  <2> QED BY <1>2, <2>1, <2>4
<1>5. w = [log_start |-> 0, log_end |-> end, window_end |-> top, step |-> step, collected |-> <<>>,
           target |-> 0, trimmed |-> FALSE]
  BY <1>3
<1>6. /\ w.log_start = 0 /\ w.log_end = end /\ w.window_end = top /\ w.collected = <<>> /\ w.target = 0
  BY <1>5
<1>7. WalkShape(w) BY <1>4, <1>5 DEF WalkShape
<1>8. kept(w) = 0 /\ Quiet(w) /\ Len(w.collected) = 0 BY <1>6 DEF kept, Smaller, Quiet
<1>9. ASSUME t.anchor.kind = "Timestamp" => Chronological(p)
      PROVE  WalkGood(p, l, w, t)
  <2>1. DOMAIN w.collected = {} BY <1>6
  <2>2. ASSUME NEW o \in VisibleOffsets(l.batches, t.visibility)
        PROVE  AtOrBefore(p, o, t.anchor) <=> o < top
    <3>1. PICK i \in DOMAIN l.batches : o \in l.batches[i].offs BY VisibleIs
    <3> QED BY <1>4, <1>9, <3>1
  <2>3. Rising(w.collected) BY <2>1 DEF Rising
  <2>4. ASSUME NEW o \in Want(p, l, w, t), o >= w.window_end PROVE FALSE
    <3>1. o \in VisibleOffsets(l.batches, t.visibility) /\ AtOrBefore(p, o, t.anchor) /\ o \in Nat
      BY <1>1, WantFacts DEF Want
    <3> QED BY <1>4, <1>6, <2>2, <2>4, <3>1
  <2>5. \A o \in VisibleOffsets(l.batches, t.visibility) :
          w.log_start <= o /\ o < w.window_end => AtOrBefore(p, o, t.anchor)
    BY <1>6, <2>2
  <2> QED BY <2>1, <2>3, <2>4, <2>5 DEF WalkGood
<1> QED BY <1>2, <1>4, <1>6, <1>7, <1>8, <1>9

LEMMA TailBegins ==
  ASSUME LogInit, TailInit
  PROVE  TailInv
<1>1. PICK l : /\ \A p \in Partitions : l[p] \in Logs[p]
               /\ log = [p \in Partitions |->
                    [batches |-> l[p], start |-> 0, whole |-> TailsIntact(l[p])]]
  BY DEF LogInit
<1>2. faults = [growth |-> 0, deletes |-> 0, failures |-> 0] BY DEF LogInit
<1>3. ASSUME NEW p \in Partitions PROVE LogGood(p, log[p]) /\ log[p].start = 0
  <2>1. PICK L : L = l[p] OBVIOUS
  <2>2. /\ DOMAIN log[p] = {"batches", "start", "whole"} /\ log[p].batches = L /\ log[p].start = 0
        /\ log[p].whole = TailsIntact(L)
    BY <1>1, <2>1
  <2>3. IsLog(L) /\ \A i \in DOMAIN L : L[i].offs \subseteq DOMAIN Timestamps[p] BY <1>1, <2>1, ScanAssumption
  <2>4. log[p].whole => TailsIntact(L) BY <2>2 DEF TailsIntact
  <2>5. LogEnd(L) \in Nat BY <2>3, LogEndFacts
  <2> QED BY <2>2, <2>3, <2>4, <2>5 DEF LogGood
<1>4. PICK t \in Tails :
        LET fresh == [p \in Partitions |-> NewWalk(p, t)]
            holding == Cardinality({ p \in Partitions : has_more(fresh[p]) })
            step == clamp(first_step(t, holding), 1, t.max_step)
        IN /\ tail = [at |-> "round", spec |-> t, open |-> <<>>, share |-> 0]
           /\ walks = [p \in Partitions |-> [fresh[p] EXCEPT !.step = step]]
  BY DEF TailInit
<1>5. PICK holding : holding = Cardinality({ p \in Partitions :
                                  has_more([q \in Partitions |-> NewWalk(q, t)][p]) })
  OBVIOUS
<1>6. holding \in Nat
  <2>1. IsFiniteSet({ p \in Partitions : has_more([q \in Partitions |-> NewWalk(q, t)][p]) })
    BY ScanAssumption, FS_Subset
  <2> QED BY <1>5, <2>1, FS_CardinalityType
<1>7. PICK step \in Nat : step = clamp(first_step(t, holding), 1, t.max_step) BY <1>6, FirstStepNat
<1>8. /\ tail = [at |-> "round", spec |-> t, open |-> <<>>, share |-> 0]
      /\ walks = [p \in Partitions |-> [NewWalk(p, t) EXCEPT !.step = step]]
  BY <1>4, <1>5, <1>7
<1>9. tail.at = "round" /\ tail.spec = t /\ tail.open = <<>> /\ tail.share = 0
      /\ DOMAIN tail = {"at", "spec", "open", "share"}
  BY <1>8
<1>10. ASSUME NEW p \in Partitions
       PROVE  /\ WalkShape(walks[p]) /\ walks[p].log_end <= LogEnd(log[p].batches) /\ kept(walks[p]) = 0
              /\ Quiet(walks[p])
              /\ (t.anchor.kind = "Timestamp" => Chronological(p)) => WalkGood(p, log[p], walks[p], t)
  <2>1. PICK top : top = resolve_anchor(p, log[p], t.anchor) OBVIOUS
  <2>2. NewWalk(p, t) = [log_start |-> bounds(log[p]).earliest, log_end |-> bounds(log[p]).latest,
                         window_end |-> top, step |-> 1, collected |-> <<>>, target |-> 0, trimmed |-> FALSE]
    BY <2>1 DEF NewWalk
  <2>3. walks[p] = [log_start |-> bounds(log[p]).earliest, log_end |-> bounds(log[p]).latest,
                    window_end |-> top, step |-> step, collected |-> <<>>, target |-> 0, trimmed |-> FALSE]
    <3>1. walks[p] = [NewWalk(p, t) EXCEPT !.step = step] BY <1>8
    <3>2. PICK x, y, no : x = bounds(log[p]).earliest /\ y = bounds(log[p]).latest /\ no = FALSE OBVIOUS
    <3>3. NewWalk(p, t) = [log_start |-> x, log_end |-> y, window_end |-> top, step |-> 1,
                           collected |-> <<>>, target |-> 0, trimmed |-> no]
      BY <2>2, <3>2
    <3>4. walks[p] = [log_start |-> x, log_end |-> y, window_end |-> top, step |-> step,
                      collected |-> <<>>, target |-> 0, trimmed |-> no]
      BY <3>1, <3>3
    <3> QED BY <3>2, <3>4
  <2>4. PICK m, w : m = log[p] /\ w = walks[p] OBVIOUS
  <2>5. /\ LogGood(p, m) /\ m.start = 0 /\ top = resolve_anchor(p, m, t.anchor)
        /\ w = [log_start |-> bounds(m).earliest, log_end |-> bounds(m).latest,
                window_end |-> top, step |-> step, collected |-> <<>>, target |-> 0, trimmed |-> FALSE]
    BY <1>3, <2>1, <2>3, <2>4
  <2>6. /\ WalkShape(w) /\ w.log_end <= LogEnd(m.batches) /\ kept(w) = 0 /\ Quiet(w)
        /\ (t.anchor.kind = "Timestamp" => Chronological(p)) => WalkGood(p, m, w, t)
    BY <2>5, WalkBegins
  <2> QED BY <2>4, <2>6
<1>11. TailShape
  <2>1. DOMAIN log = Partitions /\ DOMAIN walks = Partitions BY <1>1, <1>8
  <2>2. DOMAIN faults = {"growth", "deletes", "failures"} /\ faults.deletes \in Nat BY <1>2
  <2>3. tail.open \in Seq(Partitions) /\ Sorted(tail.open) /\ tail.share \in Nat BY <1>9 DEF Sorted
  <2> QED BY <1>9, <2>1, <2>2, <2>3 DEF TailShape, Busy
<1>12. ASSUME NEW p \in Partitions PROVE TailPartition(p)
  <2>1. Sound(p) => (t.anchor.kind = "Timestamp" => Chronological(p)) BY <1>9 DEF Sound
  <2> QED BY <1>3, <1>9, <1>10, <2>1 DEF TailPartition
<1>13. ChunkInv /\ QuietInv BY <1>9, <1>10 DEF ChunkInv, QuietInv, Busy
<1>14. LimitInv
  <2>1. KeptTotal(walks) = 0 BY <1>10, KeptTotalNone
  <2>2. t.limit \in Nat BY TailAssumption
  <2> QED BY <1>9, <2>1, <2>2 DEF LimitInv, Busy
<1>15. TailSound BY <1>9 DEF TailSound, NewestInOrder, LimitMet, LogStartClaim
<1> QED BY <1>11, <1>12, <1>13, <1>14, <1>15 DEF TailInv

-----------------------------------------------------------------------------
(* Rounds of shares *)

LEMMA SoundBefore ==
  ASSUME NEW p, log' = log, faults'.deletes = faults.deletes, tail'.spec = tail.spec,
         passed \subseteq passed', Sound(p)'
  PROVE  Sound(p)
<1>1. /\ p \notin passed' /\ log'[p].whole /\ faults'.deletes = 0
      /\ tail'.spec.anchor.kind = "Timestamp" => Chronological(p)
  BY DEF Sound, Chronological
<1> QED BY <1>1 DEF Sound

LEMMA PartitionStays ==
  ASSUME NEW p, TailPartition(p), Going, log' = log, faults'.deletes = faults.deletes,
         tail'.spec = tail.spec, passed \subseteq passed', walks'[p] = walks[p]
  PROVE  TailPartition(p)'
<1>1. Sound(p)' => Sound(p) BY SoundBefore
<1>2. LogGood(p, log'[p]) /\ WalkShape(walks'[p]) /\ walks'[p].log_end <= LogEnd(log'[p].batches)
  BY DEF TailPartition
<1>3. Sound(p)' => WalkGood(p, log'[p], walks'[p], tail'.spec) BY <1>1 DEF TailPartition
<1> QED BY <1>2, <1>3 DEF TailPartition

LEMMA KeptNat ==
  ASSUME NEW w, WalkShape(w)
  PROVE  /\ kept(w) \in Nat /\ kept(w) <= Len(w.collected) /\ kept(w) <= w.target
         /\ kept(w) = Len(w.collected) \/ kept(w) = w.target
         /\ Len(w.collected) >= w.target => kept(w) = w.target
         /\ Len(w.collected) \in Nat /\ w.target \in Nat
BY DEF WalkShape, kept, Smaller

(* What is left of a walk when its over-collection is dropped.             *)
LEMMA TrimShape ==
  ASSUME NEW w, WalkShape(w), NEW u, u = trim_to_target(w)
  PROVE  /\ WalkShape(u) /\ u.log_start = w.log_start /\ u.log_end = w.log_end
         /\ u.window_end = w.window_end /\ u.target = w.target
         /\ DOMAIN u.collected = 1..kept(w) /\ kept(u) = kept(w)
         /\ \A i \in 1..kept(w) : u.collected[i] = w.collected[Len(w.collected) - kept(w) + i]
         /\ ~u.trimmed => Len(w.collected) <= w.target
<1>1. /\ kept(w) \in Nat /\ kept(w) <= Len(w.collected) /\ kept(w) <= w.target
      /\ kept(w) = Len(w.collected) \/ kept(w) = w.target
      /\ Len(w.collected) \in Nat /\ w.target \in Nat
  BY KeptNat
<1>2. PICK k \in Nat, n \in Nat, g \in Nat : k = kept(w) /\ n = Len(w.collected) /\ g = w.target BY <1>1
<1>3. PICK c : c = w.collected OBVIOUS
<1>4. PICK s : s = SubSeq(c, n - k + 1, n) OBVIOUS
<1>5. c \in Seq(Outcome) /\ Len(c) = n /\ DOMAIN c = 1..n BY <1>2, <1>3 DEF WalkShape
<1>6. s \in Seq(Outcome) /\ Len(s) = k /\ DOMAIN s = 1..k /\ \A i \in 1..k : s[i] = c[n - k + i]
  <2>1. s = [i \in 1..k |-> c[n - k + i]]
    <3>1. k <= n BY <1>1, <1>2
    <3>2. n - (n - k + 1) + 1 = k OBVIOUS
    <3>3. \A i \in 1..k : (n - k + 1) + i - 1 = n - k + i OBVIOUS
    <3> QED BY <1>4, <1>5, <3>1, <3>2, <3>3
  <2>2. \A i \in 1..k : n - k + i \in 1..n BY <1>1, <1>2
  <2>3. \A i \in 1..k : c[n - k + i] \in Outcome BY <1>5, <2>2
  <2> QED BY <2>1, <2>3
<1>7. PICK cut \in BOOLEAN : cut = (w.trimmed \/ n > g) OBVIOUS
<1>8. u = [w EXCEPT !.collected = s, !.trimmed = cut] BY <1>2, <1>3, <1>4, <1>7 DEF trim_to_target
<1>9. w \in [log_start : Nat, log_end : Nat, window_end : Nat, step : Nat,
             collected : Seq(Outcome), target : Nat, trimmed : BOOLEAN]
      /\ w.log_start <= w.window_end /\ w.window_end <= w.log_end
  BY DEF WalkShape
<1>10. /\ u \in [log_start : Nat, log_end : Nat, window_end : Nat, step : Nat,
                 collected : Seq(Outcome), target : Nat, trimmed : BOOLEAN]
       /\ u.log_start = w.log_start /\ u.log_end = w.log_end
       /\ u.window_end = w.window_end /\ u.target = w.target /\ u.collected = s /\ u.trimmed = cut
  BY <1>6, <1>8, <1>9
<1>11. WalkShape(u) BY <1>9, <1>10 DEF WalkShape
<1>12. kept(u) = k BY <1>1, <1>2, <1>6, <1>10 DEF kept, Smaller
<1>13. ~cut => n <= g
  <2>1. ~cut => ~(n > g) BY <1>7, Zenon
  <2> QED BY <2>1
<1> QED BY <1>2, <1>3, <1>6, <1>10, <1>11, <1>12, <1>13

(* The newest of what there is, with none left out.                        *)
Newest(p, l, u, t) ==
  /\ Rising(u.collected) /\ OffsetsOf(u) \subseteq Want(p, l, u, t)
  /\ \A o \in Want(p, l, u, t) : (\E q \in OffsetsOf(u) : q <= o) => o \in OffsetsOf(u)

LEMMA TrimGood ==
  ASSUME NEW p, NEW l, IsLog(l.batches), NEW t, NEW w, WalkShape(w), WalkGood(p, l, w, t),
         NEW u, u = trim_to_target(w)
  PROVE  /\ Newest(p, l, u, t)
         /\ ~has_more(w) /\ Len(w.collected) <= w.target => OffsetsOf(u) = Want(p, l, u, t)
<1>1. /\ u.log_start = w.log_start /\ u.log_end = w.log_end
      /\ DOMAIN u.collected = 1..kept(w)
      /\ \A i \in 1..kept(w) : u.collected[i] = w.collected[Len(w.collected) - kept(w) + i]
  BY TrimShape
<1>2. PICK k \in Nat, n \in Nat : k = kept(w) /\ n = Len(w.collected) BY KeptNat
<1>3. k <= n /\ (n <= w.target => k = n) /\ DOMAIN w.collected = 1..n BY <1>2 DEF WalkShape, kept, Smaller
<1>4. PICK c, s : c = w.collected /\ s = u.collected OBVIOUS
<1>5. DOMAIN c = 1..n /\ DOMAIN s = 1..k /\ \A i \in 1..k : s[i] = c[n - k + i] /\ n - k + i \in 1..n
  BY <1>1, <1>2, <1>3, <1>4
<1>6. PICK W : W = Want(p, l, w, t) OBVIOUS
<1>7. Want(p, l, u, t) = W BY <1>1, <1>6 DEF Want
<1>8. /\ Rising(c) /\ \A i \in DOMAIN c : c[i].offset \in W /\ c[i].offset >= w.window_end
      /\ \A o \in W : o >= w.window_end => \E i \in DOMAIN c : c[i].offset = o
  BY <1>4, <1>6 DEF WalkGood, Found
<1>9. \A o \in W : o \in Nat /\ w.log_start <= o BY <1>6, WantFacts
<1>10. w.window_end \in Nat /\ w.log_start \in Nat BY DEF WalkShape
<1>11. OffsetsOf(u) = { s[i].offset : i \in 1..k } BY <1>4, <1>5 DEF OffsetsOf
<1>12. Rising(s)
  <2> SUFFICES ASSUME NEW i \in 1..k, NEW j \in 1..k, i < j PROVE s[i].offset < s[j].offset BY <1>5 DEF Rising
  <2>1. n - k + i < n - k + j OBVIOUS
  <2> QED BY <1>5, <1>8, <2>1 DEF Rising
<1>13. OffsetsOf(u) \subseteq W BY <1>5, <1>8, <1>11
<1>14. ASSUME NEW o \in W, NEW q \in OffsetsOf(u), q <= o PROVE o \in OffsetsOf(u)
  <2>1. PICK i \in 1..k : q = s[i].offset BY <1>11
  <2>2. q = c[n - k + i].offset /\ n - k + i \in DOMAIN c BY <1>5, <2>1
  <2>3. q >= w.window_end /\ q \in Nat /\ o \in Nat BY <1>8, <1>9, <1>13, <2>2
  <2>4. o >= w.window_end BY <1>10, <1>14, <2>3
  <2>5. PICK j \in DOMAIN c : c[j].offset = o BY <1>8, <2>4
  <2>6. j >= n - k + i
    <3>1. j \in Int /\ n - k + i \in Int BY <1>5
    <3>2. ~(j < n - k + i)
      <4>1. j < n - k + i => c[j].offset < c[n - k + i].offset BY <1>8, <2>2 DEF Rising
      <4> QED BY <1>14, <2>2, <2>3, <2>5, <4>1
    <3> QED BY <3>1, <3>2
  <2>7. PICK m \in 1..k : n - k + m = j
    <3>1. j - (n - k) \in 1..k BY <1>5, <2>6
    <3>2. n - k + (j - (n - k)) = j BY <1>5
    <3> WITNESS j - (n - k) \in 1..k
    <3> QED BY <3>2
  <2>8. s[m].offset = o BY <1>5, <2>5, <2>7
  <2> QED BY <1>11, <2>8
<1>15. ASSUME ~has_more(w), Len(w.collected) <= w.target PROVE W \subseteq OffsetsOf(u)
  <2> SUFFICES ASSUME NEW o \in W PROVE o \in OffsetsOf(u) OBVIOUS
  <2>1. o >= w.window_end BY <1>9, <1>10, <1>15 DEF has_more
  <2>2. PICK j \in DOMAIN c : c[j].offset = o BY <1>8, <2>1
  <2>3. k = n BY <1>2, <1>3, <1>15
  <2>4. s[j] = c[j] /\ j \in 1..k BY <1>5, <2>3
  <2> QED BY <1>11, <2>2, <2>4
<1> QED BY <1>4, <1>7, <1>12, <1>13, <1>14, <1>15 DEF Newest

(* What is wanted is what is to be found.                                  *)
LEMMA WantedIs ==
  ASSUME NEW p
  PROVE  Wanted(p) = Want(p, log[p], walks[p], tail.spec)
BY DEF Wanted, Want, end_for

LEMMA WantedIsNext ==
  ASSUME NEW p
  PROVE  Wanted(p)' = Want(p, log'[p], walks'[p], tail'.spec)
<1>1. Wanted(p)' = { o \in VisibleOffsets(log'[p].batches, tail'.spec.visibility) \ Rejected :
          /\ o < EndFor(log'[p].batches, tail'.spec.visibility)
          /\ walks'[p].log_start <= o /\ o < walks'[p].log_end /\ AtOrBefore(p, o, tail'.spec.anchor) }
  BY DEF Wanted, end_for, AtOrBefore
<1> QED BY <1>1 DEF Want

LEMMA TailPartsNext ==
  ASSUME TailShape', \A p \in Partitions : TailPartition(p)', ChunkInv', QuietInv', LimitInv', TailSound'
  PROVE  TailInv'
BY DEF TailInv

LEMMA NotDone ==
  ASSUME tail'.at # "done"
  PROVE  TailSound'
BY DEF TailSound, NewestInOrder, LimitMet, LogStartClaim

LEMMA KeptTotalNext ==
  KeptTotal(walks)' = KeptTotal(walks')
OBVIOUS

LEMMA TailFieldsOf ==
  ASSUME TailShape
  PROVE  /\ tail.spec.limit \in Nat /\ tail.spec.max_step \in Nat
         /\ tail.open \in Seq(Partitions) /\ tail.share \in Nat
         /\ tail.open # <<>> => /\ Head(tail.open) \in Partitions /\ Head(tail.open) = tail.open[1]
                                /\ 1 \in DOMAIN tail.open
<1>1. tail.spec \in Tails /\ tail.open \in Seq(Partitions) /\ tail.share \in Nat BY DEF TailShape
<1>2. tail.spec.limit \in Nat /\ tail.spec.max_step \in Nat BY <1>1, TailAssumption
<1> QED BY <1>1, <1>2

(* The round ends the call.                                                *)
LEMMA RoundReturns ==
  ASSUME TailInv, tail.at = "round", UNCHANGED <<log, faults, passed>>,
         tail' = [tail EXCEPT !.at = "done"],
         walks' = [p \in Partitions |-> trim_to_target(walks[p])],
         tail.spec.limit - KeptTotal(walks) <= 0 \/ { p \in Partitions : can_yield_more(walks[p]) } = {}
  PROVE  TailInv'
<1>1. TailShape /\ QuietInv /\ LimitInv BY DEF TailInv
<1>2. /\ DOMAIN tail = {"at", "spec", "open", "share"} /\ tail.spec \in Tails
      /\ tail.open \in Seq(Partitions) /\ Sorted(tail.open) /\ tail.share \in Nat
      /\ DOMAIN log = Partitions
      /\ DOMAIN faults = {"growth", "deletes", "failures"} /\ faults.deletes \in Nat
  BY <1>1 DEF TailShape
<1>3. /\ tail'.at = "done" /\ tail'.spec = tail.spec /\ tail'.open = tail.open /\ tail'.share = tail.share
      /\ DOMAIN tail' = {"at", "spec", "open", "share"}
  BY <1>2
<1>4. log' = log /\ faults' = faults /\ passed' = passed OBVIOUS
<1>5. ASSUME NEW p \in Partitions
      PROVE  /\ LogGood(p, log[p]) /\ WalkShape(walks[p])
             /\ walks[p].log_end <= LogEnd(log[p].batches) /\ IsLog(log[p].batches)
             /\ Sound(p) => WalkGood(p, log[p], walks[p], tail.spec)
             /\ walks'[p] = trim_to_target(walks[p])
  <2>1. TailPartition(p) /\ Going BY DEF TailInv, Going
  <2> QED BY <2>1 DEF TailPartition, LogGood
<1>6. ASSUME NEW p \in Partitions
      PROVE  /\ WalkShape(walks'[p]) /\ walks'[p].log_start = walks[p].log_start
             /\ walks'[p].log_end = walks[p].log_end /\ walks'[p].window_end = walks[p].window_end
             /\ kept(walks'[p]) = kept(walks[p]) /\ kept(walks[p]) \in Nat
             /\ ~walks'[p].trimmed => Len(walks[p].collected) <= walks[p].target
  <2>1. PICK w, u : w = walks[p] /\ u = walks'[p] OBVIOUS
  <2>2. WalkShape(w) /\ u = trim_to_target(w) BY <1>5, <2>1
  <2>3. /\ WalkShape(u) /\ u.log_start = w.log_start /\ u.log_end = w.log_end
        /\ u.window_end = w.window_end /\ kept(u) = kept(w) /\ kept(w) \in Nat
        /\ ~u.trimmed => Len(w.collected) <= w.target
    BY <2>2, TrimShape, KeptNat
  <2> QED BY <2>1, <2>3
<1>7. ASSUME NEW p \in Partitions, Sound(p)'
      PROVE  /\ Newest(p, log'[p], walks'[p], tail'.spec)
             /\ ~has_more(walks[p]) /\ Len(walks[p].collected) <= walks[p].target =>
                  OffsetsOf(walks'[p]) = Want(p, log'[p], walks'[p], tail'.spec)
  <2>1. Sound(p) BY <1>3, <1>4, <1>7, SoundBefore
  <2>2. PICK w, u, l, t : w = walks[p] /\ u = walks'[p] /\ l = log[p] /\ t = tail.spec OBVIOUS
  <2>3. IsLog(l.batches) /\ WalkShape(w) /\ WalkGood(p, l, w, t) /\ u = trim_to_target(w) BY <1>5, <2>1, <2>2
  <2>4. /\ Newest(p, l, u, t)
        /\ ~has_more(w) /\ Len(w.collected) <= w.target => OffsetsOf(u) = Want(p, l, u, t)
    BY <2>3, TrimGood
  <2> QED BY <1>3, <1>4, <2>2, <2>4
<1>8. TailShape'
  <2>1. DOMAIN walks' = Partitions OBVIOUS
  <2> QED BY <1>2, <1>3, <1>4, <2>1 DEF TailShape, Busy
<1>9. ASSUME NEW p \in Partitions PROVE TailPartition(p)'
  <2>1. LogGood(p, log'[p]) BY <1>4, <1>5
  <2>2. walks'[p].log_end <= LogEnd(log'[p].batches) BY <1>4, <1>5, <1>6
  <2>3. ~Going' BY <1>3 DEF Going
  <2> QED BY <1>6, <2>1, <2>2, <2>3 DEF TailPartition
<1>10. ChunkInv' /\ QuietInv' /\ LimitInv' BY <1>3 DEF ChunkInv, QuietInv, LimitInv, Busy
<1>11. NewestInOrder'
  <2> SUFFICES ASSUME NEW p \in Partitions, Sound(p)'
               PROVE  LET w == walks'[p]
                      IN /\ \A i, j \in DOMAIN w.collected : i < j => w.collected[i].offset < w.collected[j].offset
                         /\ OffsetsOf(w) \subseteq Wanted(p)'
                         /\ \A o \in Wanted(p)' : (\E q \in OffsetsOf(w) : q <= o) => o \in OffsetsOf(w)
    BY DEF NewestInOrder, OffsetsOf
  <2>1. Newest(p, log'[p], walks'[p], tail'.spec) BY <1>7
  <2>2. Wanted(p)' = Want(p, log'[p], walks'[p], tail'.spec) BY WantedIsNext
  <2> QED BY <2>1, <2>2 DEF Newest, Rising
<1>12. KeptTotal(walks) \in Nat /\ KeptTotal(walks') = KeptTotal(walks)
  <2>1. PICK us : us = walks' OBVIOUS
  <2>2. \A q \in Partitions : kept(walks[q]) \in Nat /\ kept(us[q]) = kept(walks[q]) BY <1>6, <2>1
  <2>3. KeptTotal(walks) \in Nat /\ KeptTotal(us) = KeptTotal(walks) BY <2>2, KeptTotalSame
  <2> QED BY <2>1, <2>3
<1>13. LimitMet'
  <2>1. KeptTotal(walks) <= tail.spec.limit BY <1>1 DEF LimitInv
  <2>2. ASSUME KeptTotal(walks) < tail.spec.limit, NEW p \in Partitions, Sound(p)'
        PROVE  OffsetsOf(walks'[p]) = Wanted(p)'
    <3>1. ~(tail.spec.limit - KeptTotal(walks) <= 0) BY <1>1, <1>12, <2>2, TailFieldsOf
    <3>2. ~can_yield_more(walks[p]) BY <3>1
    <3>3. ~has_more(walks[p]) /\ Len(walks[p].collected) <= walks[p].target
      <4>1. Len(walks[p].collected) \in Nat /\ walks[p].target \in Nat BY <1>5, KeptNat
      <4> QED BY <3>2, <4>1 DEF can_yield_more
    <3>4. OffsetsOf(walks'[p]) = Want(p, log'[p], walks'[p], tail'.spec) BY <1>7, <2>2, <3>3
    <3> QED BY <3>4, WantedIsNext
  <2>3. KeptTotal(walks)' = KeptTotal(walks) BY <1>12, KeptTotalNext
  <2> QED BY <1>3, <2>1, <2>2, <2>3 DEF LimitMet, OffsetsOf
<1>14. LogStartClaim'
  <2> SUFFICES ASSUME NEW p \in Partitions, Sound(p)', reached_log_start(walks'[p])
               PROVE  OffsetsOf(walks'[p]) = Wanted(p)'
    BY DEF LogStartClaim, OffsetsOf, reached_log_start, has_more
  <2>1. ~has_more(walks'[p]) /\ ~walks'[p].trimmed BY DEF reached_log_start
  <2>2. ~has_more(walks[p]) /\ Len(walks[p].collected) <= walks[p].target BY <1>6, <2>1 DEF has_more
  <2>3. OffsetsOf(walks'[p]) = Want(p, log'[p], walks'[p], tail'.spec) BY <1>7, <2>2
  <2> QED BY <2>3, WantedIsNext
<1>15. TailSound' BY <1>11, <1>13, <1>14 DEF TailSound
<1> QED BY <1>8, <1>9, <1>10, <1>15, TailPartsNext

(* The round shares out what is owed.                                      *)
LEMMA RoundShares ==
  ASSUME TailInv, tail.at = "round", UNCHANGED <<log, faults, passed, walks>>,
         NEW open, open = { p \in Partitions : can_yield_more(walks[p]) }, open # {},
         NEW owed, owed = tail.spec.limit - KeptTotal(walks), ~(owed <= 0),
         tail' = [tail EXCEPT !.at = "grant", !.open = Ascending(open),
                              !.share = div_ceil(owed, Cardinality(open))]
  PROVE  TailInv'
<1>1. TailShape /\ QuietInv /\ LimitInv BY DEF TailInv
<1>2. /\ DOMAIN tail = {"at", "spec", "open", "share"} /\ tail.spec \in Tails
      /\ DOMAIN log = Partitions /\ DOMAIN walks = Partitions
      /\ DOMAIN faults = {"growth", "deletes", "failures"} /\ faults.deletes \in Nat
  BY <1>1 DEF TailShape
<1>3. PICK s : s = Ascending(open) OBVIOUS
<1>4. s \in Seq(open) /\ Sorted(s)
  <2>1. PICK n \in Nat : Partitions \subseteq 0..n BY ScanAssumption, FiniteBound
  <2>2. open \in SUBSET (0..n) BY <2>1
  <2> QED BY <1>3, <2>2, AscendingFacts
<1>5. \A p \in Partitions : WalkShape(walks[p]) BY DEF TailInv, TailPartition
<1>6. KeptTotal(walks) \in Nat
  <2>1. \A q \in Partitions : kept(walks[q]) \in Nat /\ kept(walks[q]) = kept(walks[q]) BY <1>5, KeptNat
  <2> QED BY <2>1, KeptTotalSame
<1>7. owed \in Nat BY <1>1, <1>6, TailFieldsOf
<1>8. Cardinality(open) \in Nat \ {0}
  <2>1. IsFiniteSet(open) BY ScanAssumption, FS_Subset
  <2> QED BY <2>1, FS_CardinalityType, FS_EmptySet
<1>9. PICK share \in Nat : share = div_ceil(owed, Cardinality(open)) BY <1>7, <1>8, DivCeilNat
<1>10. /\ tail'.at = "grant" /\ tail'.spec = tail.spec /\ tail'.open = s /\ tail'.share = share
       /\ DOMAIN tail' = {"at", "spec", "open", "share"}
  BY <1>2, <1>3, <1>9
<1>11. log' = log /\ faults' = faults /\ passed' = passed /\ walks' = walks OBVIOUS
<1>12. TailShape'
  <2>1. s \in Seq(Partitions) BY <1>4
  <2> QED BY <1>2, <1>4, <1>10, <1>11, <2>1 DEF TailShape, Busy
<1>13. ASSUME NEW p \in Partitions PROVE TailPartition(p)'
  <2>1. TailPartition(p) /\ Going BY DEF TailInv, Going
  <2> QED BY <1>10, <1>11, <2>1, PartitionStays
<1>14. ChunkInv' BY <1>10 DEF ChunkInv
<1>15. QuietInv'
  <2>1. \A p \in Partitions : Quiet(walks[p]) BY <1>1 DEF QuietInv
  <2>2. ASSUME NEW i \in DOMAIN s PROVE Len(walks[s[i]].collected) >= walks[s[i]].target
    <3>1. s[i] \in open BY <1>4
    <3>2. PICK w : w = walks[s[i]] /\ s[i] \in Partitions BY <3>1
    <3>3. can_yield_more(w) /\ Quiet(w) /\ Len(w.collected) \in Nat /\ w.target \in Nat
      BY <1>5, <2>1, <3>1, <3>2, KeptNat
    <3>4. Len(w.collected) >= w.target BY <3>3 DEF can_yield_more, Quiet
    <3> QED BY <3>2, <3>4
  <2> QED BY <1>10, <1>11, <2>1, <2>2 DEF QuietInv, Busy, Quiet, has_more
<1>16. LimitInv'
  <2>1. KeptTotal(walks) <= tail.spec.limit BY <1>1 DEF LimitInv
  <2>2. KeptTotal(walks)' = KeptTotal(walks) BY <1>11, KeptTotalNext
  <2> QED BY <1>10, <2>1, <2>2 DEF LimitInv, Busy
<1>17. TailSound' BY <1>10, NotDone
<1> QED BY <1>12, <1>13, <1>14, <1>15, <1>16, <1>17, TailPartsNext

LEMMA RoundStep ==
  ASSUME TailInv, TailRound, UNCHANGED scanVars
  PROVE  TailInv'
<1>1. UNCHANGED <<log, faults, passed>> /\ tail.at = "round" BY DEF TailRound, scanVars
<1> DEFINE open == { p \in Partitions : can_yield_more(walks[p]) }
           owed == tail.spec.limit - KeptTotal(walks)
<1>2. CASE owed <= 0 \/ open = {}
  <2>1. /\ tail' = [tail EXCEPT !.at = "done"]
        /\ walks' = [p \in Partitions |-> trim_to_target(walks[p])]
    BY <1>2 DEF TailRound
  <2> QED BY <1>1, <1>2, <2>1, RoundReturns
<1>3. CASE ~(owed <= 0 \/ open = {})
  <2>1. /\ tail' = [tail EXCEPT !.at = "grant", !.open = Ascending(open),
                                !.share = div_ceil(owed, Cardinality(open))]
        /\ UNCHANGED walks
    BY <1>3 DEF TailRound
  <2>2. PICK a, b : a = open /\ b = owed OBVIOUS
  <2>3. /\ UNCHANGED <<log, faults, passed, walks>> /\ a = open /\ b = owed /\ a # {} /\ ~(b <= 0)
        /\ tail' = [tail EXCEPT !.at = "grant", !.open = Ascending(a), !.share = div_ceil(b, Cardinality(a))]
    BY <1>1, <1>3, <2>1, <2>2
  <2> QED BY <1>1, <2>3, RoundShares
<1> QED BY <1>2, <1>3

(* The next walk of the round.                                             *)
LEMMA GrantStep ==
  ASSUME TailInv, TailGrant, UNCHANGED scanVars
  PROVE  TailInv'
<1>1. /\ log' = log /\ faults' = faults /\ passed' = passed /\ chunk' = chunk /\ tail.at = "grant"
  BY DEF TailGrant, scanVars
<1>2. TailShape /\ QuietInv /\ LimitInv BY DEF TailInv
<1>3. /\ DOMAIN tail = {"at", "spec", "open", "share"} /\ tail.spec \in Tails
      /\ tail.open \in Seq(Partitions) /\ Sorted(tail.open) /\ tail.share \in Nat
      /\ DOMAIN log = Partitions /\ DOMAIN walks = Partitions
      /\ DOMAIN faults = {"growth", "deletes", "failures"} /\ faults.deletes \in Nat
  BY <1>2 DEF TailShape
<1>4. \A p \in Partitions : WalkShape(walks[p]) /\ kept(walks[p]) \in Nat
  BY KeptNat DEF TailInv, TailPartition
<1>5. KeptTotal(walks) \in Nat /\ KeptTotal(walks) <= tail.spec.limit /\ tail.spec.limit \in Nat
  <2>1. KeptTotal(walks) \in Nat BY <1>4, KeptTotalSame
  <2> QED BY <1>1, <1>2, <2>1, TailFieldsOf DEF LimitInv
<1>6. /\ \A p \in Partitions : Quiet(walks[p])
      /\ \A i \in DOMAIN tail.open : Len(walks[tail.open[i]].collected) >= walks[tail.open[i]].target
  BY <1>1, <1>2 DEF QuietInv
<1>7. Going BY <1>1 DEF Going
<1> DEFINE deficit == tail.spec.limit - KeptTotal(walks)
<1>8. CASE tail.open = <<>> \/ deficit <= 0
  <2>1. tail' = [tail EXCEPT !.at = "round"] /\ walks' = walks BY <1>8 DEF TailGrant
  <2>2. /\ tail'.at = "round" /\ tail'.spec = tail.spec /\ tail'.open = tail.open /\ tail'.share = tail.share
        /\ DOMAIN tail' = {"at", "spec", "open", "share"}
    BY <1>3, <2>1
  <2>3. TailShape' BY <1>1, <1>3, <2>1, <2>2 DEF TailShape, Busy
  <2>4. ASSUME NEW p \in Partitions PROVE TailPartition(p)'
    <3>1. TailPartition(p) BY DEF TailInv
    <3> QED BY <1>1, <1>7, <2>1, <2>2, <3>1, PartitionStays
  <2>5. ChunkInv' BY <2>2 DEF ChunkInv
  <2>6. QuietInv' BY <1>6, <2>1, <2>2 DEF QuietInv, Busy, Quiet, has_more
  <2>7. LimitInv' BY <1>5, <2>1, <2>2, KeptTotalNext DEF LimitInv, Busy
  <2>8. TailSound' BY <2>2, NotDone
  <2> QED BY <2>3, <2>4, <2>5, <2>6, <2>7, <2>8, TailPartsNext
<1>9. CASE ~(tail.open = <<>> \/ deficit <= 0)
  <2>1. PICK p \in Partitions : p = Head(tail.open) /\ p = tail.open[1] /\ 1 \in DOMAIN tail.open
    BY <1>2, <1>9, TailFieldsOf
  <2>2. PICK g \in Nat : g = Grant(tail.share, deficit) /\ g <= deficit BY <1>3, <1>5, <1>9 DEF Grant, Smaller
  <2>3. /\ tail' = [tail EXCEPT !.at = "walk"]
        /\ walks' = [walks EXCEPT ![p].target = @ + g]
    BY <1>9, <2>1, <2>2 DEF TailGrant
  <2>4. /\ tail'.at = "walk" /\ tail'.spec = tail.spec /\ tail'.open = tail.open /\ tail'.share = tail.share
        /\ DOMAIN tail' = {"at", "spec", "open", "share"}
    BY <1>3, <2>3
  <2>5. PICK w, u : w = walks[p] /\ u = walks'[p] /\ u = [w EXCEPT !.target = @ + g] BY <1>3, <2>3
  <2>6. DOMAIN walks' = Partitions /\ \A q \in Partitions \ {p} : walks'[q] = walks[q] BY <1>3, <2>3
  <2>7. WalkShape(w) BY <1>4, <2>5
  <2>8. /\ WalkShape(u) /\ u.log_start = w.log_start /\ u.log_end = w.log_end
        /\ u.window_end = w.window_end /\ u.collected = w.collected /\ u.target = w.target + g
    <3>1. w \in [log_start : Nat, log_end : Nat, window_end : Nat, step : Nat,
                 collected : Seq(Outcome), target : Nat, trimmed : BOOLEAN]
          /\ w.log_start <= w.window_end /\ w.window_end <= w.log_end
      BY <2>7 DEF WalkShape
    <3>2. /\ u \in [log_start : Nat, log_end : Nat, window_end : Nat, step : Nat,
                    collected : Seq(Outcome), target : Nat, trimmed : BOOLEAN]
          /\ u.log_start = w.log_start /\ u.log_end = w.log_end
          /\ u.window_end = w.window_end /\ u.collected = w.collected /\ u.target = w.target + g
      BY <2>5, <3>1
    <3> QED BY <3>1, <3>2 DEF WalkShape
  <2>9. TailShape' BY <1>1, <1>3, <1>9, <2>4, <2>6 DEF TailShape, Busy
  <2>10. ASSUME NEW q \in Partitions PROVE TailPartition(q)'
    <3>1. TailPartition(q) BY DEF TailInv
    <3>2. CASE q # p BY <1>1, <1>7, <2>4, <2>6, <3>1, <3>2, PartitionStays
    <3>3. CASE q = p
      <4>1. /\ LogGood(p, log[p]) /\ w.log_end <= LogEnd(log[p].batches)
            /\ Sound(p) => WalkGood(p, log[p], w, tail.spec)
        BY <1>7, <2>5, <3>1, <3>3 DEF TailPartition
      <4>2. WalkGood(p, log[p], w, tail.spec) => WalkGood(p, log[p], u, tail.spec) BY <2>8 DEF WalkGood, Want
      <4>3. Sound(p)' => Sound(p) BY <1>1, <2>4, SoundBefore
      <4>4. /\ LogGood(p, log'[p]) /\ WalkShape(walks'[p]) /\ walks'[p].log_end <= LogEnd(log'[p].batches)
            /\ Sound(p)' => WalkGood(p, log'[p], walks'[p], tail'.spec)
        BY <1>1, <2>4, <2>5, <2>8, <4>1, <4>2, <4>3
      <4> QED BY <3>3, <4>4 DEF TailPartition
    <3> QED BY <3>2, <3>3
  <2>11. ChunkInv' BY <2>4 DEF ChunkInv
  <2>12. Current' = p BY <2>1, <2>4 DEF Current
  <2>13. QuietInv'
    <3>1. \A q \in Partitions : q # p => Quiet(walks'[q]) BY <1>6, <2>6
    <3>2. ASSUME NEW i \in DOMAIN tail.open, i > 1
          PROVE  Len(walks'[tail.open[i]].collected) >= walks'[tail.open[i]].target
      <4>1. tail.open[i] \in Partitions /\ tail.open[i] # p
        <5>1. tail.open[1] < tail.open[i] BY <1>3, <2>1, <3>2 DEF Sorted
        <5>2. tail.open[1] \in Nat /\ tail.open[i] \in Partitions
          <6>1. tail.open[1] \in Partitions /\ tail.open[i] \in Partitions BY <1>3, <2>1
          <6> QED BY <6>1, ScanAssumption
        <5> QED BY <2>1, <5>1, <5>2
      <4>2. walks'[tail.open[i]] = walks[tail.open[i]] BY <2>6, <4>1
      <4> QED BY <1>6, <4>2
    <3> QED BY <2>4, <2>12, <3>1, <3>2 DEF QuietInv, Busy, Quiet, has_more
  <2>14. LimitInv'
    <3>1. Len(w.collected) >= w.target BY <1>6, <2>1, <2>5
    <3>2. PICK kw \in Nat, ku \in Nat, g0 \in Nat : kw = kept(w) /\ ku = kept(u) /\ g0 = w.target
      BY <2>7, <2>8, KeptNat
    <3>3. kw = g0 BY <2>7, <3>1, <3>2, KeptNat
    <3>4. PICK us : us = walks' OBVIOUS
    <3>5. KeptTotal(us) \in Nat /\ KeptTotal(us) = KeptTotal(walks) - kept(walks[p]) + kept(us[p])
      <4>1. \A q \in Partitions : kept(walks[q]) \in Nat /\ kept(us[q]) \in Nat
        BY <1>4, <2>5, <2>6, <3>2, <3>4
      <4>2. \A q \in Partitions \ {p} : kept(us[q]) = kept(walks[q]) BY <2>6, <3>4
      <4> QED BY <4>1, <4>2, KeptTotalStep
    <3>6. KeptTotal(us) = KeptTotal(walks) - kw + ku BY <2>5, <3>2, <3>4, <3>5
    <3>7. KeptTotal(us) - ku + u.target <= tail.spec.limit BY <1>5, <2>2, <2>8, <3>2, <3>3, <3>6
    <3>8. KeptTotal(walks)' - kept(walks'[p]) + walks'[p].target <= tail'.spec.limit
      BY <2>4, <2>5, <3>2, <3>4, <3>7, KeptTotalNext
    <3>9. kept(walks[Current])' = kept(walks'[p]) /\ walks[Current]' = walks'[p] BY <2>12 DEF kept
    <3> QED BY <2>4, <3>8, <3>9 DEF LimitInv
  <2>15. TailSound' BY <2>4, NotDone
  <2> QED BY <2>9, <2>10, <2>11, <2>13, <2>14, <2>15, TailPartsNext
<1> QED BY <1>8, <1>9

(* A window that is about to be read.                                      *)
LEMMA WindowBegins ==
  ASSUME NEW p \in Partitions, NEW l, LogGood(p, l), NEW w, WalkShape(w), w.log_end <= LogEnd(l.batches),
         NEW t, NEW start, start = Larger(w.window_end - w.step, w.log_start), NEW c,
         c = [p |-> p, start |-> start, offset |-> start, records |-> <<>>], has_more(w)
  PROVE  ChunkShape(l, w, c) /\ ChunkGood(p, l, w, t, c) /\ c.p = p
<1>1. /\ w.window_end \in Nat /\ w.step \in Nat /\ w.log_start \in Nat /\ w.log_end \in Nat
      /\ w.log_start <= w.window_end /\ w.window_end <= w.log_end
  BY DEF WalkShape
<1>2. IsLog(l.batches) BY DEF LogGood
<1>3. LogEnd(l.batches) \in Nat BY <1>2, LogEndFacts
<1>4. start \in Nat /\ w.log_start <= start /\ start <= w.window_end /\ start <= LogEnd(l.batches)
  BY <1>1, <1>3 DEF Larger, has_more
<1>5. c.p = p /\ c.start = start /\ c.offset = start /\ c.records = <<>> OBVIOUS
<1>6. ChunkShape(l, w, c) BY <1>4, <1>5 DEF ChunkShape
<1>7. DOMAIN c.records = {} BY <1>5
<1>8. Rising(c.records) BY <1>7 DEF Rising
<1>9. ASSUME NEW o \in Want(p, l, w, t), c.start <= o, o < c.offset PROVE FALSE
  <2>1. o \in Nat BY <1>2, WantFacts
  <2> QED BY <1>4, <1>5, <1>9, <2>1
<1>10. Aligned(l.batches, t.visibility, [start |-> c.start, next |-> c.offset]) BY <1>5 DEF Aligned
<1> QED BY <1>5, <1>6, <1>7, <1>8, <1>9, <1>10 DEF ChunkGood

(* run_until.                                                              *)
LEMMA WalkStep ==
  ASSUME TailInv, TailWalk, UNCHANGED scanVars
  PROVE  TailInv'
<1>1. /\ log' = log /\ faults' = faults /\ passed' = passed /\ walks' = walks /\ tail.at = "walk"
  BY DEF TailWalk, scanVars
<1>2. TailShape /\ QuietInv /\ LimitInv BY DEF TailInv
<1>3. /\ DOMAIN tail = {"at", "spec", "open", "share"} /\ tail.spec \in Tails
      /\ tail.open \in Seq(Partitions) /\ Sorted(tail.open) /\ tail.share \in Nat /\ tail.open # <<>>
      /\ DOMAIN log = Partitions /\ DOMAIN walks = Partitions
      /\ DOMAIN faults = {"growth", "deletes", "failures"} /\ faults.deletes \in Nat
  BY <1>1, <1>2 DEF TailShape, Busy
<1>4. PICK p \in Partitions : p = Head(tail.open) /\ p = tail.open[1] /\ 1 \in DOMAIN tail.open
  BY <1>2, <1>3, TailFieldsOf
<1>5. PICK w : w = walks[p] OBVIOUS
<1>6. Going /\ Busy /\ Current = p BY <1>1, <1>4 DEF Going, Busy, Current
<1>7. \A q \in Partitions : TailPartition(q) BY DEF TailInv
<1>8. /\ LogGood(p, log[p]) /\ WalkShape(w) /\ w.log_end <= LogEnd(log[p].batches)
  BY <1>5, <1>7 DEF TailPartition
<1>9. /\ \A q \in Partitions : q # p => Quiet(walks[q])
      /\ \A i \in DOMAIN tail.open : i > 1 => Len(walks[tail.open[i]].collected) >= walks[tail.open[i]].target
  BY <1>1, <1>2, <1>6 DEF QuietInv
<1>10. KeptTotal(walks) - kept(w) + w.target <= tail.spec.limit BY <1>2, <1>5, <1>6 DEF LimitInv
<1>11. KeptTotal(walks) \in Nat /\ kept(w) \in Nat /\ w.target \in Nat /\ kept(w) <= w.target
       /\ tail.spec.limit \in Nat /\ Len(w.collected) \in Nat
  <2>1. \A q \in Partitions : kept(walks[q]) \in Nat /\ kept(walks[q]) = kept(walks[q])
    BY <1>7, KeptNat DEF TailPartition
  <2> QED BY <1>2, <1>8, <2>1, KeptNat, KeptTotalSame, TailFieldsOf
<1> DEFINE start == Larger(w.window_end - w.step, w.log_start)
<1>12. CASE Len(w.collected) < w.target /\ has_more(w)
  <2>1. /\ chunk' = [p |-> p, start |-> start, offset |-> start, records |-> <<>>]
        /\ tail' = [tail EXCEPT !.at = "read"]
    BY <1>4, <1>5, <1>12 DEF TailWalk
  <2>2. /\ tail'.at = "read" /\ tail'.spec = tail.spec /\ tail'.open = tail.open /\ tail'.share = tail.share
        /\ DOMAIN tail' = {"at", "spec", "open", "share"}
    BY <1>3, <2>1
  <2>3. PICK c, z : c = chunk' /\ z = start OBVIOUS
  <2>4. ChunkShape(log[p], w, c) /\ ChunkGood(p, log[p], w, tail.spec, c) /\ c.p = p
    <3>1. PICK l, t : l = log[p] /\ t = tail.spec OBVIOUS
    <3>2. /\ LogGood(p, l) /\ WalkShape(w) /\ w.log_end <= LogEnd(l.batches) /\ has_more(w)
          /\ z = Larger(w.window_end - w.step, w.log_start)
          /\ c = [p |-> p, start |-> z, offset |-> z, records |-> <<>>]
      BY <1>8, <1>12, <2>1, <2>3, <3>1
    <3>3. ChunkShape(l, w, c) /\ ChunkGood(p, l, w, t, c) /\ c.p = p BY <3>2, WindowBegins
    <3> QED BY <3>1, <3>3
  <2>5. TailShape' BY <1>1, <1>3, <1>4, <2>2, <2>3, <2>4 DEF TailShape, Busy
  <2>6. ASSUME NEW q \in Partitions PROVE TailPartition(q)' BY <1>1, <1>6, <1>7, <2>2, PartitionStays
  <2>7. ChunkInv'
    <3>1. /\ ChunkShape(log'[chunk'.p], walks'[chunk'.p], chunk')
          /\ ChunkGood(chunk'.p, log'[chunk'.p], walks'[chunk'.p], tail'.spec, chunk')
      BY <1>1, <1>5, <2>2, <2>3, <2>4
    <3> QED BY <3>1 DEF ChunkInv
  <2>8. Current' = p BY <1>4, <2>2 DEF Current
  <2>9. QuietInv' BY <1>1, <1>9, <2>2, <2>8 DEF QuietInv, Busy, Quiet, has_more
  <2>10. LimitInv'
    <3>1. kept(walks[Current])' = kept(w) /\ walks[Current]' = w BY <1>1, <1>5, <2>8 DEF kept
    <3> QED BY <1>1, <1>10, <2>2, <3>1, KeptTotalNext DEF LimitInv
  <2>11. TailSound' BY <2>2, NotDone
  <2> QED BY <2>5, <2>6, <2>7, <2>9, <2>10, <2>11, TailPartsNext
<1>13. CASE ~(Len(w.collected) < w.target /\ has_more(w))
  <2>1. tail' = [tail EXCEPT !.at = "grant", !.open = SubSeq(@, 2, Len(@))] BY <1>4, <1>5, <1>13 DEF TailWalk
  <2>2. PICK s, r : s = tail.open /\ r = SubSeq(s, 2, Len(s)) OBVIOUS
  <2>3. /\ tail'.at = "grant" /\ tail'.spec = tail.spec /\ tail'.open = r /\ tail'.share = tail.share
        /\ DOMAIN tail' = {"at", "spec", "open", "share"}
    BY <1>3, <2>1, <2>2
  <2>4. PICK n \in Nat : n = Len(s) /\ DOMAIN s = 1..n /\ n >= 1 /\ s \in Seq(Partitions) BY <1>3, <2>2
  <2>5. r \in Seq(Partitions) /\ DOMAIN r = 1..(n - 1) /\ \A i \in 1..(n - 1) : r[i] = s[i + 1] /\ i + 1 \in DOMAIN s
    <3>1. r = [i \in 1..(n - 1) |-> s[i + 1]]
      <4>1. n - 2 + 1 = n - 1 /\ \A i \in 1..(n - 1) : 2 + i - 1 = i + 1 OBVIOUS
      <4> QED BY <2>2, <2>4, <4>1
    <3>2. \A i \in 1..(n - 1) : i + 1 \in DOMAIN s /\ s[i + 1] \in Partitions BY <2>4
    <3>3. n - 1 \in Nat BY <2>4
    <3> QED BY <3>1, <3>2, <3>3
  <2>6. Sorted(r)
    <3>1. Sorted(s) BY <1>3, <2>2
    <3> SUFFICES ASSUME NEW i \in 1..(n - 1), NEW j \in 1..(n - 1), i < j PROVE r[i] < r[j] BY <2>5 DEF Sorted
    <3>2. r[i] = s[i + 1] /\ r[j] = s[j + 1] /\ i + 1 \in DOMAIN s /\ j + 1 \in DOMAIN s BY <2>5
    <3>3. i + 1 < j + 1 OBVIOUS
    <3> QED BY <3>1, <3>2, <3>3 DEF Sorted
  <2>7. TailShape' BY <1>1, <1>3, <2>3, <2>5, <2>6 DEF TailShape, Busy
  <2>8. ASSUME NEW q \in Partitions PROVE TailPartition(q)' BY <1>1, <1>6, <1>7, <2>3, PartitionStays
  <2>9. ChunkInv' BY <2>3 DEF ChunkInv
  <2>10. QuietInv'
    <3>1. Quiet(w) BY <1>11, <1>13 DEF Quiet
    <3>2. \A q \in Partitions : Quiet(walks[q]) BY <1>5, <1>9, <3>1
    <3>3. \A i \in DOMAIN r : Len(walks[r[i]].collected) >= walks[r[i]].target BY <1>9, <2>2, <2>4, <2>5
    <3> QED BY <1>1, <2>3, <3>2, <3>3 DEF QuietInv, Busy, Quiet, has_more
  <2>11. LimitInv'
    <3>1. KeptTotal(walks) <= tail.spec.limit BY <1>10, <1>11
    <3> QED BY <1>1, <2>3, <3>1, KeptTotalNext DEF LimitInv, Busy
  <2>12. TailSound' BY <2>3, NotDone
  <2> QED BY <2>7, <2>8, <2>9, <2>10, <2>11, <2>12, TailPartsNext
<1> QED BY <1>12, <1>13

LEMMA AnswerOutcomes ==
  ASSUME NEW L, IsLog(L), NEW from \in Nat, NEW v, NEW budget \in Nat, NEW outs,
         outs = decode_partition(Answer(L, from, EndFor(L, v), budget), v).outcomes
  PROVE  outs \in Seq(Outcome) /\ Rising(outs)
<1> DEFINE answer == Answer(L, from, EndFor(L, v), budget)
           d == decode_partition(answer, v)
<1>1. PICK stable \in Nat : stable = EndFor(L, v) BY EndForFacts
<1>2. PICK lo, n, broken :
        /\ Sends(L, from, stable, budget, answer, lo, n)
        /\ Decodes(L, v, answer, d, lo, n, broken)
  <2>1. answer = Answer(L, from, stable, budget) /\ from \in Int /\ stable \in Int BY <1>1
  <2> QED BY <2>1, Decoded
<1>3. OutInv(L, lo, v, outs, n) BY <1>2 DEF Decodes
<1> QED BY <1>3 DEF OutInv

(* The records the window is read for.                                     *)
LEMMA FreshIs ==
  ASSUME NEW outs, NEW w
  PROVE  Fresh(outs, w) = FreshIn(outs, chunk, w)
<1>1. PICK S : S = { i \in DOMAIN outs : /\ outs[i].ok /\ InWindow(outs[i], w)
                                        /\ outs[i].offset \notin Rejected }
  OBVIOUS
<1>2. S = { i \in DOMAIN outs :
              /\ outs[i].ok /\ outs[i].offset >= chunk.start /\ outs[i].offset < w.window_end
              /\ outs[i].offset \notin Rejected }
  BY <1>1 DEF InWindow
<1>3. Fresh(outs, w) = [i \in DOMAIN Ascending(S) |-> outs[Ascending(S)[i]]] BY <1>1 DEF Fresh
<1>4. FreshIn(outs, chunk, w) = [i \in DOMAIN Ascending(S) |-> outs[Ascending(S)[i]]] BY <1>2 DEF FreshIn
<1> QED BY <1>3, <1>4

LEMMA NextStepNat ==
  ASSUME NEW w, WalkShape(w), NEW span \in Nat, NEW yielded \in Nat, tail.spec.max_step \in Nat
  PROVE  NextStep(w, span, yielded) \in Nat
<1>1. w.step \in Nat BY DEF WalkShape
<1> DEFINE scale == IF yielded = 0 THEN 8 ELSE clamp(span \div yielded, 2, 8)
<1>2. scale \in Nat
  <2>1. CASE yielded = 0 BY <2>1
  <2>2. CASE yielded # 0
    <3>1. span \div yielded \in Int BY <2>2
    <3> QED BY <2>2, <3>1, ClampNat
  <2> QED BY <2>1, <2>2
<1> HIDE DEF scale
<1>3. w.step * scale \in Int BY <1>1, <1>2
<1>4. clamp(w.step * scale, 1, tail.spec.max_step) \in Nat BY <1>3, ClampNat
<1>5. NextStep(w, span, yielded) = IF yielded < span \div 2 /\ Len(w.collected) + yielded < w.target
                                   THEN clamp(w.step * scale, 1, tail.spec.max_step) ELSE w.step
  BY DEF NextStep, scale
<1> QED BY <1>1, <1>4, <1>5

LEMMA CollectedShape ==
  ASSUME NEW w, WalkShape(w), NEW records \in Seq(Outcome), chunk.start \in Nat,
         w.log_start <= chunk.start, chunk.start <= w.window_end, tail.spec.max_step \in Nat,
         NEW u, u = Collected(w, records)
  PROVE  /\ WalkShape(u) /\ u.log_start = w.log_start /\ u.log_end = w.log_end
         /\ u.window_end = chunk.start /\ u.collected = records \o w.collected /\ u.target = w.target
<1>1. /\ w \in [log_start : Nat, log_end : Nat, window_end : Nat, step : Nat,
                collected : Seq(Outcome), target : Nat, trimmed : BOOLEAN]
      /\ w.log_start <= w.window_end /\ w.window_end <= w.log_end
  BY DEF WalkShape
<1>2. PICK step \in Nat : step = NextStep(w, Larger(w.window_end - chunk.start, 1), Len(records))
  <2>1. Larger(w.window_end - chunk.start, 1) \in Nat /\ Len(records) \in Nat BY <1>1 DEF Larger
  <2> QED BY <2>1, NextStepNat
<1>3. PICK s \in Seq(Outcome) : s = records \o w.collected
  <2>1. PICK z \in Seq(Outcome) : z = w.collected BY <1>1
  <2>2. records \o z \in Seq(Outcome) OBVIOUS
  <2> QED BY <2>1, <2>2
<1>4. u = [w EXCEPT !.collected = s, !.window_end = chunk.start, !.step = step] BY <1>2, <1>3 DEF Collected
<1>5. PICK start \in Nat : start = chunk.start OBVIOUS
<1>6. /\ u \in [log_start : Nat, log_end : Nat, window_end : Nat, step : Nat,
                collected : Seq(Outcome), target : Nat, trimmed : BOOLEAN]
      /\ u.log_start = w.log_start /\ u.log_end = w.log_end
      /\ u.window_end = start /\ u.collected = s /\ u.target = w.target
  BY <1>1, <1>4, <1>5
<1>7. start <= w.log_end /\ w.log_start <= start BY <1>1, <1>5
<1> QED BY <1>3, <1>5, <1>6, <1>7 DEF WalkShape

(* One turn of read_window.                                                *)
LEMMA ReadStep ==
  ASSUME TailInv, TailRead, UNCHANGED scanVars
  PROVE  TailInv'
<1>1. log' = log /\ faults' = faults /\ tail.at = "read" BY DEF TailRead, scanVars
<1>2. TailShape /\ QuietInv /\ LimitInv /\ ChunkInv BY DEF TailInv
<1>3. /\ DOMAIN tail = {"at", "spec", "open", "share"} /\ tail.spec \in Tails
      /\ tail.open \in Seq(Partitions) /\ Sorted(tail.open) /\ tail.share \in Nat /\ tail.open # <<>>
      /\ DOMAIN log = Partitions /\ DOMAIN walks = Partitions
      /\ DOMAIN faults = {"growth", "deletes", "failures"} /\ faults.deletes \in Nat
      /\ chunk.p = Head(tail.open)
  BY <1>1, <1>2 DEF TailShape, Busy
<1>4. PICK p \in Partitions : p = Head(tail.open) /\ p = chunk.p BY <1>2, <1>3, TailFieldsOf
<1>5. PICK w, l, t, c : w = walks[p] /\ l = log[p] /\ t = tail.spec /\ c = chunk OBVIOUS
<1>6. Going /\ Busy /\ Current = p BY <1>1, <1>4 DEF Going, Busy, Current
<1>7. \A q \in Partitions : TailPartition(q) BY DEF TailInv
<1>8. /\ LogGood(p, l) /\ WalkShape(w) /\ w.log_end <= LogEnd(l.batches)
      /\ Sound(p) => WalkGood(p, l, w, t)
  BY <1>5, <1>6, <1>7 DEF TailPartition
<1>9. ChunkShape(l, w, c) /\ (Sound(p) => ChunkGood(p, l, w, t, c)) BY <1>1, <1>2, <1>4, <1>5 DEF ChunkInv
<1>10. /\ c \in [p : Partitions, start : Nat, offset : Nat, records : Seq(Outcome)]
       /\ w.log_start <= c.start /\ c.start <= w.window_end
       /\ c.start <= c.offset /\ c.offset <= LogEnd(l.batches)
  BY <1>9 DEF ChunkShape
<1>11. PICK budget \in Nat : budget = Smaller(PartitionMax, FetchMax) BY ScanAssumption DEF Smaller
<1>12. PICK outs : outs = decode_partition(Answer(l.batches, c.offset, EndFor(l.batches, t.visibility), budget),
                                           t.visibility).outcomes
  OBVIOUS
<1>13. outs \in Seq(Outcome) /\ Rising(outs)
  <2>1. PICK L, from, v : L = l.batches /\ from = c.offset /\ v = t.visibility OBVIOUS
  <2>2. /\ IsLog(L) /\ from \in Nat
        /\ outs = decode_partition(Answer(L, from, EndFor(L, v), budget), v).outcomes
    BY <1>8, <1>10, <1>12, <2>1 DEF LogGood
  <2> QED BY <2>2, AnswerOutcomes
<1>14. PICK fresh : fresh = FreshIn(outs, c, w) OBVIOUS
<1>15. fresh \in Seq(Outcome) /\ fresh = Fresh(outs, w)
  <2>1. FreshIn(outs, c, w) \in Seq(Outcome) BY <1>13, FreshFacts
  <2>2. Fresh(outs, w) = FreshIn(outs, chunk, w) BY FreshIs
  <2> QED BY <1>5, <1>14, <2>1, <2>2
<1>16. PICK records \in Seq(Outcome) : records = c.records \o fresh
  <2>1. PICK z \in Seq(Outcome) : z = c.records BY <1>10
  <2>2. z \o fresh \in Seq(Outcome) BY <1>15
  <2> QED BY <2>1, <2>2
<1>17. PICK next : next = last_offset(Last(outs)) + 1 OBVIOUS
<1>18. PICK halts \in BOOLEAN : halts <=> (outs = <<>> \/ next <= c.offset) OBVIOUS
<1>19. IF c.offset < l.start
         THEN tail' = [tail EXCEPT !.at = "failed"] /\ UNCHANGED <<walks, chunk, passed>>
       ELSE IF halts \/ next >= w.window_end
         THEN /\ walks' = [walks EXCEPT ![p] = Collected(w, records)]
              /\ tail' = [tail EXCEPT !.at = "walk"] /\ chunk' = NoChunk
              /\ passed' = IF halts THEN passed \cup {p} ELSE passed
       ELSE /\ chunk' = [chunk EXCEPT !.records = records, !.offset = next]
            /\ UNCHANGED <<tail, walks, passed>>
  <2>1. outs = decode_partition(Answer(log[chunk.p].batches, chunk.offset, end_for(chunk.p, tail.spec.visibility),
                                       Smaller(PartitionMax, FetchMax)), tail.spec.visibility).outcomes
    BY <1>4, <1>5, <1>11, <1>12 DEF end_for
  <2>2. records = chunk.records \o Fresh(outs, walks[chunk.p]) BY <1>4, <1>5, <1>15, <1>16
  <2>3. IF chunk.offset < log[chunk.p].start
         THEN tail' = [tail EXCEPT !.at = "failed"] /\ UNCHANGED <<walks, chunk, passed>>
       ELSE IF (outs = <<>> \/ next <= chunk.offset) \/ next >= walks[chunk.p].window_end
         THEN /\ walks' = [walks EXCEPT ![chunk.p] = Collected(walks[chunk.p], records)]
              /\ tail' = [tail EXCEPT !.at = "walk"] /\ chunk' = NoChunk
              /\ passed' = IF (outs = <<>> \/ next <= chunk.offset) THEN passed \cup {chunk.p} ELSE passed
       ELSE /\ chunk' = [chunk EXCEPT !.records = records, !.offset = next]
            /\ UNCHANGED <<tail, walks, passed>>
    BY <1>17, <2>1, <2>2 DEF TailRead
  <2> QED BY <1>4, <1>5, <1>18, <2>3
<1>20. ~halts =>
         /\ next \in Nat /\ c.offset < next /\ next <= LogEnd(l.batches)
         /\ l.whole /\ WalkGood(p, l, w, t) /\ ChunkGood(p, l, w, t, c) =>
              ChunkGood(p, l, w, t, [c EXCEPT !.records = records, !.offset = next])
  <2> SUFFICES ASSUME ~halts
               PROVE  /\ next \in Nat /\ c.offset < next /\ next <= LogEnd(l.batches)
                      /\ l.whole /\ WalkGood(p, l, w, t) /\ ChunkGood(p, l, w, t, c) =>
                           ChunkGood(p, l, w, t, [c EXCEPT !.records = records, !.offset = next])
    OBVIOUS
  <2>1. outs # <<>> /\ ~(next <= c.offset) BY <1>18
  <2>2. /\ next \in Nat /\ c.offset < next /\ next <= LogEnd(l.batches)
        /\ l.whole /\ WalkGood(p, l, w, t) /\ ChunkGood(p, l, w, t, c) =>
             ChunkGood(p, l, w, t, [c EXCEPT !.records = @ \o FreshIn(outs, c, w), !.offset = next])
    BY <1>8, <1>9, <1>12, <1>17, <2>1, WindowTurn
  <2>3. [c EXCEPT !.records = @ \o FreshIn(outs, c, w), !.offset = next]
          = [c EXCEPT !.records = records, !.offset = next]
    BY <1>14, <1>16
  <2> QED BY <2>2, <2>3
<1>21. Sound(p) => l.whole BY <1>5 DEF Sound
<1>22. /\ \A q \in Partitions : q # p => Quiet(walks[q])
       /\ \A i \in DOMAIN tail.open : i > 1 => Len(walks[tail.open[i]].collected) >= walks[tail.open[i]].target
  BY <1>1, <1>2, <1>6 DEF QuietInv
<1>23. KeptTotal(walks) - kept(w) + w.target <= tail.spec.limit BY <1>2, <1>5, <1>6 DEF LimitInv
<1>24. CASE c.offset < l.start
  <2>1. tail' = [tail EXCEPT !.at = "failed"] /\ walks' = walks /\ passed' = passed BY <1>19, <1>24
  <2>2. /\ tail'.at = "failed" /\ tail'.spec = tail.spec /\ tail'.open = tail.open /\ tail'.share = tail.share
        /\ DOMAIN tail' = {"at", "spec", "open", "share"}
    BY <1>3, <2>1
  <2>3. TailShape' BY <1>1, <1>3, <2>1, <2>2 DEF TailShape, Busy
  <2>4. ASSUME NEW q \in Partitions PROVE TailPartition(q)' BY <1>1, <1>6, <1>7, <2>1, <2>2, PartitionStays
  <2>5. ChunkInv' /\ QuietInv' /\ LimitInv' BY <2>2 DEF ChunkInv, QuietInv, LimitInv, Busy
  <2>6. TailSound' BY <2>2, NotDone
  <2> QED BY <2>3, <2>4, <2>5, <2>6, TailPartsNext
<1>25. CASE ~(c.offset < l.start) /\ (halts \/ next >= w.window_end)
  <2>1. /\ walks' = [walks EXCEPT ![p] = Collected(w, records)]
        /\ tail' = [tail EXCEPT !.at = "walk"]
        /\ passed' = IF halts THEN passed \cup {p} ELSE passed
    BY <1>19, <1>25
  <2>2. /\ tail'.at = "walk" /\ tail'.spec = tail.spec /\ tail'.open = tail.open /\ tail'.share = tail.share
        /\ DOMAIN tail' = {"at", "spec", "open", "share"}
    BY <1>3, <2>1
  <2>3. PICK u : u = walks'[p] /\ u = Collected(w, records) BY <1>3, <2>1
  <2>4. DOMAIN walks' = Partitions /\ \A q \in Partitions \ {p} : walks'[q] = walks[q] BY <1>3, <2>1
  <2>5. /\ WalkShape(u) /\ u.log_start = w.log_start /\ u.log_end = w.log_end
        /\ u.window_end = c.start /\ u.collected = records \o w.collected /\ u.target = w.target
    <3>1. chunk.start \in Nat /\ w.log_start <= chunk.start /\ chunk.start <= w.window_end
          /\ tail.spec.max_step \in Nat
      BY <1>2, <1>5, <1>10, TailFieldsOf
    <3> QED BY <1>5, <1>8, <2>3, <3>1, CollectedShape
  <2>6. passed \subseteq passed' /\ (halts => p \in passed') BY <2>1
  <2>7. ASSUME Sound(p)' PROVE WalkGood(p, l, u, t)
    <3>1. Sound(p) BY <1>1, <2>2, <2>6, <2>7, SoundBefore
    <3>2. ~halts
      <4>1. p \notin passed' BY <2>7 DEF Sound
      <4> QED BY <2>6, <4>1
    <3>3. PICK e : e = [c EXCEPT !.records = records, !.offset = next] OBVIOUS
    <3>4. ChunkGood(p, l, w, t, e) /\ WalkGood(p, l, w, t) /\ next >= w.window_end /\ next \in Nat
      BY <1>8, <1>9, <1>20, <1>21, <1>25, <3>1, <3>2, <3>3
    <3>5. e.records = records /\ e.offset = next /\ e.start = c.start BY <1>10, <3>3
    <3>6. /\ e.start \in Nat /\ e.offset \in Nat /\ e.start <= w.window_end /\ w.log_start <= e.start
          /\ e.records \in Seq(Outcome) /\ e.offset >= w.window_end
          /\ u.collected = e.records \o w.collected /\ u.window_end = e.start
      BY <1>10, <2>5, <3>4, <3>5
    <3>7. IsLog(l.batches) BY <1>8 DEF LogGood
    <3> QED BY <1>8, <2>5, <3>4, <3>6, <3>7, WindowEnds
  <2>8. TailShape' BY <1>1, <1>3, <2>2, <2>4 DEF TailShape, Busy
  <2>9. ASSUME NEW q \in Partitions PROVE TailPartition(q)'
    <3>1. CASE q # p BY <1>1, <1>6, <1>7, <2>2, <2>4, <2>6, <3>1, PartitionStays
    <3>2. CASE q = p
      <4>1. /\ LogGood(p, log'[p]) /\ WalkShape(walks'[p]) /\ walks'[p].log_end <= LogEnd(log'[p].batches)
            /\ Sound(p)' => WalkGood(p, log'[p], walks'[p], tail'.spec)
        BY <1>1, <1>5, <1>8, <2>2, <2>3, <2>5, <2>7
      <4> QED BY <3>2, <4>1 DEF TailPartition
    <3> QED BY <3>1, <3>2
  <2>10. ChunkInv' BY <2>2 DEF ChunkInv
  <2>11. Current' = p BY <1>4, <2>2 DEF Current
  <2>12. QuietInv'
    <3>1. \A q \in Partitions : q # p => Quiet(walks'[q]) BY <1>22, <2>4
    <3>2. ASSUME NEW i \in DOMAIN tail.open, i > 1
          PROVE  Len(walks'[tail.open[i]].collected) >= walks'[tail.open[i]].target
      <4>1. tail.open[i] \in Partitions /\ tail.open[i] # p
        <5>1. 1 \in DOMAIN tail.open /\ p = tail.open[1] BY <1>3, <1>4
        <5>2. tail.open[1] < tail.open[i] BY <1>3, <3>2, <5>1 DEF Sorted
        <5>3. tail.open[1] \in Nat /\ tail.open[i] \in Partitions
          <6>1. tail.open[1] \in Partitions /\ tail.open[i] \in Partitions BY <1>3, <5>1
          <6> QED BY <6>1, ScanAssumption
        <5> QED BY <5>1, <5>2, <5>3
      <4>2. walks'[tail.open[i]] = walks[tail.open[i]] BY <2>4, <4>1
      <4> QED BY <1>22, <3>2, <4>2
    <3> QED BY <2>2, <2>11, <3>1, <3>2 DEF QuietInv, Busy, Quiet, has_more
  <2>13. LimitInv'
    <3>1. PICK kw \in Nat, ku \in Nat : kw = kept(w) /\ ku = kept(u) BY <1>8, <2>5, KeptNat
    <3>2. PICK us : us = walks' OBVIOUS
    <3>3. KeptTotal(walks) \in Nat /\ KeptTotal(us) \in Nat
          /\ KeptTotal(us) = KeptTotal(walks) - kept(walks[p]) + kept(us[p])
      <4>1. \A q \in Partitions : kept(walks[q]) \in Nat BY <1>7, KeptNat DEF TailPartition
      <4>2. \A q \in Partitions \ {p} : kept(us[q]) = kept(walks[q]) BY <2>4, <3>2
      <4>3. \A q \in Partitions : kept(us[q]) \in Nat BY <2>3, <3>1, <3>2, <4>1, <4>2
      <4> QED BY <4>1, <4>2, <4>3, KeptTotalStep
    <3>4. KeptTotal(us) = KeptTotal(walks) - kw + ku BY <1>5, <2>3, <3>1, <3>2, <3>3
    <3>5. w.target \in Nat BY <1>8, KeptNat
    <3>6. KeptTotal(us) - ku + u.target <= tail.spec.limit BY <1>23, <2>5, <3>1, <3>3, <3>4, <3>5
    <3>7. KeptTotal(walks)' - kept(walks'[p]) + walks'[p].target <= tail'.spec.limit
      BY <2>2, <2>3, <3>1, <3>2, <3>6, KeptTotalNext
    <3>8. kept(walks[Current])' = kept(walks'[p]) /\ walks[Current]' = walks'[p] BY <2>11 DEF kept
    <3> QED BY <2>2, <3>7, <3>8 DEF LimitInv
  <2>14. TailSound' BY <2>2, NotDone
  <2> QED BY <2>8, <2>9, <2>10, <2>12, <2>13, <2>14, TailPartsNext
<1>26. CASE ~(c.offset < l.start) /\ ~(halts \/ next >= w.window_end)
  <2>1. chunk' = [c EXCEPT !.records = records, !.offset = next] /\ tail' = tail /\ walks' = walks /\ passed' = passed
    BY <1>5, <1>19, <1>26
  <2>2. PICK e : e = chunk' /\ e = [c EXCEPT !.records = records, !.offset = next] BY <2>1
  <2>3. next \in Nat /\ c.offset < next /\ next <= LogEnd(l.batches) BY <1>20, <1>26
  <2>4. /\ e \in [p : Partitions, start : Nat, offset : Nat, records : Seq(Outcome)]
        /\ e.p = c.p /\ e.start = c.start /\ e.offset = next
    BY <1>10, <2>2, <2>3
  <2>5. ChunkShape(l, w, e) BY <1>10, <2>3, <2>4 DEF ChunkShape
  <2>6. Sound(p)' => Sound(p) BY <1>1, <2>1, SoundBefore
  <2>7. Sound(p)' => ChunkGood(p, l, w, t, e) BY <1>8, <1>9, <1>20, <1>21, <1>26, <2>2, <2>6
  <2>8. TailShape'
    <3>1. chunk'.p = p BY <1>4, <1>5, <2>2, <2>4
    <3> QED BY <1>1, <1>3, <1>4, <2>1, <3>1 DEF TailShape, Busy
  <2>9. ASSUME NEW q \in Partitions PROVE TailPartition(q)' BY <1>1, <1>6, <1>7, <2>1, PartitionStays
  <2>10. ChunkInv'
    <3>1. chunk'.p = p BY <1>4, <1>5, <2>2, <2>4
    <3>2. /\ ChunkShape(log'[p], walks'[p], chunk')
          /\ Sound(p)' => ChunkGood(p, log'[p], walks'[p], tail'.spec, chunk')
      BY <1>1, <1>5, <2>1, <2>2, <2>5, <2>7
    <3>3. Sound(chunk.p)' <=> Sound(p)' BY <3>1 DEF Sound, Chronological
    <3> QED BY <3>1, <3>2, <3>3 DEF ChunkInv
  <2>11. Current' = p BY <1>4, <2>1 DEF Current
  <2>12. QuietInv' BY <1>1, <1>22, <2>1, <2>11 DEF QuietInv, Busy, Quiet, has_more
  <2>13. LimitInv'
    <3>1. kept(walks[Current])' = kept(w) /\ walks[Current]' = w BY <1>5, <2>1, <2>11 DEF kept
    <3> QED BY <1>1, <1>23, <2>1, <3>1, KeptTotalNext DEF LimitInv
  <2>14. TailSound' BY <1>1, <2>1, NotDone
  <2> QED BY <2>8, <2>9, <2>10, <2>12, <2>13, <2>14, TailPartsNext
<1> QED BY <1>24, <1>25, <1>26

(* A request that fails fails the call.                                    *)
LEMMA FailsStep ==
  ASSUME TailInv, TailFails
  PROVE  TailInv'
<1>1. /\ log' = log /\ walks' = walks /\ passed' = passed /\ tail.at = "read"
      /\ tail' = [tail EXCEPT !.at = "failed"] /\ faults' = [faults EXCEPT !.failures = @ + 1]
  BY DEF TailFails
<1>2. TailShape /\ \A q \in Partitions : TailPartition(q) BY DEF TailInv
<1>3. /\ DOMAIN tail = {"at", "spec", "open", "share"}
      /\ DOMAIN faults = {"growth", "deletes", "failures"} /\ faults.deletes \in Nat
  BY <1>2 DEF TailShape
<1>4. /\ tail'.at = "failed" /\ tail'.spec = tail.spec /\ tail'.open = tail.open /\ tail'.share = tail.share
      /\ DOMAIN tail' = {"at", "spec", "open", "share"}
      /\ DOMAIN faults' = {"growth", "deletes", "failures"} /\ faults'.deletes = faults.deletes
  BY <1>1, <1>3
<1>5. TailShape' BY <1>1, <1>2, <1>4 DEF TailShape, Busy
<1>6. ASSUME NEW q \in Partitions PROVE TailPartition(q)'
  <2>1. Going BY <1>1 DEF Going
  <2> QED BY <1>1, <1>2, <1>4, <2>1, PartitionStays
<1>7. ChunkInv' /\ QuietInv' /\ LimitInv' BY <1>4 DEF ChunkInv, QuietInv, LimitInv, Busy
<1>8. TailSound' BY <1>4, NotDone
<1> QED BY <1>5, <1>6, <1>7, <1>8, TailPartsNext

-----------------------------------------------------------------------------
(* The log changes under the walk *)

At(start, next) ==
  [next |-> next, end |-> next, start |-> start, finished |-> FALSE, buffered |-> <<>>]

LEMMA AtGood ==
  ASSUME NEW p, NEW l, LogGood(p, l), NEW v, NEW start \in Nat, NEW next \in Nat, start <= next,
         next <= LogEnd(l.batches), l.whole => Aligned(l.batches, v, [start |-> start, next |-> next])
  PROVE  CursorGood(p, l, v, At(start, next))
<1>1. PICK c : c = At(start, next) OBVIOUS
<1>2. c.next = next /\ c.end = next /\ c.start = start /\ c.buffered = <<>> /\ CursorShape(c)
  BY <1>1 DEF At, CursorShape
<1>3. DOMAIN c.buffered = {} /\ Rising(c.buffered) BY <1>2 DEF Rising
<1>4. l.whole => Aligned(l.batches, v, c) BY <1>2 DEF Aligned
<1>5. CursorGood(p, l, v, c) BY <1>2, <1>3, <1>4 DEF CursorGood
<1> QED BY <1>1, <1>5

LEMMA AtEnd ==
  ASSUME NEW p, NEW l, LogGood(p, l), NEW v
  PROVE  LogEnd(l.batches) \in Nat /\ CursorGood(p, l, v, At(LogEnd(l.batches), LogEnd(l.batches)))
<1>1. IsLog(l.batches) BY DEF LogGood
<1>2. PICK end \in Nat : end = LogEnd(l.batches) BY <1>1, LogEndFacts
<1>3. Aligned(l.batches, v, [start |-> end, next |-> end]) BY DEF Aligned
<1> QED BY <1>2, <1>3, AtGood

(* What lay in the log below its end is as it was.                         *)
Below(l, m, v) ==
  \A o \in Nat : o < LogEnd(l.batches) =>
    /\ o \in VisibleOffsets(m.batches, v) <=> o \in VisibleOffsets(l.batches, v)
    /\ o < EndFor(m.batches, v) <=> o < EndFor(l.batches, v)

LEMMA GrownIs ==
  ASSUME NEW p, NEW l, LogGood(p, l), NEW m, Grown(p, l, m), NEW v
  PROVE  /\ LogGood(p, m) /\ m.whole = l.whole
         /\ LogEnd(l.batches) \in Nat /\ LogEnd(m.batches) \in Nat /\ LogEnd(l.batches) <= LogEnd(m.batches)
         /\ Below(l, m, v)
         /\ \A start, next \in Nat :
              /\ start <= next /\ next <= LogEnd(l.batches) /\ l.whole
              /\ Aligned(l.batches, v, [start |-> start, next |-> next])
              => Aligned(m.batches, v, [start |-> start, next |-> next])
<1>1. PICK b : /\ Continues(l.batches, b) /\ b.last \in b.offs /\ b.offs \subseteq DOMAIN Timestamps[p]
               /\ DOMAIN m = {"batches", "start", "whole"} /\ m.batches = Append(l.batches, b)
               /\ m.start = l.start /\ m.whole = l.whole
  BY DEF Grown
<1>2. IsLog(l.batches) BY DEF LogGood
<1>3. PICK end \in Nat : end = LogEnd(l.batches) BY <1>2, LogEndFacts
<1>4. ASSUME NEW c, CursorGood(p, l, v, c)
      PROVE  Survives(p, l, m, v, c) /\ VisibleOffsets(l.batches, v) \subseteq VisibleOffsets(m.batches, v)
  BY <1>1, <1>4, GrowSurvives
<1>5. PICK c : c = At(end, end) OBVIOUS
<1>6. CursorGood(p, l, v, c) /\ c.next = end BY <1>3, <1>5, AtEnd DEF At
<1>7. Survives(p, l, m, v, c) /\ VisibleOffsets(l.batches, v) \subseteq VisibleOffsets(m.batches, v)
  BY <1>4, <1>6
<1>8. LogGood(p, m) /\ \A o \in VisibleOffsets(m.batches, v) : o < end => o \in VisibleOffsets(l.batches, v)
  BY <1>6, <1>7 DEF Survives
<1>9. /\ EndFor(l.batches, v) <= EndFor(m.batches, v)
      /\ EndFor(l.batches, v) = EndFor(m.batches, v) \/ EndFor(l.batches, v) = end
  BY <1>1, <1>2, <1>3, AppendStable
<1>10. IsLog(m.batches) BY <1>8 DEF LogGood
<1>11. EndFor(l.batches, v) \in Nat /\ EndFor(m.batches, v) \in Nat BY <1>2, <1>10, EndForFacts
<1>12. LogEnd(m.batches) \in Nat /\ end <= LogEnd(m.batches)
  <2>1. LogEnd(Append(l.batches, b)) = b.last + 1 /\ b.last \in Nat /\ LogEnd(l.batches) <= b.last
    BY <1>1, <1>2, AppendFacts
  <2> QED BY <1>1, <1>3, <2>1
<1>13. Below(l, m, v)
  <2> SUFFICES ASSUME NEW o \in Nat, o < end
               PROVE  /\ o \in VisibleOffsets(m.batches, v) <=> o \in VisibleOffsets(l.batches, v)
                      /\ o < EndFor(m.batches, v) <=> o < EndFor(l.batches, v)
    BY <1>3 DEF Below
  <2>1. o \in VisibleOffsets(m.batches, v) <=> o \in VisibleOffsets(l.batches, v) BY <1>7, <1>8
  <2>2. o < EndFor(m.batches, v) <=> o < EndFor(l.batches, v) BY <1>9, <1>11
  <2> QED BY <2>1, <2>2
<1>14. ASSUME NEW start \in Nat, NEW next \in Nat, start <= next, next <= end, l.whole,
              Aligned(l.batches, v, [start |-> start, next |-> next])
       PROVE  Aligned(m.batches, v, [start |-> start, next |-> next])
  <2>1. PICK d : d = At(start, next) OBVIOUS
  <2>2. CursorGood(p, l, v, d) BY <1>3, <1>14, <2>1, AtGood
  <2>3. CursorGood(p, m, v, d) BY <1>4, <2>2 DEF Survives
  <2>4. Aligned(m.batches, v, d) BY <1>1, <1>14, <2>3 DEF CursorGood
  <2>5. d.start = start /\ d.next = next BY <2>1 DEF At
  <2> QED BY <2>4, <2>5 DEF Aligned
<1> QED BY <1>1, <1>3, <1>8, <1>12, <1>13, <1>14

LEMMA GrownWalk ==
  ASSUME NEW p, NEW l, LogGood(p, l), NEW m, Grown(p, l, m), NEW t, NEW w, WalkShape(w),
         w.log_end <= LogEnd(l.batches)
  PROVE  /\ Want(p, m, w, t) = Want(p, l, w, t) /\ w.log_end <= LogEnd(m.batches)
         /\ WalkGood(p, l, w, t) => WalkGood(p, m, w, t)
<1>1. PICK v : v = t.visibility OBVIOUS
<1>2. PICK end \in Nat : end = LogEnd(l.batches) BY LogEndFacts DEF LogGood
<1>3. v = t.visibility /\ end = LogEnd(l.batches) BY <1>1, <1>2
<1>4. LogGood(p, m) /\ LogEnd(m.batches) \in Nat /\ end <= LogEnd(m.batches) /\ Below(l, m, v)
  BY <1>3, GrownIs
<1>5. IsLog(l.batches) /\ IsLog(m.batches) BY <1>4 DEF LogGood
<1>6. /\ w.window_end \in Nat /\ w.log_end \in Nat /\ w.window_end <= w.log_end /\ w.log_end <= end
  BY <1>3 DEF WalkShape
<1>7. ASSUME NEW o
      PROVE  /\ o \in VisibleOffsets(m.batches, v) => o \in Nat
             /\ o \in VisibleOffsets(l.batches, v) => o \in Nat
             /\ o \in Nat /\ o < w.log_end =>
                  /\ o \in VisibleOffsets(m.batches, v) <=> o \in VisibleOffsets(l.batches, v)
                  /\ o < EndFor(m.batches, v) <=> o < EndFor(l.batches, v)
  <2>1. o \in VisibleOffsets(m.batches, v) => o \in Nat BY <1>5, VisibleNat
  <2>2. o \in VisibleOffsets(l.batches, v) => o \in Nat BY <1>5, VisibleNat
  <2>3. o \in Nat /\ o < w.log_end => o < end BY <1>6
  <2> QED BY <1>3, <1>4, <2>1, <2>2, <2>3 DEF Below
<1>8. Want(p, m, w, t) = Want(p, l, w, t)
  <2>1. ASSUME NEW o PROVE o \in Want(p, m, w, t) <=> o \in Want(p, l, w, t) BY <1>3, <1>7 DEF Want
  <2> QED BY <2>1
<1>9. ASSUME WalkGood(p, l, w, t) PROVE WalkGood(p, m, w, t)
  <2>1. ASSUME NEW o \in VisibleOffsets(m.batches, v), w.log_start <= o, o < w.window_end
        PROVE  AtOrBefore(p, o, t.anchor)
    <3>1. o \in Nat BY <1>7
    <3>2. o < w.log_end BY <1>6, <2>1, <3>1
    <3>3. o \in VisibleOffsets(l.batches, v) BY <1>7, <3>1, <3>2
    <3> QED BY <1>3, <1>9, <2>1, <3>3 DEF WalkGood
  <2> QED BY <1>3, <1>8, <1>9, <2>1 DEF WalkGood
<1>10. w.log_end <= LogEnd(m.batches) BY <1>4, <1>6
<1> QED BY <1>8, <1>9, <1>10

LEMMA GrownChunk ==
  ASSUME NEW p, NEW l, LogGood(p, l), NEW m, Grown(p, l, m), NEW t, NEW w, WalkShape(w),
         w.log_end <= LogEnd(l.batches), NEW c, ChunkShape(l, w, c)
  PROVE  ChunkShape(m, w, c) /\ (l.whole /\ ChunkGood(p, l, w, t, c) => ChunkGood(p, m, w, t, c))
<1>1. /\ LogEnd(m.batches) \in Nat /\ LogEnd(l.batches) \in Nat /\ LogEnd(l.batches) <= LogEnd(m.batches)
  BY GrownIs
<1>2. /\ c \in [p : Partitions, start : Nat, offset : Nat, records : Seq(Outcome)]
      /\ w.log_start <= c.start /\ c.start <= w.window_end
      /\ c.start <= c.offset /\ c.offset <= LogEnd(l.batches)
  BY DEF ChunkShape
<1>3. c.start \in Nat /\ c.offset \in Nat BY <1>2
<1>4. ChunkShape(m, w, c) BY <1>1, <1>2, <1>3 DEF ChunkShape
<1>5. Want(p, m, w, t) = Want(p, l, w, t) BY GrownWalk
<1>6. ASSUME l.whole, ChunkGood(p, l, w, t, c) PROVE ChunkGood(p, m, w, t, c)
  <2>1. PICK v : v = t.visibility OBVIOUS
  <2>2. Aligned(l.batches, v, [start |-> c.start, next |-> c.offset]) BY <1>6, <2>1 DEF ChunkGood
  <2>3. Aligned(m.batches, v, [start |-> c.start, next |-> c.offset]) BY <1>2, <1>3, <1>6, <2>2, GrownIs
  <2> QED BY <1>5, <1>6, <2>1, <2>3 DEF ChunkGood
<1> QED BY <1>4, <1>6

LEMMA TailGrows ==
  ASSUME TailInv, NEW p \in Partitions, Grow(p), UNCHANGED tailVars
  PROVE  TailInv'
<1>1. tail' = tail /\ walks' = walks /\ chunk' = chunk /\ passed' = passed
      /\ faults' = [faults EXCEPT !.growth = @ + 1]
  BY DEF tailVars, Grow
<1>2. TailShape /\ QuietInv /\ LimitInv /\ ChunkInv /\ TailSound /\ \A q \in Partitions : TailPartition(q)
  BY DEF TailInv
<1>3. /\ DOMAIN log = Partitions /\ DOMAIN faults = {"growth", "deletes", "failures"} /\ faults.deletes \in Nat
  BY <1>2 DEF TailShape
<1>4. \A q \in Partitions : LogGood(q, log[q]) /\ WalkShape(walks[q]) /\ walks[q].log_end <= LogEnd(log[q].batches)
  BY <1>2 DEF TailPartition
<1>5. /\ DOMAIN log' = Partitions /\ (\A q \in Partitions \ {p} : log'[q] = log[q])
      /\ Grown(p, log[p], log'[p])
  BY <1>3, <1>4, GrowIs
<1>6. DOMAIN faults' = {"growth", "deletes", "failures"} /\ faults'.deletes = faults.deletes BY <1>1, <1>3
<1>7. LogGood(p, log'[p]) /\ log'[p].whole = log[p].whole BY <1>4, <1>5, GrownIs
<1>8. \A q \in Partitions : log'[q].whole = log[q].whole BY <1>5, <1>7
<1>9. \A q \in Partitions : Sound(q)' <=> Sound(q) BY <1>1, <1>6, <1>8 DEF Sound, Chronological
<1>10. ASSUME NEW q \in Partitions
       PROVE  /\ LogGood(q, log'[q]) /\ walks[q].log_end <= LogEnd(log'[q].batches)
              /\ WalkGood(q, log[q], walks[q], tail.spec) => WalkGood(q, log'[q], walks[q], tail.spec)
              /\ Wanted(q)' = Wanted(q)
  <2>1. /\ LogGood(q, log'[q]) /\ walks[q].log_end <= LogEnd(log'[q].batches)
        /\ WalkGood(q, log[q], walks[q], tail.spec) => WalkGood(q, log'[q], walks[q], tail.spec)
        /\ Want(q, log'[q], walks[q], tail.spec) = Want(q, log[q], walks[q], tail.spec)
    <3>1. CASE q # p
      <4>1. log'[q] = log[q] BY <1>5, <3>1
      <4> QED BY <1>4, <4>1
    <3>2. CASE q = p
      <4>1. PICK l, m, w, t : l = log[p] /\ m = log'[p] /\ w = walks[p] /\ t = tail.spec OBVIOUS
      <4>2. LogGood(p, l) /\ Grown(p, l, m) /\ WalkShape(w) /\ w.log_end <= LogEnd(l.batches)
        BY <1>4, <1>5, <4>1
      <4>3. /\ Want(p, m, w, t) = Want(p, l, w, t) /\ w.log_end <= LogEnd(m.batches)
            /\ WalkGood(p, l, w, t) => WalkGood(p, m, w, t)
        BY <4>2, GrownWalk
      <4> QED BY <1>7, <3>2, <4>1, <4>3
    <3> QED BY <3>1, <3>2
  <2> QED BY <1>1, <2>1, WantedIs, WantedIsNext
<1>11. TailShape' BY <1>1, <1>2, <1>3, <1>5, <1>6 DEF TailShape, Busy
<1>12. ASSUME NEW q \in Partitions PROVE TailPartition(q)'
  <2>1. Going' <=> Going BY <1>1 DEF Going
  <2>2. Going' /\ Sound(q)' => WalkGood(q, log'[q], walks'[q], tail'.spec)
    BY <1>1, <1>2, <1>9, <1>10, <2>1 DEF TailPartition
  <2>3. LogGood(q, log'[q]) /\ WalkShape(walks'[q]) /\ walks'[q].log_end <= LogEnd(log'[q].batches)
    BY <1>1, <1>4, <1>10
  <2> QED BY <2>2, <2>3 DEF TailPartition
<1>13. ChunkInv'
  <2> SUFFICES ASSUME tail.at = "read" PROVE ChunkInv' BY <1>1 DEF ChunkInv
  <2>1. PICK q \in Partitions : q = chunk.p BY <1>2, TailFieldsOf DEF TailShape, Busy
  <2>2. PICK l, m, w, t, c : l = log[q] /\ m = log'[q] /\ w = walks[q] /\ t = tail.spec /\ c = chunk OBVIOUS
  <2>3. ChunkShape(l, w, c) /\ (Sound(q) => ChunkGood(q, l, w, t, c)) /\ (Sound(q) => l.whole)
    BY <1>2, <2>1, <2>2 DEF ChunkInv, Sound
  <2>4. ChunkShape(m, w, c) /\ (Sound(q) => ChunkGood(q, m, w, t, c))
    <3>1. CASE q # p
      <4>1. m = l BY <1>5, <2>2, <3>1
      <4> QED BY <2>3, <4>1
    <3>2. CASE q = p
      <4>1. LogGood(q, l) /\ Grown(q, l, m) /\ WalkShape(w) /\ w.log_end <= LogEnd(l.batches)
        BY <1>4, <1>5, <2>2, <3>2
      <4>2. ChunkShape(m, w, c) /\ (l.whole /\ ChunkGood(q, l, w, t, c) => ChunkGood(q, m, w, t, c))
        BY <2>3, <4>1, GrownChunk
      <4> QED BY <2>3, <4>2
    <3> QED BY <3>1, <3>2
  <2>5. Sound(chunk.p)' <=> Sound(q)
    <3>1. Sound(chunk.p)' <=> Sound(q)' BY <1>1, <2>1 DEF Sound, Chronological
    <3> QED BY <1>9, <3>1
  <2>6. /\ ChunkShape(log'[chunk'.p], walks'[chunk'.p], chunk')
        /\ Sound(chunk.p)' => ChunkGood(chunk'.p, log'[chunk'.p], walks'[chunk'.p], tail'.spec, chunk')
    BY <1>1, <2>1, <2>2, <2>4, <2>5
  <2> QED BY <2>6 DEF ChunkInv
<1>14. QuietInv' BY <1>1, <1>2 DEF QuietInv, Busy, Quiet, has_more, Current
<1>15. LimitInv'
  <2>1. KeptTotal(walks)' = KeptTotal(walks) BY <1>1, KeptTotalNext
  <2>2. kept(walks[Current])' = kept(walks[Current]) /\ walks[Current]' = walks[Current]
    BY <1>1 DEF kept, Current
  <2> QED BY <1>1, <1>2, <2>1, <2>2 DEF LimitInv, Busy
<1>16. TailSound'
  <2>1. NewestInOrder'
    <3> SUFFICES ASSUME tail.at = "done", NEW q \in Partitions, Sound(q)
                 PROVE  LET w == walks[q]
                        IN /\ \A i, j \in DOMAIN w.collected : i < j => w.collected[i].offset < w.collected[j].offset
                           /\ OffsetsOf(w) \subseteq Wanted(q)
                           /\ \A o \in Wanted(q) : (\E x \in OffsetsOf(w) : x <= o) => o \in OffsetsOf(w)
      BY <1>1, <1>9, <1>10 DEF NewestInOrder, OffsetsOf
    <3> QED BY <1>2 DEF TailSound, NewestInOrder
  <2>2. LimitMet'
    <3>1. KeptTotal(walks)' = KeptTotal(walks) BY <1>1, KeptTotalNext
    <3>2. \A q \in Partitions : OffsetsOf(walks[q])' = OffsetsOf(walks[q]) BY <1>1 DEF OffsetsOf
    <3>3. LimitMet BY <1>2 DEF TailSound
    <3> QED BY <1>1, <1>9, <1>10, <3>1, <3>2, <3>3 DEF LimitMet
  <2>3. LogStartClaim'
    <3>1. \A q \in Partitions : OffsetsOf(walks[q])' = OffsetsOf(walks[q]) BY <1>1 DEF OffsetsOf
    <3>2. \A q \in Partitions : reached_log_start(walks[q])' <=> reached_log_start(walks[q])
      BY <1>1 DEF reached_log_start, has_more
    <3>3. LogStartClaim BY <1>2 DEF TailSound
    <3> QED BY <1>1, <1>9, <1>10, <3>1, <3>2, <3>3 DEF LogStartClaim
  <2> QED BY <2>1, <2>2, <2>3 DEF TailSound
<1> QED BY <1>11, <1>12, <1>13, <1>14, <1>15, <1>16, TailPartsNext

LEMMA TailDeletes ==
  ASSUME TailInv, NEW p \in Partitions, DeleteFirst(p), UNCHANGED tailVars
  PROVE  TailInv'
<1>1. tail' = tail /\ walks' = walks /\ chunk' = chunk /\ passed' = passed BY DEF tailVars
<1>2. TailShape /\ QuietInv /\ LimitInv /\ ChunkInv /\ TailSound /\ \A q \in Partitions : TailPartition(q)
  BY DEF TailInv
<1>3. /\ log[p].batches # <<>> /\ Head(log[p].batches).last < LastStable(log[p].batches)
      /\ log' = [log EXCEPT ![p].start = Head(log[p].batches).last + 1,
                            ![p].batches = IF Len(@) > 1 THEN Tail(@) ELSE @]
      /\ faults' = [faults EXCEPT !.deletes = @ + 1]
  BY DEF DeleteFirst
<1>4. /\ DOMAIN log = Partitions /\ DOMAIN faults = {"growth", "deletes", "failures"} /\ faults.deletes \in Nat
  BY <1>2 DEF TailShape
<1>5. \A q \in Partitions : LogGood(q, log[q]) /\ WalkShape(walks[q]) /\ walks[q].log_end <= LogEnd(log[q].batches)
  BY <1>2 DEF TailPartition
<1>6. DOMAIN log' = Partitions /\ \A q \in Partitions \ {p} : log'[q] = log[q] BY <1>3, <1>4
<1>7. DOMAIN log[p] = {"batches", "start", "whole"} BY <1>5 DEF LogGood
<1>8. /\ DOMAIN log'[p] = {"batches", "start", "whole"}
      /\ log'[p].batches = IF Len(log[p].batches) > 1 THEN Tail(log[p].batches) ELSE log[p].batches
      /\ log'[p].start = Head(log[p].batches).last + 1 /\ log'[p].whole = log[p].whole
  BY <1>3, <1>4, <1>7
<1>9. DOMAIN faults' = {"growth", "deletes", "failures"} /\ faults'.deletes \in Nat /\ faults'.deletes # 0
  BY <1>3, <1>4
<1>10. \A q : ~Sound(q)' BY <1>9 DEF Sound
<1>11. LogGood(p, log'[p]) /\ LogEnd(log[p].batches) <= LogEnd(log'[p].batches)
       /\ LogEnd(log[p].batches) \in Nat /\ LogEnd(log'[p].batches) \in Nat
  <2>1. PICK l, m, v : l = log[p] /\ m = log'[p] /\ v = tail.spec.visibility OBVIOUS
  <2>2. PICK c : c = At(LogEnd(l.batches), LogEnd(l.batches)) OBVIOUS
  <2>3. LogGood(p, l) /\ LogEnd(l.batches) \in Nat /\ CursorGood(p, l, v, c) /\ c.next = LogEnd(l.batches)
    BY <1>5, <2>1, <2>2, AtEnd DEF At
  <2>4. /\ l.batches # <<>> /\ Head(l.batches).last < LastStable(l.batches)
        /\ DOMAIN m = {"batches", "start", "whole"}
        /\ m.batches = IF Len(l.batches) > 1 THEN Tail(l.batches) ELSE l.batches
        /\ m.start = Head(l.batches).last + 1 /\ m.whole = l.whole
    BY <1>3, <1>8, <2>1
  <2>5. Survives(p, l, m, v, c) BY <2>3, <2>4, DeleteSurvives
  <2>6. LogGood(p, m) /\ c.next <= LogEnd(m.batches) BY <2>5 DEF Survives, CursorGood
  <2>7. LogEnd(m.batches) \in Nat BY <2>6, LogEndFacts DEF LogGood
  <2> QED BY <2>1, <2>3, <2>6, <2>7
<1>12. \A q \in Partitions : /\ LogGood(q, log'[q]) /\ LogEnd(log[q].batches) <= LogEnd(log'[q].batches)
                             /\ LogEnd(log[q].batches) \in Nat /\ LogEnd(log'[q].batches) \in Nat
  <2> SUFFICES ASSUME NEW q \in Partitions
               PROVE  /\ LogGood(q, log'[q]) /\ LogEnd(log[q].batches) <= LogEnd(log'[q].batches)
                      /\ LogEnd(log[q].batches) \in Nat /\ LogEnd(log'[q].batches) \in Nat
    OBVIOUS
  <2>1. CASE q = p BY <1>11, <2>1
  <2>2. CASE q # p
    <3>1. log'[q] = log[q] /\ LogGood(q, log[q]) BY <1>5, <1>6, <2>2
    <3>2. LogEnd(log[q].batches) \in Nat BY <3>1, LogEndFacts DEF LogGood
    <3> QED BY <3>1, <3>2
  <2> QED BY <2>1, <2>2
<1>13. TailShape' BY <1>1, <1>2, <1>6, <1>9 DEF TailShape, Busy
<1>14. ASSUME NEW q \in Partitions PROVE TailPartition(q)'
  <2>1. walks[q].log_end \in Nat BY <1>5 DEF WalkShape
  <2>2. walks'[q].log_end <= LogEnd(log'[q].batches) BY <1>1, <1>5, <1>12, <2>1
  <2> QED BY <1>1, <1>5, <1>10, <1>12, <2>2 DEF TailPartition
<1>15. ChunkInv'
  <2> SUFFICES ASSUME tail.at = "read" PROVE ChunkInv' BY <1>1 DEF ChunkInv
  <2>1. PICK q \in Partitions : q = chunk.p BY <1>2, TailFieldsOf DEF TailShape, Busy
  <2>2. ChunkShape(log[q], walks[q], chunk) BY <1>2, <2>1 DEF ChunkInv
  <2>3. ChunkShape(log'[q], walks[q], chunk)
    <3>1. chunk.offset \in Nat BY <2>2 DEF ChunkShape
    <3> QED BY <1>12, <2>2, <3>1 DEF ChunkShape
  <2>4. ChunkShape(log'[chunk'.p], walks'[chunk'.p], chunk') BY <1>1, <2>1, <2>3
  <2>5. ~Sound(chunk.p)' BY <1>9 DEF Sound
  <2> QED BY <2>4, <2>5 DEF ChunkInv
<1>16. QuietInv' BY <1>1, <1>2 DEF QuietInv, Busy, Quiet, has_more, Current
<1>17. KeptTotal(walks)' = KeptTotal(walks) BY <1>1, KeptTotalNext
<1>18. LimitInv'
  <2>1. kept(walks[Current])' = kept(walks[Current]) /\ walks[Current]' = walks[Current]
    BY <1>1 DEF kept, Current
  <2> QED BY <1>1, <1>2, <1>17, <2>1 DEF LimitInv, Busy
<1>19. TailSound'
  <2>1. LimitMet BY <1>2 DEF TailSound
  <2>2. LimitMet' BY <1>1, <1>10, <1>17, <2>1 DEF LimitMet
  <2> QED BY <1>10, <2>2 DEF TailSound, NewestInOrder, LogStartClaim
<1> QED BY <1>13, <1>14, <1>15, <1>16, <1>18, <1>19, TailPartsNext

LEMMA TailStutters ==
  ASSUME TailInv, UNCHANGED <<log, faults>>, UNCHANGED tailVars
  PROVE  TailInv'
<1>1. log' = log /\ faults' = faults /\ tail' = tail /\ walks' = walks /\ chunk' = chunk /\ passed' = passed
  BY DEF tailVars
<1>2. TailShape /\ QuietInv /\ LimitInv /\ ChunkInv /\ TailSound /\ \A q \in Partitions : TailPartition(q)
  BY DEF TailInv
<1>3. \A q : Sound(q)' <=> Sound(q) BY <1>1 DEF Sound, Chronological
<1>4. Going' <=> Going BY <1>1 DEF Going
<1>5. TailShape' BY <1>1, <1>2 DEF TailShape, Busy
<1>6. ASSUME NEW q \in Partitions PROVE TailPartition(q)'
  <2>1. /\ LogGood(q, log'[q]) /\ WalkShape(walks'[q]) /\ walks'[q].log_end <= LogEnd(log'[q].batches)
        /\ Going' /\ Sound(q)' => WalkGood(q, log'[q], walks'[q], tail'.spec)
    BY <1>1, <1>2, <1>3, <1>4 DEF TailPartition
  <2> QED BY <2>1 DEF TailPartition
<1>7. ChunkInv'
  <2>1. Sound(chunk.p)' <=> Sound(chunk.p) BY <1>1 DEF Sound, Chronological
  <2>2. tail'.at = "read" =>
          /\ ChunkShape(log'[chunk'.p], walks'[chunk'.p], chunk')
          /\ Sound(chunk.p)' => ChunkGood(chunk'.p, log'[chunk'.p], walks'[chunk'.p], tail'.spec, chunk')
    BY <1>1, <1>2, <2>1 DEF ChunkInv
  <2> QED BY <2>2 DEF ChunkInv
<1>8. QuietInv' BY <1>1, <1>2 DEF QuietInv, Busy, Quiet, has_more, Current
<1>9. KeptTotal(walks)' = KeptTotal(walks) BY <1>1, KeptTotalNext
<1>10. LimitInv'
  <2>1. kept(walks[Current])' = kept(walks[Current]) /\ walks[Current]' = walks[Current]
    BY <1>1 DEF kept, Current
  <2> QED BY <1>1, <1>2, <1>9, <2>1 DEF LimitInv, Busy
<1>11. TailSound'
  <2>1. \A q \in Partitions : Wanted(q)' = Wanted(q) /\ OffsetsOf(walks[q])' = OffsetsOf(walks[q])
    BY <1>1, WantedIs, WantedIsNext DEF OffsetsOf
  <2>2. \A q \in Partitions : reached_log_start(walks[q])' <=> reached_log_start(walks[q])
    BY <1>1 DEF reached_log_start, has_more
  <2>3. NewestInOrder /\ LimitMet /\ LogStartClaim BY <1>2 DEF TailSound
  <2>4. NewestInOrder' BY <1>1, <1>3, <2>1, <2>3 DEF NewestInOrder, OffsetsOf
  <2>5. LimitMet' BY <1>1, <1>3, <1>9, <2>1, <2>3 DEF LimitMet
  <2>6. LogStartClaim' BY <1>1, <1>3, <2>1, <2>2, <2>3 DEF LogStartClaim
  <2> QED BY <2>4, <2>5, <2>6 DEF TailSound
<1> QED BY <1>5, <1>6, <1>7, <1>8, <1>10, <1>11, TailPartsNext

-----------------------------------------------------------------------------
(* The theorem on the backward read *)

LEMMA TailsBegin ==
  ReaderInit => TailsInv
<1> SUFFICES ASSUME ReaderInit PROVE TailsInv OBVIOUS
<1>1. CASE tail = NoTail BY <1>1 DEF TailsInv, NoTail
<1>2. CASE LogInit /\ TailInit /\ pc = "off" BY <1>2, TailBegins DEF TailsInv
<1> QED BY <1>1, <1>2 DEF ReaderInit

LEMMA TailsKeep ==
  ASSUME TailsInv, [ReaderNext]_readerVars
  PROVE  TailsInv'
<1>1. CASE tail.at = "off"
  <2>1. tail' = tail
    BY <1>1 DEF ReaderNext, TailStep, TailRound, TailGrant, TailWalk, TailRead, TailFails, readerVars, tailVars
  <2> QED BY <1>1, <2>1 DEF TailsInv
<1>2. CASE pc = "off" /\ TailInv
  <2>1. pc' = pc
    <3>1. CASE ScanNext
      BY <1>2, <3>1 DEF ScanNext, ScanStep, StartRefill, FetchFrom, EmitNext, FetchFails, ScanRests, Grow, DeleteFirst, scanVars
    <3>2. CASE UNCHANGED scanVars BY <3>2 DEF scanVars
    <3>3. CASE TailFails BY <3>3 DEF TailFails
    <3> QED BY <3>1, <3>2, <3>3 DEF ReaderNext, readerVars
  <2>2. TailInv'
    <3>1. CASE ScanNext /\ UNCHANGED tailVars
      <4>1. \E p \in Partitions : Grow(p) \/ DeleteFirst(p)
        BY <1>2, <3>1 DEF ScanNext, ScanStep, StartRefill, FetchFrom, EmitNext, FetchFails, ScanRests
      <4> QED BY <1>2, <3>1, <4>1, TailGrows, TailDeletes
    <3>2. CASE TailStep /\ UNCHANGED scanVars
      BY <1>2, <3>2, RoundStep, GrantStep, WalkStep, ReadStep DEF TailStep
    <3>3. CASE TailFails BY <1>2, <3>3, FailsStep
    <3>4. CASE UNCHANGED readerVars
      <4>1. UNCHANGED <<log, faults>> /\ UNCHANGED tailVars BY <3>4 DEF readerVars, scanVars
      <4> QED BY <1>2, <4>1, TailStutters
    <3> QED BY <3>1, <3>2, <3>3, <3>4 DEF ReaderNext
  <2> QED BY <1>2, <2>1, <2>2 DEF TailsInv
<1> QED BY <1>1, <1>2 DEF TailsInv

LEMMA TailsInvSound ==
  TailsInv => TailSound
<1> SUFFICES ASSUME TailsInv PROVE TailSound OBVIOUS
<1>1. CASE tail.at = "off" BY <1>1 DEF TailSound, NewestInOrder, LimitMet, LogStartClaim
<1>2. CASE TailInv BY <1>2 DEF TailInv
<1> QED BY <1>1, <1>2 DEF TailsInv

(* Whatever the logs, the partitions, the limit, the anchor, the steps and *)
(* the sizes of answers, and however the logs grow meanwhile: a call that  *)
(* returns has of every partition the newest records below the anchor, in  *)
(* order and with none left out between them, no more in all than the      *)
(* limit and fewer only if there are no more, and reached_log_start is     *)
(* claimed only where nothing older was left (tail_topic, run_until,       *)
(* read_window, trim_to_target).                                           *)
THEOREM TailIsSound ==
  ReaderSpecification => []TailSound
<1>1. ReaderInit => TailsInv BY TailsBegin
<1>2. TailsInv /\ [ReaderNext]_readerVars => TailsInv' BY TailsKeep
<1>3. TailsInv => TailSound BY TailsInvSound
<1> QED BY <1>1, <1>2, <1>3, PTL DEF ReaderSpecification
=============================================================================

------------------------------- MODULE Cursor -------------------------------
(***************************************************************************)
(* What a consumer promises the application that polls it, with nothing of *)
(* how: a cursor in each partition that only placing it moves back, and    *)
(* records handed out in the order of the log from the cursor on.          *)
(***************************************************************************)
EXTENDS Integers, Sequences, SequencesExt

CONSTANT Partitions

VARIABLES
  readable,  \* per partition: the offsets a reader may see
  start,     \* per partition: the first offset that was not deleted
  cursor,    \* per partition: where the next record may come from
  handed     \* per partition: the offsets handed out since it was placed

cursorVars == <<readable, start, cursor, handed>>

CursorInit == handed = [p \in Partitions |-> <<>>]

\* A poll returns records, of any partitions.  What was read before it was
\* deleted may still be among them.
HandsOut ==
  /\ \A p \in Partitions :
       LET new == SubSeq(handed'[p], Len(handed[p]) + 1, Len(handed'[p]))
       IN /\ IsPrefix(handed[p], handed'[p])
          /\ \A i \in DOMAIN new : /\ new[i] >= cursor[p]
                                   /\ new[i] \in readable[p] \/ new[i] < start[p]
          /\ \A i, j \in DOMAIN new : i < j => new[i] < new[j]
          /\ cursor'[p] = IF new = <<>> THEN cursor[p] ELSE Last(new) + 1
  /\ UNCHANGED <<readable, start>>

\* assign, seek and a restart place partitions anew.
Places ==
  /\ \A p \in Partitions : \/ handed'[p] = <<>>
                           \/ handed'[p] = handed[p] /\ cursor'[p] = cursor[p]
  /\ UNCHANGED <<readable, start>>

\* Records are added beyond those that are there, or the oldest are deleted.
LogChanges ==
  /\ \A p \in Partitions : /\ start[p] <= start'[p]
                           /\ \A o \in readable[p] : o >= start'[p] => o \in readable'[p]
                           /\ \A o \in readable'[p] \ readable[p] : \A r \in readable[p] : r < o
  /\ UNCHANGED <<cursor, handed>>

CursorNext == HandsOut \/ Places \/ LogChanges
CursorSpec == CursorInit /\ [][CursorNext]_cursorVars
=============================================================================

------------------------------ MODULE PidQueue ------------------------------
(***************************************************************************)
(* The pidQueue of package networksharding: the ordered, duplicate-free    *)
(* list of peer IDs that share one public key.  The head is the least      *)
(* recently promoted peer ID, the tail the most recent one.  The file      *)
(* pidQueue.go is not among the sources, so these operators follow the     *)
(* description of PidQueue in the specification (section 4.1).             *)
(*                                                                         *)
(* Positions are 1-based; IndexNotFound plays the role of the Go constant  *)
(* indexNotFound.                                                          *)
(***************************************************************************)
LOCAL INSTANCE Sequences
LOCAL INSTANCE Naturals
LOCAL SeqExt == INSTANCE SequencesExt

IndexNotFound == 0

\* push(pid): append unless already present.
QPush(q, pid) == IF \E i \in 1..Len(q) : q[i] = pid THEN q ELSE Append(q, pid)

\* indexOf(pid): position of pid, or IndexNotFound.
QIndexOf(q, pid) ==
    IF \E i \in 1..Len(q) : q[i] = pid
    THEN CHOOSE i \in 1..Len(q) : q[i] = pid
    ELSE IndexNotFound

\* promote(idx): move the entry at idx to the most recent end.
QPromote(q, idx) == SeqExt!RemoveAt(q, idx) \o <<q[idx]>>

\* pop(): the least recently promoted entry, and the queue without it.
QPopped(q) == Head(q)
QPop(q) == Tail(q)

\* remove(pid): delete pid by value.
QRemove(q, pid) == SeqExt!Remove(q, pid)

=============================================================================

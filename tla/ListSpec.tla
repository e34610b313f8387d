------------------------------ MODULE ListSpec ------------------------------
(***************************************************************************)
(* What PTP::List promises: a sequence of entries, none twice, to which    *)
(* Insert adds at the front, Append at the back, and from which Remove     *)
(* takes one entry, each in one indivisible step.                          *)
(***************************************************************************)
EXTENDS Naturals, Sequences

CONSTANT Entries

VARIABLE list

Holds(e) == \E k \in 1..Len(list) : list[k] = e

Init == list = <<>>

Insert(e) == ~Holds(e) /\ list' = <<e>> \o list

AppendEntry(e) == ~Holds(e) /\ list' = Append(list, e)

Remove(k) == list' = SubSeq(list, 1, k - 1) \o SubSeq(list, k + 1, Len(list))

Next ==
    \/ \E e \in Entries : Insert(e) \/ AppendEntry(e)
    \/ \E k \in 1..Len(list) : Remove(k)

Spec == Init /\ [][Next]_list

=============================================================================

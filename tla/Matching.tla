------------------------------ MODULE Matching ------------------------------
(***************************************************************************)
(* The two matchers of PTP::Collection (ptp/collect.cpp): CmpPat decides   *)
(* which names a search finds, CmpExt which files of a directory are       *)
(* shared.  Strings are sequences of characters.  Beside each stands a     *)
(* definition of what it is meant to decide.                               *)
(***************************************************************************)
EXTENDS Naturals, Sequences, FiniteSets

\* toupper(), for the letters that the instances use.
Upper(c) == CASE c = "a" -> "A" [] c = "b" -> "B" [] OTHER -> c
Same(s, t) == Len(s) = Len(t) /\ \A i \in DOMAIN s : Upper(s[i]) = Upper(t[i])

From(s, i) == SubSeq(s, i, Len(s))

----------------------------------------------------------------------------
(* CmpPat *)

\* The wildcards at the head of a pattern that are skipped together.
RECURSIVE Wildcards(_)
Wildcards(p) == IF p # <<>> /\ Head(p) \in {"*", "?"} THEN 1 + Wildcards(Tail(p)) ELSE 0

\* CmpPat(str, pat) == 0
RECURSIVE CmpPat(_, _)
CmpPat(s, p) ==
    IF p = <<>> THEN s = <<>>
    ELSE CASE Head(p) = "?" -> s # <<>> /\ CmpPat(Tail(s), Tail(p))
           [] Head(p) = "*" ->
                LET w == Wildcards(p)
                    ones == Cardinality({i \in 1..w : p[i] = "?"})
                    rest == From(p, w + 1)
                IN  /\ ones <= Len(s)
                    /\ \/ rest = <<>>
                       \/ \E i \in (ones + 1)..Len(s) : CmpPat(From(s, i), rest)
                       \/ CmpPat(<<>>, rest)
           [] Head(p) = "\\" ->
                Len(p) > 1 /\ s # <<>> /\ Same(<<Head(s)>>, <<p[2]>>) /\ CmpPat(Tail(s), From(p, 3))
           [] OTHER -> s # <<>> /\ Same(<<Head(s)>>, <<Head(p)>>) /\ CmpPat(Tail(s), Tail(p))

\* The words over an alphabet that a pattern stands for: those of its first token
\* followed by those of the rest.  A backslash at the end stands for nothing.
RECURSIVE Language(_, _)
Language(p, words) ==
    LET ones == {w \in words : Len(w) = 1}
        token == CASE Head(p) = "?" -> ones
                   [] Head(p) = "*" -> words
                   [] Head(p) = "\\" -> {w \in ones : Len(p) > 1 /\ Same(w, <<p[2]>>)}
                   [] OTHER -> {w \in ones : Same(w, <<Head(p)>>)}
        rest == From(p, IF Head(p) = "\\" THEN 3 ELSE 2)
    IN  IF p = <<>> THEN {<<>>}
        ELSE {w \in words : \E i \in 0..Len(w) :
                  SubSeq(w, 1, i) \in token /\ From(w, i + 1) \in Language(rest, words)}

----------------------------------------------------------------------------
(* CmpExt *)

\* The length of the first item of a list, and of the separators behind it.
RECURSIVE ItemSize(_)
ItemSize(e) == IF e # <<>> /\ Head(e) # ";" THEN 1 + ItemSize(Tail(e)) ELSE 0

RECURSIVE Separators(_)
Separators(e) == IF e # <<>> /\ Head(e) = ";" THEN 1 + Separators(Tail(e)) ELSE 0

\* name ends with a dot and the item.
EndsWith(name, item) ==
    LET dot == Len(name) - Len(item)
    IN  dot > 0 /\ name[dot] = "." /\ Same(From(name, dot + 1), item)

\* The loop of CmpExt over the items from `start' on.
RECURSIVE AnyItem(_, _)
AnyItem(name, start) ==
    /\ start # <<>>
    /\ LET n == ItemSize(start)
           behind == From(start, n + 1)
       IN  \/ EndsWith(name, SubSeq(start, 1, n))
           \/ AnyItem(name, From(behind, Separators(behind) + 1))

\* CmpExt(name, ext) == 0
CmpExt(name, ext) == ext = <<>> \/ AnyItem(name, ext)

\* The items of a list: what stands between separators and the ends.  Of the empty ones
\* only the one in front of a leading separator counts.
Items(ext) ==
    {SubSeq(ext, i, j) : <<i, j>> \in {<<i, j>> \in (1..Len(ext)) \X (0..Len(ext)) :
        /\ i <= j \/ (i = 1 /\ j = 0)
        /\ \A k \in i..j : ext[k] # ";"
        /\ i = 1 \/ ext[i - 1] = ";"
        /\ j = Len(ext) \/ ext[j + 1] = ";"}}

Shared(name, ext) ==
    ext = <<>> \/ \E item \in Items(ext), n \in 0..(Len(name) - 1) :
                      Same(name, SubSeq(name, 1, n) \o <<".">> \o item)
=============================================================================

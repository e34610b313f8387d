---------------------------- MODULE MCCollection ----------------------------
(* Main and one more thread; one shared directory with up to two files and *)
(* room for two entries that callers add.                                  *)
EXTENDS Collection, TLC

M == INSTANCE Matching

SomePatterns == {Names} \cup {{n} : n \in Names}

Strings(chars, n) == UNION {[1..k -> chars] : k \in 0..n}

\* CmpPat decides membership in the language of the pattern, and CmpExt whether a name
\* ends with a dot and an item of the list, for all short names, patterns and lists.
ASSUME MatchersRight ==
    /\ LET words == Strings({"a", "B", "*"}, 3)
       IN  \A p \in Strings({"A", "*", "?", "\\"}, 3) :
               {w \in words : M!CmpPat(w, p)} = M!Language(p, words)
    /\ \A file \in Strings({"a", "B", "."}, 3) \ {<<>>}, ext \in Strings({"A", "b", ";"}, 4) :
           M!CmpExt(file, ext) <=> M!Shared(file, ext)

Symmetry == Permutations(Cells)
=============================================================================

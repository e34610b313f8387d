--------------------------- MODULE CollectionProofs ---------------------------
(***************************************************************************)
(* Proofs about module Collection, from one invariant, CInv.  A cell is in *)
(* the list once or with one thread that adds it, and only Main rescans    *)
(* (Apart, Inside).  How far the counter is from the length of the list is *)
(* known for every step that the holder of the lock has still to take      *)
(* (Counting), and, unless two threads were in m_id++ at once, no number   *)
(* is given twice (Numbers).  In the middle of a Rescan, what it has found *)
(* and what it still owes make up each directory once (Scanned).  A walk   *)
(* of Find that nobody disturbs stands at a place of the list, and the     *)
(* match it will return is the first ahead of that place (Walks).          *)
(***************************************************************************)
EXTENDS Collection, SequenceTheorems, FiniteSetTheorems, FunctionTheorems, NaturalsInduction,
        WellFoundedInduction, TLAPS

----------------------------------------------------------------------------
(* The inductive invariant *)

Labels == {"idle", "add", "addId", "addInsert", "addCount", "destroyed", "rescan", "purge",
           "scanLock", "scanDir", "scanFile", "findLock", "walk", "found", "dead"}
Adding == {"add", "addId", "addInsert"}
Rescanning == {"rescan", "scanLock", "scanDir", "scanFile"}
MainOnly == Rescanning \cup {"purge", "destroyed"}

\* No cell is in the list twice; one that is being added is not there until it is
\* inserted, and one thread adds it; only Main removes and rescans, and the entries
\* it adds for that come from the directory it is at.
Apart ==
    /\ \A i, j \in DOMAIN entries : entries[i] = entries[j] => i = j
    /\ \A t \in Threads : pc[t] \in Adding => ent[t] # None /\ ent[t] \notin InList
    /\ \A t, u \in Threads : pc[t] \in Adding /\ pc[u] \in Adding /\ ent[t] = ent[u] => t = u
    /\ \A t \in Threads : pc[t] = "addCount" => ent[t] \in InList
    /\ \A t \in Threads \ {Main} :
          /\ pc[t] \notin MainOnly
          /\ pc[t] \in Adding \cup {"addCount"} => dir[ent[t]] = None

\* Main is adding the files of the first directory in scanDirs.
InDir == pc[Main] = "scanFile" \/ (pc[Main] \in Adding \cup {"addCount"} /\ dir[ent[Main]] # None)

\* The directory Main is in is the first it has not left, and what it is adding
\* comes from there.
Inside ==
    /\ InDir => scanDirs # <<>>
    /\ pc[Main] \in Adding \cup {"addCount"} /\ dir[ent[Main]] # None
          => dir[ent[Main]] = Head(scanDirs)

\* Between the list and its size there is always one holder of the lock, and what it
\* has still to do makes up for the difference.
Counting ==
    /\ SizeMatches
    /\ \A t \in Threads : pc[t] \in {"addCount", "destroyed", "purge"} => entriesOwner = t
    /\ \A t \in Threads : pc[t] = "addCount" => size + 1 = Len(entries)
    /\ pc[Main] = "destroyed" => size = Len(entries) + 1
    /\ pc[Main] = "purge" =>
          /\ size <= Len(entries)
          /\ \A i \in 1..size : dir[entries[i]] = None
          /\ tmp[Main] = At(size + 1)

\* The entries that have their number.
Numbered == InList \cup {ent[t] : t \in {u \in Threads : pc[u] = "addInsert"}}

\* The next number is free, and only one thread is about to give it away.
Numbers ==
    \/ raced
    \/ /\ \A c \in Numbered : id[c] < nextId
       /\ \A c, d \in Numbered : id[c] = id[d] => c = d
       /\ \A t \in Threads : pc[t] = "addId" => reg[t] = nextId
       /\ \A t, u \in Threads : pc[t] = "addId" /\ pc[u] = "addId" => t = u

\* The entries for file n of directory d, and how often d is in a list.
Found(d, n) == {c \in InList : dir[c] = d /\ name[c] = n}
Times(list, d) == Cardinality({j \in DOMAIN list : list[j] = d})

\* The directories that the Rescan under way has not begun with, and the entries
\* for file n of directory d it still has to add for those it has.
Rest == IF pc[Main] = "scanLock" THEN dirs
        ELSE IF pc[Main] = "scanDir" THEN scanDirs
        ELSE IF InDir THEN Tail(scanDirs) ELSE <<>>
Owed(d, n) ==
    (IF InDir /\ d = Head(scanDirs) /\ n \in scanFiles THEN 1 ELSE 0)
    + (IF pc[Main] \in Adding /\ dir[ent[Main]] = d /\ name[ent[Main]] = n THEN 1 ELSE 0)

\* What is there and what is still to come is each file of each directory, once.
Scanned ==
    fresh /\ pc[Main] \notin {"rescan", "purge", "dead"} =>
        \A d \in Dirs, n \in Names :
            Cardinality(Found(d, n)) + Owed(d, n)
                + (IF n \in Taken(d) THEN Times(Rest, d) ELSE 0)
            = IF n \in Taken(d) THEN Times(dirs, d) ELSE 0

\* Where a walk that is at place p may still find something.
Ahead(t, p) ==
    {i \in p..Len(entries) :
        /\ from[t] = None \/ \E j \in p..(i - 1) : entries[j] = from[t]
        /\ Match(t, entries[i])}

\* A walk that nobody disturbs is at a place of the list, and what it hopes for
\* is the first match ahead.
Walking(t) ==
    \E p \in 1..(Len(entries) + 1) :
        /\ tmp[t] = At(p)
        /\ \/ Ahead(t, p) = {} /\ hope[t] = None
           \/ \E i \in Ahead(t, p) : hope[t] = entries[i] /\ \A j \in Ahead(t, p) : i <= j

\* Find returns what its walk hopes for.
WalksWell(t) ==
    /\ pc[t] \notin {"found", "dead"} => res[t] = None
    /\ pc[t] = "walk" /\ calm[t] => Walking(t)
    /\ pc[t] = "found" /\ calm[t] => res[t] = hope[t]

Walks == \A t \in Threads : WalksWell(t)

CInv == TypeOK /\ Apart /\ Inside /\ Counting /\ Numbers /\ Scanned /\ Walks

----------------------------------------------------------------------------
(* Lists: what Filter keeps, and lists without repetitions *)

\* Induction over the natural numbers, for sets.
LEMMA AllNumbers ==
    ASSUME NEW S, 0 \in S, \A n \in Nat : n \in S => n + 1 \in S
    PROVE  \A n \in Nat : n \in S
<1> DEFINE T == Nat \ S
           R == OpToRel(<, Nat)
<1> SUFFICES ASSUME T # {} PROVE FALSE
    OBVIOUS
<1>1. PICK x \in T : \A y \in T : <<y, x>> \notin R
    <2>1. T \subseteq Nat /\ IsWellFoundedOn(R, Nat)
        BY NatLessThanWellFounded
    <2> HIDE DEF T, R
    <2> QED BY <2>1, WFMin
<1>2. x # 0 /\ x - 1 \in Nat /\ x - 1 < x /\ (x - 1) + 1 = x
    OBVIOUS
<1>3. <<x - 1, x>> \in R
    BY <1>2 DEF OpToRel
<1>4. x - 1 \in S
    BY <1>1, <1>2, <1>3
<1> QED BY <1>2, <1>4

\* A set of natural numbers that is not empty has a first one.
LEMMA FirstNumber ==
    ASSUME NEW S \in SUBSET Nat, S # {}
    PROVE  \E i \in S : \A j \in S : i <= j
<1> DEFINE R == OpToRel(<, Nat)
<1>1. PICK i \in S : \A j \in S : <<j, i>> \notin R
    <2>1. S \subseteq Nat /\ IsWellFoundedOn(R, Nat)
        BY NatLessThanWellFounded
    <2> HIDE DEF R
    <2> QED BY <2>1, WFMin
<1>2. \A j \in S : ~(j < i)
    BY <1>1 DEF OpToRel
<1> QED BY <1>2

\* The parts that Filter builds, for every front of the list.
PartsOf(S, list, kept, part) ==
    /\ part \in [0..Len(list) -> Seq(S)]
    /\ part[0] = <<>>
    /\ \A i \in 1..Len(list) :
          part[i] = IF list[i] \in kept THEN Append(part[i - 1], list[i]) ELSE part[i - 1]
    /\ Filter(list, kept) = part[Len(list)]

LEMMA FilterParts ==
    ASSUME NEW S, NEW list \in Seq(S), NEW kept
    PROVE  \E part : PartsOf(S, list, kept, part)
<1>0. PICK n \in Nat : n = Len(list)
    OBVIOUS
<1> DEFINE Step(f, i) == IF list[i] \in kept THEN Append(f[i - 1], list[i]) ELSE f[i - 1]
           Good(m, f) == f \in [0..m -> Seq(S)] /\ f[0] = <<>> /\ \A i \in 1..m : f[i] = Step(f, i)
           M == {m \in Nat : m <= n => \E f : Good(m, f)}
<1>1. 0 \in M
    <2>1. Good(0, [i \in 0..0 |-> <<>>])
        OBVIOUS
    <2> QED BY <2>1
<1>2. ASSUME NEW m \in Nat, m \in M PROVE m + 1 \in M
    <2> SUFFICES ASSUME m + 1 <= n PROVE \E f : Good(m + 1, f)
        OBVIOUS
    <2>0. m <= n
        OBVIOUS
    <2>1. PICK f : Good(m, f)
        <3> HIDE DEF Good
        <3> QED BY <1>2, <2>0
    <2> DEFINE last == IF list[m + 1] \in kept THEN Append(f[m], list[m + 1]) ELSE f[m]
               g == [i \in 0..(m + 1) |-> IF i \in 0..m THEN f[i] ELSE last]
    <2>2. m + 1 \in DOMAIN list /\ list[m + 1] \in S
        BY <1>0
    <2>3. f[m] \in Seq(S) /\ last \in Seq(S)
        BY <2>1, <2>2
    <2> HIDE DEF last
    <2>4. g \in [0..(m + 1) -> Seq(S)] /\ g[0] = <<>>
        BY <2>1, <2>3
    <2>5. ASSUME NEW i \in 1..(m + 1) PROVE g[i] = Step(g, i)
        <3>1. i - 1 \in 0..m /\ (i \in 1..m \/ i = m + 1) /\ g[i - 1] = f[i - 1]
            OBVIOUS
        <3>2. CASE i \in 1..m
            BY <2>1, <3>1, <3>2
        <3>3. CASE i = m + 1
            BY <3>1, <3>3 DEF last
        <3> QED BY <3>1, <3>2, <3>3
    <2>6. Good(m + 1, g)
        BY <2>4, <2>5
    <2> QED BY <2>6
<1>3. n \in M
    <2> HIDE DEF M
    <2> QED BY <1>1, <1>2, AllNumbers
<1>4. PICK f : Good(n, f)
    BY <1>0, <1>3
<1>5. f = [i \in 0..n |-> IF i = 0 THEN <<>> ELSE Step(f, i)]
    <2>1. \A i \in 0..n : i = 0 \/ i \in 1..n
        OBVIOUS
    <2> HIDE DEF Step
    <2> QED BY <1>4, <2>1
<1> DEFINE part == CHOOSE p : p = [i \in 0..Len(list) |->
                       IF i = 0 THEN <<>>
                       ELSE IF list[i] \in kept THEN Append(p[i - 1], list[i]) ELSE p[i - 1]]
<1>6. Filter(list, kept) = part[Len(list)]
    BY DEF Filter
<1>7. part = [i \in 0..Len(list) |->
                 IF i = 0 THEN <<>>
                 ELSE IF list[i] \in kept THEN Append(part[i - 1], list[i]) ELSE part[i - 1]]
    BY <1>0, <1>5
<1> HIDE DEF part
<1>8. part[0] = <<>> /\ \A i \in 1..n : part[i] = Step(part, i)
    <2>1. /\ 0 \in 0..Len(list)
          /\ \A i \in 1..n : i \in 0..Len(list) /\ i # 0
        BY <1>0
    <2> QED BY <1>0, <1>7, <2>1
<1>9. \A i \in 0..n : part[i] = f[i]
    <2> DEFINE E == {i \in Nat : i <= n => part[i] = f[i]}
    <2>1. 0 \in E
        BY <1>4, <1>8
    <2>2. ASSUME NEW i \in Nat, i \in E PROVE i + 1 \in E
        <3> SUFFICES ASSUME i + 1 <= n PROVE part[i + 1] = f[i + 1]
            OBVIOUS
        <3>1. i + 1 \in 1..n /\ (i + 1) - 1 = i /\ i <= n
            BY <1>0
        <3> QED BY <1>4, <1>8, <2>2, <3>1
    <2>3. \A i \in Nat : i \in E
        <3> HIDE DEF E
        <3> QED BY <2>1, <2>2, AllNumbers
    <2> QED BY <1>0, <2>3
<1>10. part \in [0..Len(list) -> Seq(S)]
    <2>1. part = [i \in 0..n |-> f[i]]
        BY <1>0, <1>7, <1>9
    <2> QED BY <1>0, <1>4, <2>1
<1> QED BY <1>0, <1>6, <1>8, <1>10 DEF PartsOf

\* Filter keeps what it is to keep, nothing twice, and all of a list of which it
\* is to keep everything.
LEMMA FilterFacts ==
    ASSUME NEW S, NEW list \in Seq(S), NEW kept
    PROVE  LET new == Filter(list, kept)
           IN  /\ new \in Seq(S)
               /\ SX!ToSet(new) = SX!ToSet(list) \cap kept
               /\ (\A i, j \in DOMAIN list : list[i] = list[j] => i = j)
                     => \A i, j \in DOMAIN new : new[i] = new[j] => i = j
               /\ SX!ToSet(list) \subseteq kept => new = list
<1>p. PICK part : PartsOf(S, list, kept, part)
    BY FilterParts
<1>1. /\ part \in [0..Len(list) -> Seq(S)]
      /\ part[0] = <<>>
      /\ \A i \in 1..Len(list) :
            part[i] = IF list[i] \in kept THEN Append(part[i - 1], list[i]) ELSE part[i - 1]
      /\ Filter(list, kept) = part[Len(list)]
    BY <1>p DEF PartsOf
<1>0. PICK n \in Nat : n = Len(list)
    OBVIOUS
<1> DEFINE Once == \A i, j \in DOMAIN list : list[i] = list[j] => i = j
           All == SX!ToSet(list) \subseteq kept
           Good(m) == /\ \A k \in 1..Len(part[m]) : \E i \in 1..m : part[m][k] = list[i] /\ list[i] \in kept
                      /\ \A i \in 1..m : list[i] \in kept =>
                            \E k \in 1..Len(part[m]) : part[m][k] = list[i]
                      /\ Once => \A k, h \in 1..Len(part[m]) : part[m][k] = part[m][h] => k = h
                      /\ All => /\ Len(part[m]) = m
                                /\ \A k \in 1..m : part[m][k] = list[k]
           M == {m \in Nat : m <= n => Good(m)}
<1>2. 0 \in M
    <2>1. Len(part[0]) = 0
        BY <1>1
    <2> QED BY <2>1
<1>3. ASSUME NEW m \in Nat, m \in M PROVE m + 1 \in M
    <2> SUFFICES ASSUME m + 1 <= n PROVE Good(m + 1)
        <3> HIDE DEF Good
        <3> QED OBVIOUS
    <2>1. /\ m + 1 \in 1..Len(list) /\ (m + 1) - 1 = m /\ m \in 0..Len(list)
          /\ m + 1 \in DOMAIN list /\ \A i \in 1..m : i \in DOMAIN list
        BY <1>0
    <2>2. part[m] \in Seq(S) /\ Len(part[m]) \in Nat /\ list[m + 1] \in S
        BY <1>1, <2>1
    <2>3. Good(m)
        BY <1>3, <2>1
    <2>4. CASE list[m + 1] \in kept
        <3>1. part[m + 1] = Append(part[m], list[m + 1])
            BY <1>1, <2>1, <2>4
        <3>2. /\ Len(part[m + 1]) = Len(part[m]) + 1
              /\ \A k \in 1..Len(part[m]) : part[m + 1][k] = part[m][k]
              /\ part[m + 1][Len(part[m]) + 1] = list[m + 1]
            BY <2>2, <3>1, AppendProperties
        <3>3. \A k \in 1..Len(part[m + 1]) : k \in 1..Len(part[m]) \/ k = Len(part[m]) + 1
            BY <2>2, <3>2
        <3>4. \A i \in 1..(m + 1) : i \in 1..m \/ i = m + 1
            OBVIOUS
        <3>5. \A k \in 1..Len(part[m + 1]) :
                 \E i \in 1..(m + 1) : part[m + 1][k] = list[i] /\ list[i] \in kept
            <4> TAKE k \in 1..Len(part[m + 1])
            <4>1. CASE k \in 1..Len(part[m])
                <5>1. PICK i \in 1..m : part[m][k] = list[i] /\ list[i] \in kept
                    BY <2>3, <4>1
                <5> QED BY <3>2, <4>1, <5>1
            <4>2. CASE k = Len(part[m]) + 1
                BY <2>4, <3>2, <4>2
            <4> QED BY <3>3, <4>1, <4>2
        <3>6. \A i \in 1..(m + 1) : list[i] \in kept =>
                 \E k \in 1..Len(part[m + 1]) : part[m + 1][k] = list[i]
            <4> SUFFICES ASSUME NEW i \in 1..(m + 1), list[i] \in kept
                         PROVE  \E k \in 1..Len(part[m + 1]) : part[m + 1][k] = list[i]
                OBVIOUS
            <4>1. CASE i \in 1..m
                <5>1. PICK k \in 1..Len(part[m]) : part[m][k] = list[i]
                    BY <2>3, <4>1
                <5>2. k \in 1..Len(part[m + 1])
                    BY <2>2, <3>2
                <5> QED BY <3>2, <5>1, <5>2
            <4>2. CASE i = m + 1
                <5>1. Len(part[m]) + 1 \in 1..Len(part[m + 1])
                    BY <2>2, <3>2
                <5> QED BY <3>2, <4>2, <5>1
            <4> QED BY <3>4, <4>1, <4>2
        <3>7. ASSUME Once, NEW k \in 1..Len(part[m + 1]), NEW h \in 1..Len(part[m + 1]),
                     part[m + 1][k] = part[m + 1][h]
              PROVE  k = h
            <4>1. \A l \in 1..Len(part[m]) : part[m][l] # list[m + 1]
                <5> SUFFICES ASSUME NEW l \in 1..Len(part[m]), part[m][l] = list[m + 1] PROVE FALSE
                    OBVIOUS
                <5>1. PICK i \in 1..m : part[m][l] = list[i]
                    BY <2>3
                <5>2. i = m + 1
                    BY <2>1, <3>7, <5>1
                <5> QED BY <5>2
            <4>2. \A l, o \in 1..Len(part[m]) : part[m][l] = part[m][o] => l = o
                BY <2>3, <3>7
            <4> QED BY <3>2, <3>3, <3>7, <4>1, <4>2
        <3>8. ASSUME All
              PROVE  Len(part[m + 1]) = m + 1 /\ \A k \in 1..(m + 1) : part[m + 1][k] = list[k]
            BY <2>3, <3>2, <3>4, <3>8
        <3> QED BY <3>5, <3>6, <3>7, <3>8
    <2>5. CASE list[m + 1] \notin kept
        <3>1. part[m + 1] = part[m]
            BY <1>1, <2>1, <2>5
        <3>2. ~All
            BY <2>1, <2>5 DEF SX!ToSet
        <3>3. \A i \in 1..(m + 1) : i \in 1..m \/ i = m + 1
            OBVIOUS
        <3>4. \A i \in 1..m : i \in 1..(m + 1)
            OBVIOUS
        <3> HIDE DEF All, Once
        <3> QED BY <2>3, <2>5, <3>1, <3>2, <3>3, <3>4
    <2> QED BY <2>4, <2>5
<1>4. Good(n)
    <2>1. \A m \in Nat : m \in M
        <3> HIDE DEF M
        <3> QED BY <1>2, <1>3, AllNumbers
    <2> HIDE DEF Good
    <2> QED BY <1>0, <2>1
<1> DEFINE new == Filter(list, kept)
<1>5. new = part[n] /\ new \in Seq(S) /\ DOMAIN new = 1..Len(new) /\ DOMAIN list = 1..n
    BY <1>0, <1>1
<1> HIDE DEF new
<1>6. SX!ToSet(new) = SX!ToSet(list) \cap kept
    <2>1. ASSUME NEW c \in SX!ToSet(new) PROVE c \in SX!ToSet(list) \cap kept
        <3>1. PICK k \in 1..Len(new) : new[k] = c
            BY <1>5 DEF SX!ToSet
        <3>2. PICK i \in 1..n : new[k] = list[i] /\ list[i] \in kept
            BY <1>4, <1>5
        <3> QED BY <1>5, <3>1, <3>2 DEF SX!ToSet
    <2>2. ASSUME NEW c \in SX!ToSet(list), c \in kept PROVE c \in SX!ToSet(new)
        <3>1. PICK i \in 1..n : list[i] = c
            BY <1>5 DEF SX!ToSet
        <3>2. PICK k \in 1..Len(new) : new[k] = list[i]
            BY <1>4, <1>5, <2>2, <3>1
        <3> QED BY <1>5, <3>1, <3>2 DEF SX!ToSet
    <2> QED BY <2>1, <2>2
<1>7. Once => \A i, j \in DOMAIN new : new[i] = new[j] => i = j
    BY <1>4, <1>5
<1>8. All => new = list
    <2> SUFFICES ASSUME All PROVE new = list
        OBVIOUS
    <2>1. Len(new) = n /\ \A k \in 1..n : new[k] = list[k]
        BY <1>4, <1>5
    <2> HIDE DEF All
    <2> QED BY <1>0, <1>5, <2>1
<1> QED BY <1>5, <1>6, <1>7, <1>8 DEF new

\* Without one of its items a list without repetitions is what was before that item
\* and, one place further to the front, what was behind it.
LEMMA FilterDrops ==
    ASSUME NEW S, NEW list \in Seq(S), \A i, j \in DOMAIN list : list[i] = list[j] => i = j,
           NEW k \in DOMAIN list
    PROVE  LET new == Filter(list, SX!ToSet(list) \ {list[k]})
           IN  /\ Len(new) = Len(list) - 1
               /\ \A i \in 1..(k - 1) : new[i] = list[i]
               /\ \A i \in k..(Len(list) - 1) : new[i] = list[i + 1]
<1> DEFINE kept == SX!ToSet(list) \ {list[k]}
<1>p. PICK part : PartsOf(S, list, kept, part)
    BY FilterParts
<1>0. PICK n \in Nat : n = Len(list)
    OBVIOUS
<1>1. /\ part \in [0..n -> Seq(S)]
      /\ part[0] = <<>>
      /\ \A i \in 1..n :
            part[i] = IF list[i] \in kept THEN Append(part[i - 1], list[i]) ELSE part[i - 1]
      /\ Filter(list, kept) = part[n]
    BY <1>p, <1>0 DEF PartsOf
<1>2. \A i \in 1..n : list[i] \in S /\ (list[i] \in kept <=> i # k)
    BY <1>0 DEF SX!ToSet
<1>3. k \in 1..n
    BY <1>0
<1> HIDE DEF kept
<1> DEFINE Good(m) == IF m < k THEN Len(part[m]) = m /\ \A i \in 1..m : part[m][i] = list[i]
                      ELSE /\ Len(part[m]) = m - 1
                           /\ \A i \in 1..(k - 1) : part[m][i] = list[i]
                           /\ \A i \in k..(m - 1) : part[m][i] = list[i + 1]
           M == {m \in Nat : m <= n => Good(m)}
<1>4. 0 \in M
    BY <1>1, <1>3
<1>5. ASSUME NEW m \in Nat, m \in M PROVE m + 1 \in M
    <2> SUFFICES ASSUME m + 1 <= n PROVE Good(m + 1)
        <3> HIDE DEF Good
        <3> QED OBVIOUS
    <2>1. m + 1 \in 1..n /\ (m + 1) - 1 = m /\ m \in 0..n
        OBVIOUS
    <2>2. part[m] \in Seq(S) /\ Len(part[m]) \in Nat /\ list[m + 1] \in S
        BY <1>1, <1>2, <2>1
    <2>3. Good(m)
        BY <1>5, <2>1
    <2>4. CASE m + 1 # k
        <3>1. part[m + 1] = Append(part[m], list[m + 1])
            BY <1>1, <1>2, <2>1, <2>4
        <3>2. /\ Len(part[m + 1]) = Len(part[m]) + 1
              /\ \A i \in 1..Len(part[m]) : part[m + 1][i] = part[m][i]
              /\ part[m + 1][Len(part[m]) + 1] = list[m + 1]
            BY <2>2, <3>1, AppendProperties
        <3>3. CASE m + 1 < k
            <4>1. Len(part[m]) = m /\ \A i \in 1..m : part[m][i] = list[i]
                BY <2>3, <3>3, <1>3
            <4>2. \A i \in 1..(m + 1) : i \in 1..m \/ i = m + 1
                OBVIOUS
            <4> QED BY <3>2, <3>3, <4>1, <4>2
        <3>4. CASE k < m + 1
            <4>1. /\ Len(part[m]) = m - 1
                  /\ \A i \in 1..(k - 1) : part[m][i] = list[i]
                  /\ \A i \in k..(m - 1) : part[m][i] = list[i + 1]
                BY <2>3, <3>4, <1>3
            <4>2. /\ \A i \in 1..(k - 1) : i \in 1..(m - 1)
                  /\ \A i \in k..((m + 1) - 1) : (i \in k..(m - 1) /\ i \in 1..(m - 1)) \/ i = m
                  /\ (m - 1) + 1 = m /\ (m + 1) - 1 = m
                BY <1>3, <3>4
            <4>3. Len(part[m + 1]) = (m + 1) - 1 /\ part[m + 1][m] = list[m + 1]
                BY <3>2, <4>1, <4>2
            <4>4. \A i \in 1..(k - 1) : part[m + 1][i] = list[i]
                BY <3>2, <4>1, <4>2
            <4>5. \A i \in k..((m + 1) - 1) : part[m + 1][i] = list[i + 1]
                BY <3>2, <4>1, <4>2, <4>3
            <4> QED BY <3>4, <4>3, <4>4, <4>5
        <3> QED BY <1>3, <2>4, <3>3, <3>4
    <2>5. CASE m + 1 = k
        <3>1. part[m + 1] = part[m]
            BY <1>1, <1>2, <2>1, <2>5
        <3>2. Len(part[m]) = m /\ \A i \in 1..m : part[m][i] = list[i]
            BY <2>3, <2>5
        <3>3. k..((m + 1) - 1) = {} /\ k - 1 = m /\ ~(m + 1 < k)
            BY <2>5
        <3> QED BY <2>1, <3>1, <3>2, <3>3
    <2> QED BY <2>4, <2>5
<1>6. Good(n)
    <2>1. \A m \in Nat : m \in M
        <3> HIDE DEF M
        <3> QED BY <1>4, <1>5, AllNumbers
    <2> HIDE DEF Good
    <2> QED BY <2>1
<1>7. /\ Len(part[n]) = n - 1
      /\ \A i \in 1..(k - 1) : part[n][i] = list[i]
      /\ \A i \in k..(n - 1) : part[n][i] = list[i + 1]
    <2>1. ~(n < k)
        BY <1>3
    <2> QED BY <1>6, <2>1
<1> HIDE DEF Good, M
<1> DEFINE new == Filter(list, kept)
<1>8. new = part[n]
    BY <1>1
<1> HIDE DEF new
<1>9. /\ Len(new) = Len(list) - 1
      /\ \A i \in 1..(k - 1) : new[i] = list[i]
      /\ \A i \in k..(Len(list) - 1) : new[i] = list[i + 1]
    BY <1>0, <1>7, <1>8
<1> QED BY <1>9 DEF new, kept

\* The elements of a list without repetitions are as many as it is long.
LEMMA ListCount ==
    ASSUME NEW S, NEW list \in Seq(S), \A i, j \in DOMAIN list : list[i] = list[j] => i = j
    PROVE  /\ IsFiniteSet(SX!ToSet(list))
           /\ Cardinality(SX!ToSet(list)) = Len(list)
           /\ Len(list) \in Nat
<1>1. PICK n \in Nat : n = Len(list)
    OBVIOUS
<1>2. IsFiniteSet(1..n) /\ Cardinality(1..n) = n
    BY FS_Interval
<1> DEFINE T == SX!ToSet(list)
<1>3. list \in Bijection(1..n, T)
    <2>1. list \in [1..n -> T]
        BY <1>1 DEF SX!ToSet
    <2>2. \A c \in T : \E i \in 1..n : list[i] = c
        BY <1>1 DEF SX!ToSet
    <2> QED BY <1>1, <2>1, <2>2 DEF Bijection, Injection, Surjection, IsInjective
<1> HIDE DEF T
<1>4. IsFiniteSet(T) /\ Cardinality(T) = n
    BY <1>2, <1>3, FS_Bijection DEF ExistsBijection
<1> QED BY <1>1, <1>4 DEF T

----------------------------------------------------------------------------
(* Types *)

\* Where a call goes, and what it counts.
LEMMA CallTypes ==
    ASSUME TypeOK, NEW t \in Threads, NEW label \in {"add", "destroyed", "rescan", "findLock", "idle"},
           Call(t, label)
    PROVE  calls' \in Nat /\ pc' = [pc EXCEPT ![t] = label] /\ pc[t] = "idle"
BY DEF TypeOK, Call, Goto

\* A new entry is at an address that nothing uses.
LEMMA NewEntryFacts ==
    ASSUME TypeOK, NEW t \in Threads, NEW n \in Names, NEW d \in Dirs \cup {None},
           NewEntry(t, n, d)
    PROVE  \E c \in Cells :
              /\ c \notin InList
              /\ \A u \in Threads : ent[u] # c
              /\ ent' = [ent EXCEPT ![t] = c]
              /\ name' = [name EXCEPT ![c] = n]
              /\ dir' = [dir EXCEPT ![c] = d]
              /\ id' = [id EXCEPT ![c] = 0]
BY DEF NewEntry, Free

\* The entry after one of the list, and what the list is made of.
LEMMA ListFacts ==
    ASSUME TypeOK
    PROVE  /\ entries \in Seq(Cells)
           /\ Len(entries) \in Nat
           /\ DOMAIN entries = 1..Len(entries)
           /\ InList \subseteq Cells
           /\ \A i \in DOMAIN entries : entries[i] \in Cells /\ entries[i] \in InList
           /\ \A c \in InList : \E i \in DOMAIN entries : entries[i] = c
           /\ \A i : At(i) \in Cells \cup {None}
           /\ None \notin Cells
<1>1. entries \in Seq(Cells) /\ None \notin Cells
    BY CollectionAssumption DEF TypeOK
<1>2. \A i \in DOMAIN entries : entries[i] \in Cells /\ entries[i] \in InList
    BY <1>1 DEF InList, SX!ToSet
<1>3. \A c \in InList : \E i \in DOMAIN entries : entries[i] = c
    BY DEF InList, SX!ToSet
<1>4. \A i : At(i) \in Cells \cup {None}
    BY <1>2 DEF At
<1> QED BY <1>1, <1>2, <1>3, <1>4

\* The entry after one of the list.
LEMMA AfterFacts ==
    ASSUME TypeOK, \A i, j \in DOMAIN entries : entries[i] = entries[j] => i = j,
           NEW k \in DOMAIN entries
    PROVE  After(entries[k]) = At(k + 1)
<1>1. (CHOOSE i \in DOMAIN entries : entries[i] = entries[k]) = k
    OBVIOUS
<1>2. entries[k] \in InList /\ 1 + k = k + 1
    BY ListFacts
<1> QED BY <1>1, <1>2 DEF After

\* What is left of the list when one entry is removed.
LEMMA UnlinkEffect ==
    ASSUME TypeOK, \A i, j \in DOMAIN entries : entries[i] = entries[j] => i = j,
           NEW k \in DOMAIN entries, Unlink(entries[k])
    PROVE  /\ entries' \in Seq(Cells)
           /\ InList' = InList \ {entries[k]}
           /\ \A i, j \in DOMAIN entries' : entries'[i] = entries'[j] => i = j
           /\ Len(entries') = Len(entries) - 1
           /\ \A i \in 1..(k - 1) : entries'[i] = entries[i]
           /\ \A i \in k..(Len(entries) - 1) : entries'[i] = entries[i + 1]
<1> DEFINE kept == InList \ {entries[k]}
           new == Filter(entries, kept)
<1>1. entries \in Seq(Cells) /\ InList = SX!ToSet(entries)
    BY ListFacts DEF InList
<1>2. /\ new \in Seq(Cells)
      /\ SX!ToSet(new) = SX!ToSet(entries) \cap kept
      /\ \A i, j \in DOMAIN new : new[i] = new[j] => i = j
    <2> HIDE DEF kept
    <2> QED BY <1>1, FilterFacts
<1>3. /\ Len(new) = Len(entries) - 1
      /\ \A i \in 1..(k - 1) : new[i] = entries[i]
      /\ \A i \in k..(Len(entries) - 1) : new[i] = entries[i + 1]
    BY <1>1, FilterDrops
<1> HIDE DEF new
<1>4. entries' = new
    BY DEF Unlink, new
<1>5. InList' = SX!ToSet(new)
    BY <1>4 DEF InList
<1> QED BY <1>1, <1>2, <1>3, <1>4, <1>5

LEMMA AddTypes ==
    ASSUME CInv, NEW t \in Threads, Add(t)
    PROVE  TypeOK'
<1>0. TypeOK /\ Apart
    BY DEF CInv
<1>1. ASSUME NEW n \in Names, AddCall(t, n)
      PROVE  TypeOK'
    <2>1. \E c \in Cells :
              /\ ent' = [ent EXCEPT ![t] = c]
              /\ name' = [name EXCEPT ![c] = n]
              /\ dir' = [dir EXCEPT ![c] = None]
              /\ id' = [id EXCEPT ![c] = 0]
        BY <1>0, <1>1, NewEntryFacts DEF AddCall
    <2>2. calls' \in Nat /\ pc' = [pc EXCEPT ![t] = "add"]
        BY <1>0, <1>1, CallTypes DEF AddCall
    <2> QED BY <1>0, <1>1, <2>1, <2>2 DEF AddCall, TypeOK, idVars, findVars, scanVars
<1>2. CASE AddRead(t)
    BY <1>0, <1>2 DEF AddRead, Goto, TypeOK, entryVars, findVars, scanVars
<1>3. CASE AddId(t)
    <2>1. reg[t] \in Nat /\ reg[t] + 1 \in Nat
        BY <1>0 DEF TypeOK
    <2>2. id' \in [Cells -> Nat] /\ nextId' \in Nat
        BY <1>0, <1>3, <2>1 DEF AddId, TypeOK
    <2> QED BY <1>0, <1>3, <2>2 DEF AddId, Goto, TypeOK, findVars, scanVars
<1>4. CASE AddInsert(t)
    <2>1. ent[t] \in Cells
        BY <1>0, <1>4 DEF AddInsert, Apart, Adding, TypeOK
    <2>2. entries' \in Seq(Cells)
        BY <1>0, <1>4, <2>1, ConcatProperties DEF AddInsert, TypeOK
    <2> QED BY <1>0, <1>4, <2>2 DEF AddInsert, Goto, TypeOK, idVars, findVars, scanVars
<1>5. CASE AddCount(t)
    BY <1>0, <1>5 DEF AddCount, Goto, TypeOK, idVars, findVars, scanVars
<1> QED BY <1>1, <1>2, <1>3, <1>4, <1>5 DEF Add

LEMMA FindTypes ==
    ASSUME CInv, NEW t \in Threads, Find(t)
    PROVE  TypeOK'
<1>0. TypeOK
    BY DEF CInv
<1>1. ASSUME NEW p \in SUBSET Names, NEW k \in Nat \cup {None}, NEW f \in Cells \cup {None},
             FindCall(t, p, k, f)
      PROVE  TypeOK'
    <2>1. calls' \in Nat /\ pc' = [pc EXCEPT ![t] = "findLock"]
        BY <1>0, <1>1, CallTypes DEF FindCall
    <2> QED BY <1>0, <1>1, <2>1 DEF FindCall, TypeOK, entryVars, idVars, scanVars
<1>2. CASE FindLock(t)
    <2> DEFINE hits == {i \in Begin(t) : Match(t, entries[i])}
    <2>1. hits # {} => entries[CHOOSE i \in hits : \A j \in hits : i <= j] \in Cells
        <3> SUFFICES ASSUME hits # {}
                     PROVE  (CHOOSE i \in hits : \A j \in hits : i <= j) \in DOMAIN entries
            BY <1>0, ListFacts
        <3>1. hits \in SUBSET Nat /\ hits \subseteq DOMAIN entries
            BY <1>0, ListFacts DEF Begin
        <3> HIDE DEF hits
        <3>2. \E i \in hits : \A j \in hits : i <= j
            BY <3>1, FirstNumber
        <3> QED BY <3>1, <3>2
    <2>2. hope' \in [Threads -> Cells \cup {None}]
        <3>1. hope' = [hope EXCEPT ![t] = IF hits = {} THEN None
                           ELSE entries[CHOOSE i \in hits : \A j \in hits : i <= j]]
            BY <1>2 DEF FindLock
        <3> HIDE DEF hits
        <3> QED BY <1>0, <2>1, <3>1 DEF TypeOK
    <2>3. tmp' \in [Threads -> Cells \cup {None}]
        BY <1>0, <1>2, ListFacts DEF FindLock, TypeOK
    <2>4. /\ dirsOwner' = t
          /\ calm' = [calm EXCEPT ![t] = TRUE]
          /\ pc' = [pc EXCEPT ![t] = "walk"]
          /\ UNCHANGED <<win32, disk, dirs, entryVars, idVars, ent, reg, pat, num, from, res,
                         scanVars, fresh, calls>>
        BY <1>2 DEF FindLock, Goto
    <2> QED BY <1>0, <2>2, <2>3, <2>4 DEF TypeOK, entryVars, idVars, scanVars
<1>3. CASE Walk(t)
    <2>1. After(tmp[t]) \in Cells \cup {None}
        BY <1>0, <1>3, ListFacts DEF Walk, After, TypeOK
    <2>2. /\ tmp' = tmp \/ tmp' = [tmp EXCEPT ![t] = After(tmp[t])]
          /\ res' = res \/ res' = [res EXCEPT ![t] = tmp[t]]
          /\ from' = from \/ from' = [from EXCEPT ![t] = IF @ = tmp[t] THEN None ELSE @]
          /\ pc' = pc \/ pc' = [pc EXCEPT ![t] = "found"]
          /\ UNCHANGED <<win32, disk, dirs, dirsOwner, entryVars, idVars, ent, reg, pat, num, hope,
                         calm, scanVars, fresh, calls>>
        BY <1>3 DEF Walk, Goto
    <2>3. /\ tmp' \in [Threads -> Cells \cup {None}]
          /\ res' \in [Threads -> Cells \cup {None}]
          /\ from' \in [Threads -> Cells \cup {None}]
        <3>1. tmp' \in [Threads -> Cells \cup {None}]
            BY <1>0, <2>1, <2>2 DEF TypeOK
        <3>2. res' \in [Threads -> Cells \cup {None}]
            BY <1>0, <2>2 DEF TypeOK
        <3>3. from' \in [Threads -> Cells \cup {None}]
            <4>1. (IF from[t] = tmp[t] THEN None ELSE from[t]) \in Cells \cup {None}
                BY <1>0 DEF TypeOK
            <4>2. from' = from \/ from' = [from EXCEPT ![t] = IF from[t] = tmp[t] THEN None ELSE from[t]]
                BY <2>2
            <4> QED BY <1>0, <4>1, <4>2 DEF TypeOK
        <3> QED BY <3>1, <3>2, <3>3
    <2>4. UNCHANGED <<win32, disk, dirs, dirsOwner, entryVars, idVars, ent, reg, pat, num, hope,
                      calm, scanVars, fresh, calls>>
        BY <2>2
    <2>5. pc' = pc \/ pc' = [pc EXCEPT ![t] = "found"]
        BY <2>2
    <2> QED BY <1>0, <2>3, <2>4, <2>5 DEF TypeOK, entryVars, idVars, scanVars
<1>4. CASE WalkEnd(t)
    BY <1>0, <1>4 DEF WalkEnd, Goto, TypeOK, entryVars, idVars, findVars, scanVars
<1>5. CASE WalkCrash(t)
    BY <1>0, <1>5 DEF WalkCrash, TypeOK, entryVars, idVars, findVars, scanVars
<1>6. CASE FindReturn(t)
    BY <1>0, <1>6 DEF FindReturn, Goto, TypeOK, entryVars, idVars, scanVars
<1>7. ASSUME NEW p \in Patterns, NEW f \in InList \cup {None}, FindCall(t, p, None, f)
      PROVE  TypeOK'
    <2>1. p \in SUBSET Names /\ f \in Cells \cup {None}
        BY <1>0, CollectionAssumption, ListFacts
    <2> QED BY <1>1, <1>7, <2>1
<1>8. ASSUME NEW k \in {id[c] : c \in InList}, FindCall(t, Names, k, None)
      PROVE  TypeOK'
    <2>1. k \in Nat
        BY <1>0, ListFacts DEF TypeOK
    <2> QED BY <1>1, <1>8, <2>1
<1> QED BY <1>2, <1>3, <1>4, <1>5, <1>6, <1>7, <1>8 DEF Find

LEMMA RemoveTypes ==
    ASSUME CInv, DestroyCount \/ \E c \in Cells : Destroy(c)
    PROVE  TypeOK'
<1>0. /\ TypeOK /\ Main \in Threads
      /\ \A i, j \in DOMAIN entries : entries[i] = entries[j] => i = j
    BY CollectionAssumption DEF CInv, Apart
<1>1. ASSUME NEW c \in Cells, Destroy(c)
      PROVE  TypeOK'
    <2>1. calls' \in Nat /\ pc' = [pc EXCEPT ![Main] = "destroyed"]
        BY <1>0, <1>1, CallTypes DEF Destroy
    <2>2. PICK k \in DOMAIN entries : entries[k] = c
        BY <1>0, <1>1, ListFacts DEF Destroy
    <2>3. entries' \in Seq(Cells)
        BY <1>0, <1>1, <2>2, UnlinkEffect DEF Destroy
    <2>4. /\ fresh' \in BOOLEAN
          /\ calm' = [t \in Threads |-> FALSE]
          /\ entriesOwner' = Main
          /\ ent' = [ent EXCEPT ![Main] = c]
          /\ UNCHANGED <<win32, disk, dirs, dirsOwner, name, dir, id, size, idVars, reg,
                         findVars, scanVars>>
        BY <1>0, <1>1 DEF Destroy, TypeOK
    <2> QED BY <1>0, <2>1, <2>3, <2>4 DEF TypeOK, idVars, findVars, scanVars
<1>2. CASE DestroyCount
    <2>1. size' \in Nat
        <3>1. pc[Main] = "destroyed" /\ size' = size - 1 /\ Len(entries) \in Nat
            BY <1>0, <1>2, ListFacts DEF DestroyCount
        <3>2. size = Len(entries) + 1
            BY <3>1 DEF CInv, Counting
        <3> QED BY <3>1, <3>2
    <2> QED BY <1>0, <1>2, <2>1 DEF DestroyCount, Goto, TypeOK, idVars, findVars, scanVars
<1> QED BY <1>1, <1>2

LEMMA PurgeTypes ==
    ASSUME CInv, RescanBegin \/ RescanDrop \/ RescanCount \/ RescanPurged
    PROVE  TypeOK'
<1>0. /\ TypeOK /\ Main \in Threads
      /\ \A i, j \in DOMAIN entries : entries[i] = entries[j] => i = j
    BY CollectionAssumption DEF CInv, Apart
<1>1. CASE RescanBegin
    <2>1. tmp' \in [Threads -> Cells \cup {None}]
        BY <1>0, <1>1, ListFacts DEF RescanBegin, TypeOK
    <2> QED BY <1>0, <1>1, <2>1 DEF RescanBegin, Goto, TypeOK, idVars, scanVars
<1>2. ASSUME pc[Main] = "purge", tmp[Main] # None
      PROVE  \E k \in DOMAIN entries :
                entries[k] = tmp[Main] /\ After(tmp[Main]) \in Cells \cup {None}
    <2>1. tmp[Main] = At(size + 1)
        BY <1>2 DEF CInv, Counting
    <2>2. size + 1 \in DOMAIN entries /\ entries[size + 1] = tmp[Main]
        BY <1>2, <2>1 DEF At
    <2>3. After(tmp[Main]) \in Cells \cup {None}
        BY <1>0, <2>2, AfterFacts, ListFacts
    <2> QED BY <2>2, <2>3
<1>3. CASE RescanDrop
    <2>1. PICK k \in DOMAIN entries :
              entries[k] = tmp[Main] /\ After(tmp[Main]) \in Cells \cup {None}
        BY <1>2, <1>3 DEF RescanDrop
    <2>2. entries' \in Seq(Cells)
        BY <1>0, <1>3, <2>1, UnlinkEffect DEF RescanDrop
    <2>3. /\ tmp' = [tmp EXCEPT ![Main] = After(tmp[Main])]
          /\ calm' = [t \in Threads |-> FALSE]
          /\ UNCHANGED <<win32, disk, dirs, dirsOwner, entriesOwner, name, dir, id, size, idVars,
                         pc, ent, reg, pat, num, from, res, hope, scanVars, fresh, calls>>
        BY <1>3 DEF RescanDrop
    <2> QED BY <1>0, <2>1, <2>2, <2>3 DEF TypeOK, idVars, scanVars
<1>4. CASE RescanCount
    <2>1. After(tmp[Main]) \in Cells \cup {None}
        BY <1>2, <1>4 DEF RescanCount
    <2> QED BY <1>0, <1>4, <2>1 DEF RescanCount, TypeOK, idVars, scanVars
<1>5. CASE RescanPurged
    BY <1>0, <1>5 DEF RescanPurged, Goto, TypeOK, idVars, findVars, scanVars
<1> QED BY <1>1, <1>3, <1>4, <1>5

LEMMA ScanTypes ==
    ASSUME CInv, RescanCall \/ RescanLock \/ Scan \/ (\E n \in Names : ScanFile(n)) \/ ScanDone
                     \/ RescanUnlock
    PROVE  TypeOK'
<1>0. TypeOK /\ Main \in Threads /\ (InDir => scanDirs # <<>>)
    BY CollectionAssumption DEF CInv, Inside
<1>2. CASE RescanCall
    <2>1. calls' \in Nat /\ pc' = [pc EXCEPT ![Main] = "rescan"]
        BY <1>0, <1>2, CallTypes DEF RescanCall
    <2> QED BY <1>0, <1>2, <2>1 DEF RescanCall, TypeOK, entryVars, idVars, findVars, scanVars
<1>4. CASE RescanLock
    BY <1>0, <1>4 DEF RescanLock, Goto, TypeOK, entryVars, idVars, findVars
<1>5. CASE Scan
    <2>1. Head(scanDirs) \in Dirs
        BY <1>0, <1>5 DEF Scan, TypeOK
    <2>2. scanFiles' \in SUBSET Names
        BY <1>0, <1>5, <2>1 DEF Scan, Taken, TypeOK
    <2> QED BY <1>0, <1>5, <2>2 DEF Scan, Goto, TypeOK, entryVars, idVars, findVars
<1>6. ASSUME NEW n \in Names, ScanFile(n)
      PROVE  TypeOK'
    <2>1. Head(scanDirs) \in Dirs
        BY <1>0, <1>6 DEF ScanFile, InDir, TypeOK
    <2>2. NewEntry(Main, n, Head(scanDirs))
        BY <1>6 DEF ScanFile
    <2>3. \E c \in Cells :
              /\ ent' = [ent EXCEPT ![Main] = c]
              /\ name' = [name EXCEPT ![c] = n]
              /\ dir' = [dir EXCEPT ![c] = Head(scanDirs)]
              /\ id' = [id EXCEPT ![c] = 0]
        BY <1>0, <2>1, <2>2, NewEntryFacts
    <2> QED BY <1>0, <1>6, <2>1, <2>3 DEF ScanFile, Goto, TypeOK, idVars, findVars
<1>7. CASE ScanDone
    <2>1. Tail(scanDirs) \in Seq(Dirs)
        BY <1>0, <1>7 DEF ScanDone, InDir, TypeOK
    <2> QED BY <1>0, <1>7, <2>1 DEF ScanDone, Goto, TypeOK, entryVars, idVars, findVars
<1>8. CASE RescanUnlock
    BY <1>0, <1>8 DEF RescanUnlock, Goto, TypeOK, entryVars, idVars, findVars, scanVars
<1> QED BY <1>2, <1>4, <1>5, <1>6, <1>7, <1>8

LEMMA DirTypes ==
    ASSUME CInv,
           \/ \E d \in Dirs : AddDir(d) \/ RemoveDir(d)
           \/ \E d \in Dirs, files \in SUBSET Names : FilesChange(d, files)
           \/ UNCHANGED vars
    PROVE  TypeOK'
<1>0. TypeOK /\ Main \in Threads
    BY CollectionAssumption DEF CInv
<1>9. ASSUME NEW d \in Dirs, AddDir(d) \/ RemoveDir(d)
      PROVE  TypeOK'
    <2>1. calls' \in Nat /\ pc' = [pc EXCEPT ![Main] = "idle"]
        BY <1>0, <1>9, CallTypes DEF AddDir, RemoveDir
    <2>2. dirs' \in Seq(Dirs)
        <3>1. CASE AddDir(d)
            BY <1>0, <3>1, ConcatProperties DEF AddDir, TypeOK
        <3>2. CASE RemoveDir(d)
            BY <1>0, <3>2, FilterFacts DEF RemoveDir, TypeOK
        <3> QED BY <1>9, <3>1, <3>2
    <2>3. /\ fresh' = FALSE
          /\ UNCHANGED <<win32, disk, dirsOwner, entryVars, idVars, ent, reg, findVars, calm,
                         scanVars>>
        BY <1>9 DEF AddDir, RemoveDir
    <2> QED BY <1>0, <2>1, <2>2, <2>3 DEF TypeOK, entryVars, idVars, findVars, scanVars
<1>10. ASSUME NEW d \in Dirs, NEW files \in SUBSET Names, FilesChange(d, files)
       PROVE  TypeOK'
    BY <1>0, <1>10 DEF FilesChange, TypeOK, entryVars, idVars, findVars, scanVars
<1>11. CASE UNCHANGED vars
    BY <1>0, <1>11 DEF vars, TypeOK, entryVars, idVars, findVars, scanVars
<1> QED BY <1>9, <1>10, <1>11

LEMMA TypesKept ==
    ASSUME CInv, [Next]_vars
    PROVE  TypeOK'
BY AddTypes, FindTypes, RemoveTypes, PurgeTypes, ScanTypes, DirTypes DEF Next, Rescan

----------------------------------------------------------------------------
(* Who has which entry *)

Searching == {"idle", "findLock", "walk", "found"}
Resting == Searching \cup {"destroyed"}

\* A step of Find leaves the collection alone.
LEMMA FindEffect ==
    ASSUME TypeOK, NEW t \in Threads, Find(t)
    PROVE  /\ UNCHANGED <<win32, disk, dirs, entryVars, idVars, ent, reg, scanVars, fresh>>
           /\ pc[t] \in Searching
           /\ \/ \E l \in Searching : pc' = [pc EXCEPT ![t] = l]
              \/ pc' = [u \in Threads |-> "dead"]
<1>1. ASSUME NEW p, NEW k, NEW f, FindCall(t, p, k, f)
      PROVE  /\ UNCHANGED <<win32, disk, dirs, entryVars, idVars, ent, reg, scanVars, fresh>>
             /\ pc[t] \in Searching
             /\ \E l \in Searching : pc' = [pc EXCEPT ![t] = l]
    BY <1>1 DEF FindCall, Call, Goto, Searching
<1>2. ASSUME FindLock(t) \/ WalkEnd(t) \/ FindReturn(t)
      PROVE  /\ UNCHANGED <<win32, disk, dirs, entryVars, idVars, ent, reg, scanVars, fresh>>
             /\ pc[t] \in Searching
             /\ \E l \in Searching : pc' = [pc EXCEPT ![t] = l]
    BY <1>2 DEF FindLock, WalkEnd, FindReturn, Goto, Searching
<1>3. CASE Walk(t)
    <2>1. pc' = pc \/ pc' = [pc EXCEPT ![t] = "found"]
        BY <1>3 DEF Walk, Goto
    <2>2. pc[t] = "walk" /\ pc = [pc EXCEPT ![t] = "walk"]
        BY <1>3 DEF Walk, TypeOK
    <2>3. UNCHANGED <<win32, disk, dirs, entryVars, idVars, ent, reg, scanVars, fresh>>
        BY <1>3 DEF Walk
    <2> QED BY <2>1, <2>2, <2>3 DEF Searching
<1>4. CASE WalkCrash(t)
    BY <1>4 DEF WalkCrash, Searching
<1> QED BY <1>1, <1>2, <1>3, <1>4 DEF Find

\* It leaves the walks of other threads alone as well.
LEMMA FindOthers ==
    ASSUME TypeOK, NEW t \in Threads, Find(t), NEW u \in Threads \ {t}
    PROVE  tmp'[u] = tmp[u]
<1>1. tmp \in [Threads -> Cells \cup {None}]
    BY DEF TypeOK
<1>2. ASSUME NEW p, NEW k, NEW f, FindCall(t, p, k, f) PROVE tmp' = tmp
    BY <1>2 DEF FindCall
<1>3. ASSUME FindLock(t) \/ FindReturn(t) PROVE tmp'[u] = tmp[u]
    BY <1>1, <1>3 DEF FindLock, FindReturn
<1>4. ASSUME Walk(t) PROVE tmp'[u] = tmp[u]
    <2>1. tmp' = tmp \/ tmp' = [tmp EXCEPT ![t] = After(tmp[t])]
        BY <1>4 DEF Walk
    <2> QED BY <1>1, <2>1
<1>5. ASSUME WalkEnd(t) \/ WalkCrash(t) PROVE tmp' = tmp
    BY <1>5 DEF WalkEnd, WalkCrash, findVars
<1> QED BY <1>2, <1>3, <1>4, <1>5 DEF Find

\* A step of Main on directories leaves the entries alone.
DirStep ==
    \/ RescanCall \/ RescanLock \/ Scan \/ ScanDone \/ RescanUnlock
    \/ \E d \in Dirs : AddDir(d) \/ RemoveDir(d)
    \/ \E d \in Dirs, files \in SUBSET Names : FilesChange(d, files)
    \/ UNCHANGED vars

LEMMA DirEffect ==
    ASSUME TypeOK, DirStep
    PROVE  /\ UNCHANGED <<entryVars, idVars, ent, reg, findVars, calm>>
           /\ \/ pc' = pc
              \/ /\ pc[Main] \in Rescanning \cup {"idle"}
                 /\ \E l \in Rescanning \cup {"idle"} : pc' = [pc EXCEPT ![Main] = l]
<1>1. CASE RescanCall \/ \E d \in Dirs : AddDir(d) \/ RemoveDir(d)
    BY <1>1 DEF RescanCall, AddDir, RemoveDir, Call, Goto, Rescanning
<1>2. CASE RescanLock \/ Scan \/ ScanDone \/ RescanUnlock
    BY <1>2 DEF RescanLock, Scan, ScanDone, RescanUnlock, Goto, Rescanning
<1>3. CASE (\E d \in Dirs, files \in SUBSET Names : FilesChange(d, files)) \/ UNCHANGED vars
    BY <1>3 DEF FilesChange, vars
<1> QED BY <1>1, <1>2, <1>3 DEF DirStep

\* A step of Main that removes entries, or counts them.
PurgeStep ==
    \/ (\E c \in Cells : Destroy(c)) \/ DestroyCount
    \/ RescanBegin \/ RescanDrop \/ RescanCount \/ RescanPurged

\* What the steps are.
LEMMA StepKinds ==
    ASSUME [Next]_vars
    PROVE  \/ \E t \in Threads : Find(t)
           \/ DirStep
           \/ \E t \in Threads, n \in Names : AddCall(t, n)
           \/ \E n \in Names : ScanFile(n)
           \/ \E t \in Threads : AddRead(t)
           \/ \E t \in Threads : AddId(t)
           \/ \E t \in Threads : AddInsert(t)
           \/ \E t \in Threads : AddCount(t)
           \/ PurgeStep
BY DEF Next, Add, Rescan, DirStep, PurgeStep

\* A new entry, for AddCall and ScanFile.
LEMMA NewEffect ==
    ASSUME CInv, NEW t \in Threads, NEW n \in Names,
           AddCall(t, n) \/ (t = Main /\ ScanFile(n))
    PROVE  \E c \in Cells, d \in Dirs \cup {None} :
              /\ c \notin InList
              /\ \A u \in Threads : ent[u] # c
              /\ ent' = [ent EXCEPT ![t] = c]
              /\ name' = [name EXCEPT ![c] = n]
              /\ dir' = [dir EXCEPT ![c] = d]
              /\ id' = [id EXCEPT ![c] = 0]
              /\ pc' = [pc EXCEPT ![t] = "add"]
              /\ pc[t] \in {"idle", "scanFile"}
              /\ AddCall(t, n) => d = None
              /\ ~AddCall(t, n) => d = Head(scanDirs) /\ d \in Dirs
              /\ UNCHANGED <<dirs, entries, entriesOwner, size, nextId, raced, reg, findVars, calm, scanDirs,
                             win32, disk, fresh>>
<1>0. TypeOK /\ Main \in Threads
    BY CollectionAssumption DEF CInv
<1>1. CASE AddCall(t, n)
    <2>1. NewEntry(t, n, None)
        BY <1>1 DEF AddCall
    <2>2. PICK c \in Cells :
              /\ c \notin InList
              /\ \A u \in Threads : ent[u] # c
              /\ ent' = [ent EXCEPT ![t] = c]
              /\ name' = [name EXCEPT ![c] = n]
              /\ dir' = [dir EXCEPT ![c] = None]
              /\ id' = [id EXCEPT ![c] = 0]
        BY <1>0, <2>1, NewEntryFacts
    <2>3. /\ pc' = [pc EXCEPT ![t] = "add"]
          /\ pc[t] = "idle"
          /\ UNCHANGED <<dirs, entries, entriesOwner, size, nextId, raced, reg, findVars, calm, scanDirs,
                         win32, disk, fresh>>
        BY <1>1 DEF AddCall, Call, Goto, idVars, scanVars
    <2> QED BY <1>1, <2>2, <2>3
<1>2. CASE t = Main /\ ScanFile(n) /\ ~AddCall(t, n)
    <2>1. Head(scanDirs) \in Dirs
        BY <1>0, <1>2 DEF ScanFile, CInv, Inside, InDir, TypeOK
    <2>2. NewEntry(t, n, Head(scanDirs))
        BY <1>2 DEF ScanFile
    <2>3. PICK c \in Cells :
              /\ c \notin InList
              /\ \A u \in Threads : ent[u] # c
              /\ ent' = [ent EXCEPT ![t] = c]
              /\ name' = [name EXCEPT ![c] = n]
              /\ dir' = [dir EXCEPT ![c] = Head(scanDirs)]
              /\ id' = [id EXCEPT ![c] = 0]
        BY <1>0, <2>1, <2>2, NewEntryFacts
    <2>4. /\ pc' = [pc EXCEPT ![t] = "add"]
          /\ pc[t] = "scanFile"
          /\ UNCHANGED <<dirs, entries, entriesOwner, size, nextId, raced, reg, findVars, calm, scanDirs,
                         win32, disk, fresh>>
        BY <1>2 DEF ScanFile, Goto, idVars
    <2> QED BY <1>2, <2>1, <2>3, <2>4
<1> QED BY <1>1, <1>2

\* An entry enters the list: what the list is afterwards.
LEMMA InsertEffect ==
    ASSUME CInv, NEW t \in Threads, AddInsert(t)
    PROVE  /\ ent[t] \in Cells /\ ent[t] \notin InList /\ pc[t] = "addInsert"
           /\ entries' \in Seq(Cells)
           /\ Len(entries') = Len(entries) + 1
           /\ entries'[1] = ent[t]
           /\ \A i \in 1..Len(entries) : entries'[i + 1] = entries[i]
           /\ InList' = InList \cup {ent[t]}
           /\ entriesOwner = None /\ entriesOwner' = t
           /\ pc' = [pc EXCEPT ![t] = "addCount"]
           /\ UNCHANGED <<win32, disk, dirs, name, dir, id, size, idVars, ent, reg, findVars, calm,
                          scanVars, fresh>>
<1>1. ent[t] \in Cells /\ ent[t] \notin InList /\ pc[t] = "addInsert" /\ entries \in Seq(Cells)
    BY DEF AddInsert, CInv, Apart, Adding, TypeOK
<1>2. /\ entries' = <<ent[t]>> \o entries
      /\ entriesOwner = None /\ entriesOwner' = t
      /\ pc' = [pc EXCEPT ![t] = "addCount"]
      /\ UNCHANGED <<win32, disk, dirs, name, dir, id, size, idVars, ent, reg, findVars, calm,
                     scanVars, fresh>>
    BY DEF AddInsert, Goto
<1> DEFINE new == <<ent[t]>> \o entries
<1>3. /\ new \in Seq(Cells)
      /\ Len(new) = 1 + Len(entries)
      /\ \A i \in 1..(1 + Len(entries)) : new[i] = IF i <= 1 THEN <<ent[t]>>[i] ELSE entries[i - 1]
    BY <1>1, ConcatProperties
<1> HIDE DEF new
<1>4. new[1] = ent[t] /\ Len(entries) \in Nat
    BY <1>1, <1>3
<1>5. \A i \in 1..Len(entries) : new[i + 1] = entries[i]
    <2> TAKE i \in 1..Len(entries)
    <2>1. i + 1 \in 1..(1 + Len(entries)) /\ ~(i + 1 <= 1) /\ (i + 1) - 1 = i
        BY <1>4
    <2> QED BY <1>3, <2>1
<1>6. SX!ToSet(new) = InList \cup {ent[t]}
    <2>1. \A i \in DOMAIN new : i = 1 \/ \E j \in 1..Len(entries) : i = j + 1
        <3> TAKE i \in DOMAIN new
        <3>1. i = 1 \/ (i - 1 \in 1..Len(entries) /\ i = (i - 1) + 1)
            BY <1>3, <1>4
        <3> QED BY <3>1
    <2>2. \A j \in 1..Len(entries) : j + 1 \in DOMAIN new /\ j \in DOMAIN entries
        BY <1>1, <1>3, <1>4
    <2>3. 1 \in DOMAIN new /\ \A j \in DOMAIN entries : j \in 1..Len(entries)
        BY <1>1, <1>3, <1>4
    <2>4. ASSUME NEW c \in SX!ToSet(new) PROVE c \in InList \cup {ent[t]}
        <3>1. PICK i \in DOMAIN new : new[i] = c
            BY DEF SX!ToSet
        <3> QED BY <1>4, <1>5, <2>1, <2>2, <3>1 DEF SX!ToSet, InList
    <2>5. ASSUME NEW c \in InList PROVE c \in SX!ToSet(new)
        <3>1. PICK j \in DOMAIN entries : entries[j] = c
            BY DEF SX!ToSet, InList
        <3>2. new[j + 1] = c /\ j + 1 \in DOMAIN new
            BY <1>5, <2>2, <2>3, <3>1
        <3> QED BY <3>2 DEF SX!ToSet
    <2>6. ent[t] \in SX!ToSet(new)
        BY <1>4, <2>3 DEF SX!ToSet
    <2> QED BY <2>4, <2>5, <2>6
<1>7. InList' = InList \cup {ent[t]}
    BY <1>2, <1>6 DEF InList, new
<1> QED BY <1>1, <1>2, <1>3, <1>4, <1>5, <1>7 DEF new

\* An entry leaves the list, for Destroy and the first half of Rescan, or is counted.
LEMMA PurgeEffect ==
    ASSUME CInv, PurgeStep
    PROVE  /\ InList' \subseteq InList
           /\ \A i, j \in DOMAIN entries' : entries'[i] = entries'[j] => i = j
           /\ entries' = entries \/ \A t \in Threads : pc[t] # "addCount" /\ ~calm'[t]
           /\ \A t \in Threads : calm'[t] => calm[t]
           /\ \A t \in Threads \ {Main} : pc'[t] = pc[t] /\ ent'[t] = ent[t] /\ tmp'[t] = tmp[t]
           /\ pc[Main] \in {"idle", "destroyed", "rescan", "purge"}
           /\ pc'[Main] \in {"idle", "destroyed", "purge", "scanLock"}
           /\ fresh' => fresh
           /\ pc'[Main] \in {"idle", "destroyed"} =>
                 /\ pc[Main] \in {"idle", "destroyed"}
                 /\ \A c \in InList : dir[c] = None \/ c \in InList' \/ ~fresh'
           /\ pc'[Main] = "scanLock" => \A c \in InList' : dir[c] = None
           /\ UNCHANGED <<win32, disk, dirs, name, dir, id, nextId, raced, reg, pat, num, from,
                          res, hope, scanVars>>
<1>0. /\ TypeOK /\ Main \in Threads
      /\ \A i, j \in DOMAIN entries : entries[i] = entries[j] => i = j
      /\ pc \in [Threads -> Labels] /\ ent \in [Threads -> Cells \cup {None}]
      /\ tmp \in [Threads -> Cells \cup {None}]
    BY CollectionAssumption DEF CInv, Apart, TypeOK, Labels
<1>1. ASSUME NEW c \in InList, Unlink(c)
      PROVE  /\ InList' = InList \ {c}
             /\ \A i, j \in DOMAIN entries' : entries'[i] = entries'[j] => i = j
    <2>1. PICK k \in DOMAIN entries : entries[k] = c
        BY <1>0, ListFacts
    <2> QED BY <1>0, <1>1, <2>1, UnlinkEffect
<1>2. ASSUME NEW c \in Cells, Destroy(c)
      PROVE  /\ InList' = InList \ {c}
             /\ \A i, j \in DOMAIN entries' : entries'[i] = entries'[j] => i = j
             /\ \A t \in Threads : pc[t] # "addCount" /\ ~calm'[t]
             /\ \A t \in Threads \ {Main} : pc'[t] = pc[t] /\ ent'[t] = ent[t] /\ tmp'[t] = tmp[t]
             /\ pc[Main] = "idle" /\ pc'[Main] = "destroyed"
             /\ fresh' => fresh /\ dir[c] = None
             /\ UNCHANGED <<win32, disk, dirs, name, dir, id, nextId, raced, reg, pat, num, from,
                            res, hope, scanVars>>
    <2>1. /\ c \in InList /\ Unlink(c) /\ entriesOwner = None
          /\ pc[Main] = "idle" /\ pc' = [pc EXCEPT ![Main] = "destroyed"]
          /\ ent' = [ent EXCEPT ![Main] = c]
          /\ calm' = [t \in Threads |-> FALSE]
          /\ fresh' = (fresh /\ dir[c] = None)
          /\ UNCHANGED <<win32, disk, dirs, name, dir, id, nextId, raced, reg, tmp, pat, num, from,
                         res, hope, scanVars>>
        BY <1>2 DEF Destroy, Call, Goto, idVars, findVars
    <2>2. \A t \in Threads : pc[t] # "addCount"
        <3>1. None \notin Threads
            BY CollectionAssumption
        <3> QED BY <2>1, <3>1 DEF CInv, Counting
    <2>3. /\ InList' = InList \ {c}
          /\ \A i, j \in DOMAIN entries' : entries'[i] = entries'[j] => i = j
        BY <1>1, <2>1
    <2>4. /\ \A t \in Threads \ {Main} : pc'[t] = pc[t] /\ ent'[t] = ent[t]
          /\ pc'[Main] = "destroyed" /\ \A t \in Threads : ~calm'[t]
        BY <1>0, <2>1
    <2> QED BY <2>1, <2>2, <2>3, <2>4
<1>3. CASE \E c \in Cells : Destroy(c)
    BY <1>2, <1>3
<1>4. CASE DestroyCount
    <2>1. /\ pc[Main] = "destroyed" /\ pc' = [pc EXCEPT ![Main] = "idle"]
          /\ ent' = [ent EXCEPT ![Main] = None]
          /\ UNCHANGED <<win32, disk, dirs, entries, name, dir, id, nextId, raced, reg, tmp, pat,
                         num, from, res, hope, calm, scanVars, fresh>>
        BY <1>4 DEF DestroyCount, Goto, idVars, findVars
    <2>2. InList' = InList
        BY <2>1 DEF InList
    <2> QED BY <1>0, <2>1, <2>2
<1>5. CASE RescanBegin
    <2>1. /\ pc[Main] = "rescan" /\ pc' = [pc EXCEPT ![Main] = "purge"]
          /\ tmp' = [tmp EXCEPT ![Main] = At(1)]
          /\ UNCHANGED <<win32, disk, dirs, entries, name, dir, id, nextId, raced, reg, ent, pat,
                         num, from, res, hope, calm, scanVars, fresh>>
        BY <1>5 DEF RescanBegin, Goto, idVars
    <2>2. InList' = InList
        BY <2>1 DEF InList
    <2> QED BY <1>0, <2>1, <2>2
<1>6. CASE RescanCount
    <2>1. /\ pc[Main] = "purge" /\ pc' = pc
          /\ tmp' = [tmp EXCEPT ![Main] = After(tmp[Main])]
          /\ UNCHANGED <<win32, disk, dirs, entries, name, dir, id, nextId, raced, reg, ent, pat,
                         num, from, res, hope, calm, scanVars, fresh>>
        BY <1>6 DEF RescanCount, idVars
    <2>2. InList' = InList
        BY <2>1 DEF InList
    <2> QED BY <1>0, <2>1, <2>2
<1>7. CASE RescanDrop
    <2>1. /\ pc[Main] = "purge" /\ pc' = pc /\ Unlink(tmp[Main]) /\ tmp[Main] # None
          /\ tmp' = [tmp EXCEPT ![Main] = After(tmp[Main])]
          /\ calm' = [t \in Threads |-> FALSE]
          /\ UNCHANGED <<win32, disk, dirs, name, dir, id, nextId, raced, reg, ent, pat,
                         num, from, res, hope, scanVars, fresh>>
        BY <1>7 DEF RescanDrop, idVars
    <2>2. tmp[Main] \in InList
        <3>1. tmp[Main] = At(size + 1)
            BY <2>1 DEF CInv, Counting
        <3> QED BY <1>0, <2>1, <3>1, ListFacts DEF At
    <2>3. /\ InList' = InList \ {tmp[Main]}
          /\ \A i, j \in DOMAIN entries' : entries'[i] = entries'[j] => i = j
        BY <1>1, <2>1, <2>2
    <2>4. \A t \in Threads : pc[t] # "addCount"
        <3> SUFFICES ASSUME NEW t \in Threads, pc[t] = "addCount" PROVE FALSE
            OBVIOUS
        <3>1. entriesOwner = t /\ entriesOwner = Main
            BY <1>0, <2>1 DEF CInv, Counting
        <3> QED BY <2>1, <3>1
    <2>5. /\ \A t \in Threads \ {Main} : tmp'[t] = tmp[t]
          /\ \A t \in Threads : ~calm'[t]
        BY <1>0, <2>1
    <2> QED BY <2>1, <2>3, <2>4, <2>5
<1>8. CASE RescanPurged
    <2>1. /\ pc[Main] = "purge" /\ pc' = [pc EXCEPT ![Main] = "scanLock"] /\ tmp[Main] = None
          /\ UNCHANGED <<win32, disk, dirs, entries, name, dir, id, nextId, raced, reg, ent, tmp,
                         pat, num, from, res, hope, calm, scanVars, fresh>>
        BY <1>8 DEF RescanPurged, Goto, idVars, findVars
    <2>2. InList' = InList
        BY <2>1 DEF InList
    <2>3. \A c \in InList : dir[c] = None
        <3> SUFFICES ASSUME NEW c \in InList PROVE dir[c] = None
            OBVIOUS
        <3>1. PICK k \in DOMAIN entries : entries[k] = c
            BY <1>0, ListFacts
        <3>2. /\ size <= Len(entries) /\ tmp[Main] = At(size + 1)
              /\ \A i \in 1..size : dir[entries[i]] = None
            BY <2>1 DEF CInv, Counting
        <3>3. size + 1 \notin DOMAIN entries
            BY <1>0, <2>1, <3>2, ListFacts DEF At
        <3>4. k \in 1..size
            BY <1>0, <3>2, <3>3, ListFacts DEF TypeOK
        <3> QED BY <3>1, <3>2, <3>4
    <2> QED BY <1>0, <2>1, <2>2, <2>3
<1> QED BY <1>3, <1>4, <1>5, <1>6, <1>7, <1>8 DEF PurgeStep

\* The steps of Add after the entry is inserted.
LEMMA CountEffect ==
    ASSUME CInv, NEW t \in Threads, AddCount(t)
    PROVE  /\ pc[t] = "addCount" /\ ent[t] \in InList
           /\ entriesOwner = t /\ entriesOwner' = None
           /\ size' = size + 1 /\ size + 1 = Len(entries)
           /\ \A u \in Threads : ent'[u] = IF u = t THEN None ELSE ent[u]
           /\ \A u \in Threads \ {t} : pc'[u] = pc[u]
           /\ pc'[t] = IF dir[ent[t]] = None THEN "idle" ELSE "scanFile"
           /\ \A u \in Threads \ {t} : reg'[u] = reg[u]
           /\ UNCHANGED <<win32, disk, dirs, entries, name, dir, id, idVars, findVars, calm,
                          scanVars, fresh>>
<1>1. pc[t] = "addCount"
    BY DEF AddCount
<1>2. ent[t] \in InList /\ entriesOwner = t /\ size + 1 = Len(entries)
    BY <1>1 DEF CInv, Counting, Apart
<1>3. /\ entriesOwner' = None
      /\ size' = size + 1
      /\ ent' = [ent EXCEPT ![t] = None]
      /\ reg' = [reg EXCEPT ![t] = 0]
      /\ pc' = [pc EXCEPT ![t] = IF dir[ent[t]] = None THEN "idle" ELSE "scanFile"]
      /\ UNCHANGED <<win32, disk, dirs, entries, name, dir, id, idVars, findVars, calm,
                     scanVars, fresh>>
    BY DEF AddCount, Goto
<1>4. pc \in [Threads -> Labels] /\ ent \in [Threads -> Cells \cup {None}] /\ reg \in [Threads -> Nat]
    BY DEF CInv, TypeOK, Labels
<1> QED BY <1>1, <1>2, <1>3, <1>4

\* Apart and Inside hold on while the list and the entries being added stay.
LEMMA ApartStays ==
    ASSUME Apart, UNCHANGED <<entries, ent, dir>>,
           \A t \in Threads : pc'[t] \in Adding => pc[t] \in Adding,
           \A t \in Threads : pc'[t] = "addCount" => pc[t] = "addCount",
           \A t \in Threads \ {Main} : pc'[t] \in MainOnly => pc[t] \in MainOnly
    PROVE  Apart'
<1>1. InList' = InList
    BY DEF InList
<1> QED BY <1>1 DEF Apart

LEMMA ApartKept ==
    ASSUME CInv, [Next]_vars
    PROVE  Apart'
<1>0. /\ TypeOK /\ Apart /\ Main \in Threads /\ None \notin Cells
      /\ pc \in [Threads -> Labels]
      /\ ent \in [Threads -> Cells \cup {None}]
      /\ dir \in [Cells -> Dirs \cup {None}]
    BY CollectionAssumption DEF CInv, TypeOK, Labels
<1>1. ASSUME NEW t \in Threads, Find(t) PROVE Apart'
    <2>1. /\ UNCHANGED <<entries, ent, dir>>
          /\ \/ \E l \in Searching : pc' = [pc EXCEPT ![t] = l]
             \/ pc' = [u \in Threads |-> "dead"]
        BY <1>0, <1>1, FindEffect DEF entryVars
    <2>2. \A u \in Threads : pc'[u] \in Adding => pc[u] \in Adding
        BY <1>0, <2>1 DEF Searching, Adding
    <2>3. \A u \in Threads \ {Main} : pc'[u] \in MainOnly => pc[u] \in MainOnly
        BY <1>0, <2>1 DEF Searching, MainOnly, Rescanning
    <2>4. \A u \in Threads : pc'[u] = "addCount" => pc[u] = "addCount"
        BY <1>0, <2>1 DEF Searching
    <2> QED BY <1>0, <2>1, <2>2, <2>3, <2>4, ApartStays
<1>2. CASE DirStep
    <2>1. /\ UNCHANGED <<entries, ent, dir>>
          /\ \/ pc' = pc
             \/ \E l \in Rescanning \cup {"idle"} : pc' = [pc EXCEPT ![Main] = l]
        BY <1>0, <1>2, DirEffect DEF entryVars
    <2>2. \A u \in Threads : pc'[u] \in Adding => pc[u] \in Adding
        BY <1>0, <2>1 DEF Rescanning, Adding
    <2>3. \A u \in Threads \ {Main} : pc'[u] \in MainOnly => pc[u] \in MainOnly
        BY <1>0, <2>1
    <2>4. \A u \in Threads : pc'[u] = "addCount" => pc[u] = "addCount"
        BY <1>0, <2>1 DEF Rescanning
    <2> QED BY <1>0, <2>1, <2>2, <2>3, <2>4, ApartStays
<1>3. ASSUME NEW t \in Threads, NEW n \in Names, AddCall(t, n) \/ (t = Main /\ ScanFile(n))
      PROVE  Apart'
    <2>1. PICK c \in Cells, d \in Dirs \cup {None} :
              /\ c \notin InList
              /\ \A u \in Threads : ent[u] # c
              /\ ent' = [ent EXCEPT ![t] = c]
              /\ dir' = [dir EXCEPT ![c] = d]
              /\ pc' = [pc EXCEPT ![t] = "add"]
              /\ entries' = entries
              /\ AddCall(t, n) => d = None
        BY <1>3, NewEffect
    <2>2. \A u \in Threads : ent'[u] = IF u = t THEN c ELSE ent[u]
        BY <1>0, <2>1
    <2>3. \A u \in Threads : pc'[u] = IF u = t THEN "add" ELSE pc[u]
        BY <1>0, <2>1
    <2>4. \A k \in Cells : dir'[k] = IF k = c THEN d ELSE dir[k]
        BY <1>0, <2>1
    <2>5. InList' = InList
        BY <2>1 DEF InList
    <2>6. t # Main => d = None
        BY <1>3, <2>1
    <2>7. \A u \in Threads \ {Main} :
              /\ pc'[u] \notin MainOnly
              /\ pc'[u] \in Adding \cup {"addCount"} => dir'[ent'[u]] = None
        <3> TAKE u \in Threads \ {Main}
        <3>1. CASE u = t
            BY <2>2, <2>3, <2>4, <2>6, <3>1 DEF MainOnly, Rescanning
        <3>2. CASE u # t
            <4>1. pc'[u] = pc[u] /\ ent'[u] = ent[u] /\ ent[u] # c /\ pc[u] \notin MainOnly
                BY <1>0, <2>1, <2>2, <2>3, <3>2 DEF Apart
            <4>2. pc[u] \in Adding \cup {"addCount"} => ent[u] \in Cells /\ dir[ent[u]] = None
                <5>1. pc[u] = "addCount" => ent[u] \in InList
                    BY <1>0 DEF Apart
                <5>2. pc[u] \in Adding => ent[u] # None
                    BY <1>0 DEF Apart
                <5>3. InList \subseteq Cells
                    BY <1>0, ListFacts
                <5> QED BY <1>0, <5>1, <5>2, <5>3 DEF Apart
            <4> QED BY <2>4, <4>1, <4>2
        <3> QED BY <3>1, <3>2
    <2>8. \A u \in Threads : pc'[u] \in Adding => ent'[u] # None /\ ent'[u] \notin InList'
        BY <1>0, <2>1, <2>2, <2>3, <2>5 DEF Apart
    <2>9. \A u, v \in Threads : pc'[u] \in Adding /\ pc'[v] \in Adding /\ ent'[u] = ent'[v] => u = v
        BY <1>0, <2>1, <2>2, <2>3 DEF Apart
    <2>10. \A u \in Threads : pc'[u] = "addCount" => ent'[u] \in InList'
        BY <1>0, <2>2, <2>3, <2>5 DEF Apart
    <2> QED BY <1>0, <2>1, <2>7, <2>8, <2>9, <2>10 DEF Apart
<1>4. ASSUME NEW t \in Threads, AddRead(t) \/ AddId(t)
      PROVE  Apart'
    <2>1. /\ UNCHANGED <<entries, ent, dir>>
          /\ pc[t] \in Adding
          /\ \E l \in Adding : pc' = [pc EXCEPT ![t] = l]
        BY <1>4 DEF AddRead, AddId, Goto, Adding, entryVars
    <2>2. \A u \in Threads : pc'[u] \in Adding => pc[u] \in Adding
        BY <1>0, <2>1
    <2>3. \A u \in Threads \ {Main} : pc'[u] \in MainOnly => pc[u] \in MainOnly
        BY <1>0, <2>1 DEF MainOnly, Rescanning, Adding
    <2>4. \A u \in Threads : pc'[u] = "addCount" => pc[u] = "addCount"
        BY <1>0, <2>1 DEF Adding
    <2> QED BY <1>0, <2>1, <2>2, <2>3, <2>4, ApartStays
<1>5. ASSUME NEW t \in Threads, AddInsert(t)
      PROVE  Apart'
    <2>1. /\ ent[t] \in Cells /\ ent[t] \notin InList /\ pc[t] = "addInsert"
          /\ entries' \in Seq(Cells)
          /\ Len(entries') = Len(entries) + 1
          /\ entries'[1] = ent[t]
          /\ \A i \in 1..Len(entries) : entries'[i + 1] = entries[i]
          /\ InList' = InList \cup {ent[t]}
          /\ pc' = [pc EXCEPT ![t] = "addCount"]
          /\ dir' = dir /\ ent' = ent
        BY <1>5, InsertEffect
    <2>3. (\A u \in Threads : u # t => pc'[u] = pc[u]) /\ pc'[t] = "addCount"
        BY <1>0, <2>1
    <2>4. \A i, j \in DOMAIN entries' : entries'[i] = entries'[j] => i = j
        <3>1. \A i \in DOMAIN entries' : i = 1 \/ (i - 1 \in DOMAIN entries /\ entries'[i] = entries[i - 1])
            <4> TAKE i \in DOMAIN entries'
            <4>1. Len(entries) \in Nat /\ DOMAIN entries = 1..Len(entries)
                BY <1>0, ListFacts
            <4>2. i = 1 \/ (i - 1 \in 1..Len(entries) /\ (i - 1) + 1 = i)
                BY <2>1, <4>1
            <4> QED BY <2>1, <4>1, <4>2
        <3>2. \A i \in DOMAIN entries' : i # 1 => entries'[i] # ent[t]
            BY <1>0, <2>1, <3>1, ListFacts
        <3>3. \A i \in DOMAIN entries' : i \in Int
            BY <2>1
        <3>4. ASSUME NEW i \in DOMAIN entries', NEW j \in DOMAIN entries', entries'[i] = entries'[j]
              PROVE  i = j
            <4>1. CASE i = 1 \/ j = 1
                BY <2>1, <3>2, <3>4, <4>1
            <4>2. CASE i # 1 /\ j # 1
                <5>1. i - 1 = j - 1
                    BY <1>0, <3>1, <3>4, <4>2 DEF Apart
                <5> QED BY <3>3, <5>1
            <4> QED BY <4>1, <4>2
        <3> QED BY <3>4
    <2>5. \A u \in Threads : pc'[u] \in Adding => ent'[u] # None /\ ent'[u] \notin InList'
        <3> SUFFICES ASSUME NEW u \in Threads, pc'[u] \in Adding
                     PROVE  ent[u] # None /\ ent[u] \notin InList'
            BY <2>1
        <3>1. u # t /\ pc[u] \in Adding /\ pc[t] \in Adding
            BY <2>1, <2>3 DEF Adding
        <3> QED BY <1>0, <2>1, <3>1 DEF Apart
    <2>6. \A u, v \in Threads : pc'[u] \in Adding /\ pc'[v] \in Adding /\ ent'[u] = ent'[v] => u = v
        <3>1. \A u \in Threads : pc'[u] \in Adding => pc[u] \in Adding
            BY <2>3 DEF Adding
        <3> QED BY <1>0, <2>1, <3>1 DEF Apart
    <2>7. \A u \in Threads : pc'[u] = "addCount" => ent'[u] \in InList'
        BY <1>0, <2>1, <2>3 DEF Apart
    <2>8. \A u \in Threads \ {Main} :
              /\ pc'[u] \notin MainOnly
              /\ pc'[u] \in Adding \cup {"addCount"} => dir'[ent'[u]] = None
        <3> TAKE u \in Threads \ {Main}
        <3>1. CASE u = t
            <4>1. dir[ent[t]] = None
                BY <1>0, <2>1, <3>1 DEF Apart, Adding
            <4> QED BY <2>1, <2>3, <3>1, <4>1 DEF MainOnly, Rescanning
        <3>2. CASE u # t
            BY <1>0, <2>1, <2>3, <3>2 DEF Apart
        <3> QED BY <3>1, <3>2
    <2> QED BY <2>4, <2>5, <2>6, <2>7, <2>8 DEF Apart
<1>6. CASE PurgeStep
    <2>1. /\ InList' \subseteq InList
          /\ \A i, j \in DOMAIN entries' : entries'[i] = entries'[j] => i = j
          /\ entries' = entries \/ \A t \in Threads : pc[t] # "addCount"
          /\ \A t \in Threads \ {Main} : pc'[t] = pc[t] /\ ent'[t] = ent[t]
          /\ pc'[Main] \in {"idle", "destroyed", "purge", "scanLock"}
          /\ dir' = dir
        BY <1>6, PurgeEffect
    <2>2. \A u \in Threads : pc'[u] \in Adding \cup {"addCount"} => u \in Threads \ {Main}
        BY <1>0, <2>1 DEF Adding
    <2>3. \A u \in Threads : pc'[u] \in Adding => ent'[u] # None /\ ent'[u] \notin InList'
        BY <1>0, <2>1, <2>2 DEF Apart
    <2>4. \A u, v \in Threads : pc'[u] \in Adding /\ pc'[v] \in Adding /\ ent'[u] = ent'[v] => u = v
        BY <1>0, <2>1, <2>2 DEF Apart
    <2>5. \A u \in Threads : pc'[u] = "addCount" => ent'[u] \in InList'
        <3> SUFFICES ASSUME NEW u \in Threads, pc'[u] = "addCount" PROVE ent'[u] \in InList'
            OBVIOUS
        <3>1. u \in Threads \ {Main} /\ pc[u] = "addCount" /\ ent'[u] = ent[u]
            BY <2>1, <2>2
        <3>2. InList' = InList
            BY <2>1, <3>1 DEF InList
        <3> QED BY <1>0, <3>1, <3>2 DEF Apart
    <2>6. \A u \in Threads \ {Main} :
              /\ pc'[u] \notin MainOnly
              /\ pc'[u] \in Adding \cup {"addCount"} => dir'[ent'[u]] = None
        BY <1>0, <2>1 DEF Apart
    <2> QED BY <2>1, <2>3, <2>4, <2>5, <2>6 DEF Apart
<1>7. ASSUME NEW t \in Threads, AddCount(t)
      PROVE  Apart'
    <2>1. /\ pc[t] = "addCount"
          /\ \A u \in Threads : ent'[u] = IF u = t THEN None ELSE ent[u]
          /\ \A u \in Threads \ {t} : pc'[u] = pc[u]
          /\ pc'[t] = IF dir[ent[t]] = None THEN "idle" ELSE "scanFile"
          /\ UNCHANGED <<entries, dir>>
        BY <1>7, CountEffect
    <2>2. InList' = InList
        BY <2>1 DEF InList
    <2>3. \A u \in Threads : /\ pc'[u] \in Adding => u # t /\ pc[u] \in Adding
                             /\ pc'[u] = "addCount" => u # t /\ pc[u] = "addCount"
        BY <2>1 DEF Adding
    <2>4. \A u \in Threads \ {Main} : pc'[u] \notin MainOnly
        <3>1. t # Main => dir[ent[t]] = None
            BY <1>0, <2>1 DEF Apart
        <3> QED BY <1>0, <2>1, <3>1 DEF Apart, MainOnly, Rescanning
    <2>5. /\ \A u \in Threads : pc'[u] \in Adding => ent'[u] # None /\ ent'[u] \notin InList'
          /\ \A u \in Threads : pc'[u] = "addCount" => ent'[u] \in InList'
          /\ \A u \in Threads \ {Main} :
                pc'[u] \in Adding \cup {"addCount"} => dir'[ent'[u]] = None
        BY <1>0, <2>1, <2>2, <2>3 DEF Apart
    <2>6. \A u, v \in Threads : pc'[u] \in Adding /\ pc'[v] \in Adding /\ ent'[u] = ent'[v] => u = v
        BY <1>0, <2>1, <2>3 DEF Apart
    <2>7. \A i, j \in DOMAIN entries' : entries'[i] = entries'[j] => i = j
        BY <1>0, <2>1 DEF Apart
    <2> QED BY <2>4, <2>5, <2>6, <2>7 DEF Apart
<1>8. ASSUME NEW n \in Names, ScanFile(n) PROVE Apart'
    BY <1>3, <1>8, CollectionAssumption
<1>9. ASSUME NEW t \in Threads, NEW n \in Names, AddCall(t, n) PROVE Apart'
    BY <1>3, <1>9
<1> QED BY <1>1, <1>2, <1>4, <1>5, <1>6, <1>7, <1>8, <1>9, StepKinds

\* Main stays in the directory whose files it adds.
LEMMA InsideKept ==
    ASSUME CInv, [Next]_vars
    PROVE  Inside'
<1>0. /\ TypeOK /\ Apart /\ Inside /\ Main \in Threads /\ None \notin Cells /\ None \notin Dirs
      /\ pc \in [Threads -> Labels]
      /\ ent \in [Threads -> Cells \cup {None}]
      /\ dir \in [Cells -> Dirs \cup {None}]
      /\ pc[Main] \in Adding \cup {"addCount"} => ent[Main] \in Cells
    <2>1. pc[Main] = "addCount" => ent[Main] \in InList
        BY CollectionAssumption DEF CInv, Apart
    <2>2. TypeOK /\ Apart /\ InList \subseteq Cells /\ None \notin Cells
        BY ListFacts DEF CInv
    <2>3. pc[Main] \in Adding => ent[Main] \in Cells
        BY <2>2, CollectionAssumption DEF Apart, TypeOK
    <2> QED BY <2>1, <2>2, <2>3, CollectionAssumption DEF CInv, TypeOK, Labels
\* Where Main, its entry and the directories stay, so does Inside.
<1>s. ASSUME pc'[Main] = pc[Main] \/ pc'[Main] \notin Adding \cup {"addCount", "scanFile"},
             pc'[Main] = pc[Main] => /\ ent'[Main] = ent[Main]
                                     /\ ent[Main] # None => dir'[ent[Main]] = dir[ent[Main]],
             scanDirs' = scanDirs
      PROVE  Inside'
    <2>1. CASE pc'[Main] = pc[Main]
        BY <1>0, <1>s, <2>1 DEF Inside, InDir
    <2>2. CASE pc'[Main] \notin Adding \cup {"addCount", "scanFile"}
        BY <2>2 DEF Inside, InDir
    <2> QED BY <1>s, <2>1, <2>2
<1>1. ASSUME NEW t \in Threads, Find(t) PROVE Inside'
    <2>1. /\ UNCHANGED <<ent, dir, scanDirs>>
          /\ \/ \E l \in Searching : pc' = [pc EXCEPT ![t] = l]
             \/ pc' = [u \in Threads |-> "dead"]
        BY <1>0, <1>1, FindEffect DEF entryVars, scanVars
    <2>2. pc'[Main] = pc[Main] \/ pc'[Main] \notin Adding \cup {"addCount", "scanFile"}
        BY <1>0, <2>1 DEF Searching, Adding
    <2> QED BY <1>s, <2>1, <2>2
<1>2. CASE DirStep
    <2>1. UNCHANGED <<ent, dir>>
        BY <1>0, <1>2, DirEffect DEF entryVars
    <2>2. CASE Scan
        BY <1>0, <2>2 DEF Scan, Goto, Inside, InDir, Adding
    <2>3. CASE RescanLock \/ ScanDone
        BY <1>0, <2>3 DEF RescanLock, ScanDone, Goto, Inside, InDir, Adding
    <2>4. CASE RescanCall \/ RescanUnlock \/ \E d \in Dirs : AddDir(d) \/ RemoveDir(d)
        <3>1. pc'[Main] \in {"rescan", "idle"} /\ scanDirs' = scanDirs
            BY <1>0, <2>4 DEF RescanCall, RescanUnlock, AddDir, RemoveDir, Call, Goto, scanVars
        <3> QED BY <1>s, <2>1, <3>1 DEF Adding
    <2>5. CASE (\E d \in Dirs, files \in SUBSET Names : FilesChange(d, files)) \/ UNCHANGED vars
        <3>1. pc' = pc /\ scanDirs' = scanDirs
            BY <2>5 DEF FilesChange, vars, scanVars
        <3> QED BY <1>s, <2>1, <3>1
    <2> QED BY <1>2, <2>2, <2>3, <2>4, <2>5 DEF DirStep
<1>3. ASSUME NEW t \in Threads, NEW n \in Names, AddCall(t, n) \/ (t = Main /\ ScanFile(n))
      PROVE  Inside'
    <2>1. PICK c \in Cells, d \in Dirs \cup {None} :
              /\ \A u \in Threads : ent[u] # c
              /\ ent' = [ent EXCEPT ![t] = c]
              /\ dir' = [dir EXCEPT ![c] = d]
              /\ pc' = [pc EXCEPT ![t] = "add"]
              /\ scanDirs' = scanDirs
              /\ AddCall(t, n) => d = None
              /\ ~AddCall(t, n) => d = Head(scanDirs) /\ d \in Dirs
        BY <1>3, NewEffect
    <2>2. CASE t # Main
        <3>1. pc'[Main] = pc[Main] /\ ent'[Main] = ent[Main]
            BY <1>0, <2>1, <2>2
        <3>2. ent[Main] # None => dir'[ent[Main]] = dir[ent[Main]]
            BY <1>0, <2>1
        <3> QED BY <1>s, <2>1, <3>1, <3>2
    <2>3. CASE t = Main
        <3>1. pc'[Main] = "add" /\ ent'[Main] = c /\ dir'[c] = d
            BY <1>0, <2>1, <2>3
        <3>2. CASE AddCall(t, n)
            BY <2>1, <3>1, <3>2 DEF Inside, InDir, Adding
        <3>3. CASE ~AddCall(t, n)
            <4>1. scanDirs # <<>>
                BY <1>0, <1>3, <3>3 DEF ScanFile, Inside, InDir
            <4> QED BY <2>1, <3>1, <3>3, <4>1 DEF Inside, InDir
        <3> QED BY <3>2, <3>3
    <2> QED BY <2>2, <2>3
<1>4. ASSUME NEW t \in Threads, AddRead(t) \/ AddId(t)
      PROVE  Inside'
    <2>1. /\ UNCHANGED <<ent, dir, scanDirs>>
          /\ pc[t] \in Adding
          /\ \E l \in Adding : pc' = [pc EXCEPT ![t] = l]
        BY <1>4 DEF AddRead, AddId, Goto, Adding, entryVars, scanVars
    <2>2. pc'[Main] \in Adding <=> pc[Main] \in Adding
        BY <1>0, <2>1
    <2>3. /\ pc'[Main] = "scanFile" <=> pc[Main] = "scanFile"
          /\ pc'[Main] = "addCount" <=> pc[Main] = "addCount"
        BY <1>0, <2>1 DEF Adding
    <2> QED BY <1>0, <2>1, <2>2, <2>3 DEF Inside, InDir
<1>5. ASSUME NEW t \in Threads, AddInsert(t)
      PROVE  Inside'
    <2>1. /\ ent[t] \in Cells /\ pc[t] = "addInsert"
          /\ pc' = [pc EXCEPT ![t] = "addCount"]
          /\ ent' = ent /\ dir' = dir /\ scanDirs' = scanDirs
        BY <1>5, InsertEffect DEF scanVars
    <2>2. CASE t # Main
        <3>1. pc'[Main] = pc[Main]
            BY <1>0, <2>1, <2>2
        <3> QED BY <1>s, <2>1, <3>1
    <2>3. CASE t = Main
        <3>1. pc'[Main] = "addCount" /\ pc[Main] = "addInsert"
            BY <1>0, <2>1, <2>3
        <3> QED BY <1>0, <2>1, <3>1 DEF Inside, InDir, Adding
    <2> QED BY <2>2, <2>3
<1>6. CASE PurgeStep
    <2>1. pc'[Main] \in {"idle", "destroyed", "purge", "scanLock"}
        BY <1>6, PurgeEffect
    <2> QED BY <2>1 DEF Inside, InDir, Adding
<1>7. ASSUME NEW t \in Threads, AddCount(t)
      PROVE  Inside'
    <2>1. /\ pc[t] = "addCount"
          /\ \A u \in Threads : ent'[u] = IF u = t THEN None ELSE ent[u]
          /\ \A u \in Threads \ {t} : pc'[u] = pc[u]
          /\ pc'[t] = IF dir[ent[t]] = None THEN "idle" ELSE "scanFile"
          /\ dir' = dir /\ scanDirs' = scanDirs
        BY <1>7, CountEffect DEF scanVars
    <2>2. CASE t # Main
        <3>1. pc'[Main] = pc[Main] /\ ent'[Main] = ent[Main]
            BY <1>0, <2>1, <2>2
        <3> QED BY <1>s, <2>1, <3>1
    <2>3. CASE t = Main
        <3>1. pc'[Main] = IF dir[ent[Main]] = None THEN "idle" ELSE "scanFile"
            BY <2>1, <2>3
        <3> QED BY <1>0, <2>1, <2>3, <3>1 DEF Inside, InDir, Adding
    <2> QED BY <2>2, <2>3
<1>8. ASSUME NEW n \in Names, ScanFile(n) PROVE Inside'
    BY <1>3, <1>8, CollectionAssumption
<1>9. ASSUME NEW t \in Threads, NEW n \in Names, AddCall(t, n) PROVE Inside'
    BY <1>3, <1>9
<1> QED BY <1>1, <1>2, <1>4, <1>5, <1>6, <1>7, <1>8, <1>9, StepKinds

\* size follows the list: where neither the list, its lock nor a holder moves, ...
LEMMA CountingStays ==
    ASSUME CInv, UNCHANGED <<entries, entriesOwner, size>>, tmp'[Main] = tmp[Main],
           \A c \in InList : dir'[c] = dir[c],
           \A t \in Threads : pc'[t] \in {"addCount", "destroyed", "purge"} => pc'[t] = pc[t]
    PROVE  Counting'
<1>0. TypeOK /\ Counting /\ Main \in Threads
    BY CollectionAssumption DEF CInv
<1>1. ASSUME pc'[Main] = "purge"
      PROVE  /\ size <= Len(entries)
             /\ \A i \in 1..size : dir'[entries[i]] = None
             /\ tmp[Main] = At(size + 1)
    <2>1. /\ size <= Len(entries)
          /\ \A i \in 1..size : dir[entries[i]] = None
          /\ tmp[Main] = At(size + 1)
        BY <1>0, <1>1 DEF Counting
    <2>2. \A i \in 1..size : entries[i] \in InList
        <3>1. size \in Nat /\ Len(entries) \in Nat /\ DOMAIN entries = 1..Len(entries)
            BY <1>0, ListFacts DEF TypeOK
        <3>2. \A i \in 1..size : i \in DOMAIN entries
            BY <2>1, <3>1
        <3> QED BY <1>0, <3>2, ListFacts
    <2> QED BY <2>1, <2>2
<1>2. At(size + 1)' = At(size + 1)
    BY DEF At
<1>3. SizeMatches'
    BY <1>0 DEF Counting, SizeMatches
<1>4. /\ \A t \in Threads : pc'[t] \in {"addCount", "destroyed", "purge"} => entriesOwner' = t
      /\ \A t \in Threads : pc'[t] = "addCount" => size' + 1 = Len(entries')
      /\ pc'[Main] = "destroyed" => size' = Len(entries') + 1
    BY <1>0 DEF Counting
<1> QED BY <1>1, <1>2, <1>3, <1>4 DEF Counting

\* ... and for the steps of Main that remove and count.
LEMMA CountingPurged ==
    ASSUME CInv, PurgeStep
    PROVE  Counting'
<1>0. /\ TypeOK /\ Counting /\ Main \in Threads /\ None \notin Threads /\ None \notin Cells
      /\ \A i, j \in DOMAIN entries : entries[i] = entries[j] => i = j
      /\ size \in Nat /\ Len(entries) \in Nat /\ DOMAIN entries = 1..Len(entries)
      /\ pc \in [Threads -> Labels]
      /\ tmp \in [Threads -> Cells \cup {None}]
      /\ \A t \in Threads \ {Main} : pc[t] \notin {"destroyed", "purge"}
    BY CollectionAssumption, ListFacts DEF CInv, Apart, MainOnly, TypeOK, Labels
\* Whoever is in between is Main, if it has the lock or nobody has.
<1>m. ASSUME entriesOwner \in {Main, None}
      PROVE  \A t \in Threads \ {Main} : pc[t] \notin {"addCount", "destroyed", "purge"}
    BY <1>0, <1>m DEF Counting
<1>o. \A t \in Threads \ {Main} : pc'[t] = pc[t]
    BY PurgeEffect
<1>1. ASSUME NEW c \in Cells, Destroy(c) PROVE Counting'
    <2>1. /\ c \in InList /\ Unlink(c) /\ entriesOwner = None /\ entriesOwner' = Main
          /\ pc' = [pc EXCEPT ![Main] = "destroyed"] /\ size' = size
        BY <1>1 DEF Destroy, Call, Goto
    <2>2. PICK k \in DOMAIN entries : entries[k] = c
        BY <1>0, <2>1, ListFacts
    <2>3. Len(entries') = Len(entries) - 1
        BY <1>0, <2>1, <2>2, UnlinkEffect
    <2>4. size = Len(entries)
        BY <1>0, <2>1 DEF Counting, SizeMatches
    <2>5. pc'[Main] = "destroyed"
        BY <1>0, <2>1
    <2>6. size' = Len(entries') + 1
        BY <1>0, <2>1, <2>3, <2>4
    <2>7. Main # None
        BY <1>0
    <2>8. SizeMatches'
        BY <1>0, <2>1, <2>6, <2>7 DEF SizeMatches
    <2> QED BY <1>m, <1>o, <2>1, <2>5, <2>6, <2>8 DEF Counting
<1>2. CASE DestroyCount
    <2>1. /\ pc[Main] = "destroyed" /\ size' = size - 1 /\ entriesOwner' = None
          /\ pc' = [pc EXCEPT ![Main] = "idle"] /\ entries' = entries
        BY <1>2 DEF DestroyCount, Goto
    <2>2. entriesOwner = Main /\ size = Len(entries) + 1
        BY <1>0, <2>1 DEF Counting
    <2>3. pc'[Main] = "idle" /\ size' = Len(entries')
        BY <1>0, <2>1, <2>2
    <2>4. SizeMatches'
        BY <1>0, <2>1, <2>3 DEF SizeMatches
    <2> QED BY <1>m, <1>o, <2>2, <2>3, <2>4 DEF Counting
<1>3. CASE RescanBegin
    <2>1. /\ entriesOwner = None /\ size' = 0 /\ entriesOwner' = Main
          /\ tmp' = [tmp EXCEPT ![Main] = At(1)]
          /\ pc' = [pc EXCEPT ![Main] = "purge"] /\ entries' = entries
        BY <1>3 DEF RescanBegin, Goto
    <2>2. pc'[Main] = "purge" /\ tmp'[Main] = At(1)
        BY <1>0, <2>1
    <2>3. At(size + 1)' = At(1)
        BY <2>1 DEF At
    <2>4. size' <= Len(entries') /\ 1..size' = {}
        BY <1>0, <2>1
    <2>5. SizeMatches'
        BY <1>0, <2>1 DEF SizeMatches
    <2>6. \A t \in Threads \ {Main} : pc'[t] \notin {"addCount", "destroyed", "purge"}
        BY <1>m, <1>o, <2>1
    <2> QED BY <2>1, <2>2, <2>3, <2>4, <2>5, <2>6 DEF Counting
\* The entry that the loop is at.
<1>a. ASSUME pc[Main] = "purge", tmp[Main] # None
      PROVE  /\ entriesOwner = Main
             /\ size + 1 \in DOMAIN entries /\ entries[size + 1] = tmp[Main]
             /\ After(tmp[Main]) = At(size + 2)
             /\ \A i \in 1..size : dir[entries[i]] = None
    <2>1. /\ entriesOwner = Main /\ tmp[Main] = At(size + 1)
          /\ \A i \in 1..size : dir[entries[i]] = None
        BY <1>0, <1>a DEF Counting
    <2>2. size + 1 \in DOMAIN entries /\ entries[size + 1] = tmp[Main]
        BY <1>a, <2>1 DEF At
    <2>3. After(entries[size + 1]) = At((size + 1) + 1) /\ (size + 1) + 1 = size + 2
        BY <1>0, <2>2, AfterFacts
    <2> QED BY <2>1, <2>2, <2>3
<1>4. CASE RescanDrop
    <2>1. /\ pc[Main] = "purge" /\ tmp[Main] # None /\ Unlink(tmp[Main])
          /\ tmp' = [tmp EXCEPT ![Main] = After(tmp[Main])]
          /\ UNCHANGED <<entriesOwner, size, dir, pc>>
        BY <1>4 DEF RescanDrop
    <2>2. /\ entriesOwner = Main
          /\ size + 1 \in DOMAIN entries /\ entries[size + 1] = tmp[Main]
          /\ After(tmp[Main]) = At(size + 2)
          /\ \A i \in 1..size : dir[entries[i]] = None
        BY <1>a, <2>1
    <2>3. /\ entries' \in Seq(Cells)
          /\ Len(entries') = Len(entries) - 1
          /\ \A i \in 1..((size + 1) - 1) : entries'[i] = entries[i]
          /\ \A i \in (size + 1)..(Len(entries) - 1) : entries'[i] = entries[i + 1]
        BY <1>0, <2>1, <2>2, UnlinkEffect
    <2>4. size <= Len(entries') /\ size + 1 <= Len(entries) /\ (size + 1) - 1 = size
        BY <1>0, <2>2, <2>3
    <2>5. \A i \in 1..size : dir[entries'[i]] = None
        BY <2>2, <2>3, <2>4
    <2>6. At(size + 1)' = At(size + 2)
        <3>1. DOMAIN entries' = 1..(Len(entries) - 1) /\ size' = size
            BY <2>1, <2>3
        <3>2. CASE size + 2 \in DOMAIN entries
            <4>1. size + 1 \in (size + 1)..(Len(entries) - 1) /\ (size + 1) + 1 = size + 2
                BY <1>0, <3>2
            <4>2. size + 1 \in DOMAIN entries' /\ entries'[size + 1] = entries[size + 2]
                BY <1>0, <2>3, <3>1, <4>1
            <4> QED BY <3>1, <3>2, <4>2 DEF At
        <3>3. CASE size + 2 \notin DOMAIN entries
            <4>1. size + 1 \notin DOMAIN entries'
                BY <1>0, <3>1, <3>3
            <4> QED BY <3>1, <3>3, <4>1 DEF At
        <3> QED BY <3>2, <3>3
    <2>7. tmp'[Main] = At(size + 1)'
        BY <1>0, <2>1, <2>2, <2>6
    <2>8. SizeMatches'
        <3>1. Main # None /\ entriesOwner' = Main /\ size' = size /\ Len(entries') \in Nat
            BY <1>0, <2>1, <2>2, <2>3
        <3>2. \A x, w \in Nat : x <= w => x <= w + 1
            OBVIOUS
        <3> QED BY ONLY <1>0, <2>4, <3>1, <3>2 DEF SizeMatches
    <2>9. \A t \in Threads \ {Main} : pc'[t] \notin {"addCount", "destroyed", "purge"}
        BY <1>m, <1>o, <2>2
    <2> QED BY <2>1, <2>2, <2>4, <2>5, <2>7, <2>8, <2>9 DEF Counting
<1>5. CASE RescanCount
    <2>1. /\ pc[Main] = "purge" /\ tmp[Main] # None /\ dir[tmp[Main]] = None
          /\ size' = size + 1
          /\ tmp' = [tmp EXCEPT ![Main] = After(tmp[Main])]
          /\ UNCHANGED <<entries, entriesOwner, dir, pc>>
        BY <1>5 DEF RescanCount
    <2>2. /\ entriesOwner = Main
          /\ size + 1 \in DOMAIN entries /\ entries[size + 1] = tmp[Main]
          /\ After(tmp[Main]) = At(size + 2)
          /\ \A i \in 1..size : dir[entries[i]] = None
        BY <1>a, <2>1
    <2>3. size' <= Len(entries') /\ size' + 1 = size + 2
        BY <1>0, <2>1, <2>2
    <2>4. \A i \in 1..size' : dir'[entries'[i]] = None
        <3>1. \A i \in 1..(size + 1) : i \in 1..size \/ i = size + 1
            BY <1>0
        <3> QED BY <2>1, <2>2, <3>1
    <2>5. tmp'[Main] = At(size + 1)'
        <3>1. At(size + 1)' = At(size + 2)
            BY <2>1, <2>3 DEF At
        <3> QED BY <1>0, <2>1, <2>2, <3>1
    <2>6. SizeMatches'
        <3>1. /\ Main # None /\ entriesOwner' = Main /\ size' \in Nat /\ Len(entries') \in Nat
            BY <1>0, <2>1, <2>2
        <3>2. \A x, w \in Nat : x <= w => x <= w + 1
            OBVIOUS
        <3> QED BY ONLY <2>3, <3>1, <3>2 DEF SizeMatches
    <2>7. \A t \in Threads \ {Main} : pc'[t] \notin {"addCount", "destroyed", "purge"}
        BY <1>m, <1>o, <2>2
    <2> QED BY <2>1, <2>2, <2>3, <2>4, <2>5, <2>6, <2>7 DEF Counting
<1>6. CASE RescanPurged
    <2>1. /\ pc[Main] = "purge" /\ tmp[Main] = None /\ entriesOwner' = None
          /\ pc' = [pc EXCEPT ![Main] = "scanLock"] /\ UNCHANGED <<entries, size>>
        BY <1>6 DEF RescanPurged, Goto
    <2>2. entriesOwner = Main /\ size <= Len(entries) /\ tmp[Main] = At(size + 1)
        BY <1>0, <2>1 DEF Counting
    <2>3. size + 1 \notin DOMAIN entries
        BY <1>0, <2>1, <2>2, ListFacts DEF At
    <2>4. size = Len(entries)
        <3>1. \A x, w \in Nat : x <= w /\ x + 1 \notin 1..w => x = w
            OBVIOUS
        <3> QED BY ONLY <3>1, <1>0, <2>2, <2>3
    <2>5. SizeMatches' /\ pc'[Main] = "scanLock"
        BY <1>0, <2>1, <2>4 DEF SizeMatches
    <2> QED BY <1>m, <1>o, <2>2, <2>5 DEF Counting
<1> QED BY <1>1, <1>2, <1>3, <1>4, <1>5, <1>6 DEF PurgeStep

LEMMA CountingKept ==
    ASSUME CInv, [Next]_vars
    PROVE  Counting'
<1>0. /\ TypeOK /\ Apart /\ Counting /\ Main \in Threads /\ None \notin Threads
      /\ pc \in [Threads -> Labels]
      /\ size \in Nat /\ Len(entries) \in Nat
      /\ InList \subseteq Cells
      /\ dir \in [Cells -> Dirs \cup {None}]
    BY CollectionAssumption, ListFacts DEF CInv, TypeOK, Labels
<1>1. ASSUME NEW t \in Threads, Find(t) PROVE Counting'
    <2>1. /\ UNCHANGED <<entries, entriesOwner, size, dir>>
          /\ pc[t] \in Searching
          /\ \/ \E l \in Searching : pc' = [pc EXCEPT ![t] = l]
             \/ pc' = [u \in Threads |-> "dead"]
        BY <1>0, <1>1, FindEffect DEF entryVars
    <2>2. \A u \in Threads : pc'[u] \in {"addCount", "destroyed", "purge"} => pc'[u] = pc[u]
        BY <1>0, <2>1 DEF Searching
    <2>3. CASE t # Main
        <3>1. tmp'[Main] = tmp[Main]
            BY <1>0, <1>1, <2>3, FindOthers
        <3> QED BY <2>1, <2>2, <3>1, CountingStays
    <2>4. CASE t = Main
        <3>1. pc'[Main] \notin {"addCount", "destroyed", "purge"}
            BY <1>0, <2>1, <2>4 DEF Searching
        <3>2. \A u \in Threads : pc'[u] \in {"addCount", "destroyed", "purge"} => entriesOwner = u
            BY <1>0, <2>2 DEF Counting
        <3>3. \A u \in Threads : pc'[u] = "addCount" => size + 1 = Len(entries)
            BY <1>0, <2>2 DEF Counting
        <3> QED BY <1>0, <2>1, <3>1, <3>2, <3>3 DEF Counting, SizeMatches
    <2> QED BY <2>3, <2>4
<1>2. CASE DirStep
    <2>1. /\ UNCHANGED <<entries, entriesOwner, size, dir, tmp>>
          /\ \/ pc' = pc
             \/ \E l \in Rescanning \cup {"idle"} : pc' = [pc EXCEPT ![Main] = l]
        BY <1>0, <1>2, DirEffect DEF entryVars, findVars
    <2>2. \A u \in Threads : pc'[u] \in {"addCount", "destroyed", "purge"} => pc'[u] = pc[u]
        BY <1>0, <2>1 DEF Rescanning
    <2> QED BY <2>1, <2>2, CountingStays
<1>3. ASSUME NEW t \in Threads, NEW n \in Names, AddCall(t, n) \/ (t = Main /\ ScanFile(n))
      PROVE  Counting'
    <2>1. PICK c \in Cells, d \in Dirs \cup {None} :
              /\ c \notin InList
              /\ dir' = [dir EXCEPT ![c] = d]
              /\ pc' = [pc EXCEPT ![t] = "add"]
              /\ UNCHANGED <<entries, entriesOwner, size, findVars>>
        BY <1>3, NewEffect
    <2>2. \A k \in InList : dir'[k] = dir[k]
        BY <1>0, <2>1
    <2>3. \A u \in Threads : pc'[u] \in {"addCount", "destroyed", "purge"} => pc'[u] = pc[u]
        BY <1>0, <2>1
    <2> QED BY <2>1, <2>2, <2>3, CountingStays DEF findVars
<1>4. ASSUME NEW t \in Threads, AddRead(t) \/ AddId(t)
      PROVE  Counting'
    <2>1. /\ UNCHANGED <<entries, entriesOwner, size, dir, tmp>>
          /\ \E l \in {"addId", "addInsert"} : pc' = [pc EXCEPT ![t] = l]
        BY <1>4 DEF AddRead, AddId, Goto, entryVars, findVars
    <2>2. \A u \in Threads : pc'[u] \in {"addCount", "destroyed", "purge"} => pc'[u] = pc[u]
        BY <1>0, <2>1
    <2> QED BY <2>1, <2>2, CountingStays
<1>5. ASSUME NEW t \in Threads, AddInsert(t)
      PROVE  Counting'
    <2>1. /\ Len(entries') = Len(entries) + 1
          /\ entriesOwner = None /\ entriesOwner' = t
          /\ pc' = [pc EXCEPT ![t] = "addCount"] /\ size' = size
        BY <1>5, InsertEffect
    <2>2. size = Len(entries)
        BY <1>0, <2>1 DEF Counting, SizeMatches
    <2>3. \A u \in Threads : pc[u] \notin {"addCount", "destroyed", "purge"}
        BY <1>0, <2>1 DEF Counting
    <2>4. \A u \in Threads : pc'[u] \in {"addCount", "destroyed", "purge"} => u = t /\ pc'[u] = "addCount"
        BY <1>0, <2>1, <2>3
    <2>5. SizeMatches' /\ size' + 1 = Len(entries')
        BY <1>0, <2>1, <2>2 DEF SizeMatches
    <2> QED BY <1>0, <2>1, <2>4, <2>5 DEF Counting
<1>6. CASE PurgeStep
    BY <1>6, CountingPurged
<1>7. ASSUME NEW t \in Threads, AddCount(t)
      PROVE  Counting'
    <2>1. /\ entriesOwner = t /\ entriesOwner' = None
          /\ size' = size + 1 /\ size + 1 = Len(entries)
          /\ \A u \in Threads \ {t} : pc'[u] = pc[u]
          /\ pc'[t] \in {"idle", "scanFile"}
          /\ entries' = entries
        BY <1>7, CountEffect
    <2>2. \A u \in Threads : pc'[u] \notin {"addCount", "destroyed", "purge"}
        BY <1>0, <2>1 DEF Counting
    <2>3. SizeMatches'
        BY <1>0, <2>1 DEF SizeMatches
    <2> QED BY <1>0, <2>2, <2>3 DEF Counting
<1>8. ASSUME NEW n \in Names, ScanFile(n) PROVE Counting'
    BY <1>3, <1>8, CollectionAssumption
<1>9. ASSUME NEW t \in Threads, NEW n \in Names, AddCall(t, n) PROVE Counting'
    BY <1>3, <1>9
<1> QED BY <1>1, <1>2, <1>4, <1>5, <1>6, <1>7, <1>8, <1>9, StepKinds

----------------------------------------------------------------------------
(* Numbers *)

\* Nobody gets a number: what has one keeps it, or leaves.
LEMMA NumbersStay ==
    ASSUME Numbers, UNCHANGED <<nextId, raced, reg>>, Numbered' \subseteq Numbered,
           \A c \in Numbered : id'[c] = id[c],
           \A t \in Threads : pc'[t] = "addId" => pc[t] = "addId"
    PROVE  Numbers'
BY DEF Numbers

LEMMA NumbersKept ==
    ASSUME CInv, [Next]_vars
    PROVE  Numbers'
<1>0. /\ TypeOK /\ Apart /\ Numbers /\ Main \in Threads /\ None \notin Cells
      /\ pc \in [Threads -> Labels]
      /\ ent \in [Threads -> Cells \cup {None}]
      /\ id \in [Cells -> Nat]
      /\ nextId \in Nat
      /\ reg \in [Threads -> Nat]
      /\ InList \subseteq Cells
    BY CollectionAssumption, ListFacts DEF CInv, TypeOK, Labels
<1>1. ASSUME NEW t \in Threads, Find(t) PROVE Numbers'
    <2>1. /\ UNCHANGED <<entries, id, ent, reg, nextId, raced>>
          /\ \/ \E l \in Searching : pc' = [pc EXCEPT ![t] = l]
             \/ pc' = [u \in Threads |-> "dead"]
        BY <1>0, <1>1, FindEffect DEF entryVars, idVars
    <2>2. \A u \in Threads : /\ pc'[u] = "addId" => pc[u] = "addId"
                             /\ pc'[u] = "addInsert" => pc[u] = "addInsert"
        BY <1>0, <2>1 DEF Searching
    <2>3. Numbered' \subseteq Numbered
        BY <2>1, <2>2 DEF Numbered, InList
    <2> QED BY <1>0, <2>1, <2>2, <2>3, NumbersStay
<1>2. CASE DirStep
    <2>1. /\ UNCHANGED <<entries, id, ent, reg, nextId, raced>>
          /\ \/ pc' = pc
             \/ \E l \in Rescanning \cup {"idle"} : pc' = [pc EXCEPT ![Main] = l]
        BY <1>0, <1>2, DirEffect DEF entryVars, idVars
    <2>2. \A u \in Threads : /\ pc'[u] = "addId" => pc[u] = "addId"
                             /\ pc'[u] = "addInsert" => pc[u] = "addInsert"
        BY <1>0, <2>1 DEF Rescanning
    <2>3. Numbered' \subseteq Numbered
        BY <2>1, <2>2 DEF Numbered, InList
    <2> QED BY <1>0, <2>1, <2>2, <2>3, NumbersStay
<1>3. ASSUME NEW t \in Threads, NEW n \in Names, AddCall(t, n) \/ (t = Main /\ ScanFile(n))
      PROVE  Numbers'
    <2>1. PICK c \in Cells :
              /\ c \notin InList
              /\ \A u \in Threads : ent[u] # c
              /\ ent' = [ent EXCEPT ![t] = c]
              /\ id' = [id EXCEPT ![c] = 0]
              /\ pc' = [pc EXCEPT ![t] = "add"]
              /\ pc[t] \in {"idle", "scanFile"}
              /\ UNCHANGED <<entries, nextId, raced, reg>>
        BY <1>3, NewEffect
    <2>2. \A u \in Threads : /\ pc'[u] = "addId" => pc[u] = "addId"
                             /\ pc'[u] = "addInsert" => pc[u] = "addInsert" /\ ent'[u] = ent[u]
        BY <1>0, <2>1
    <2>3. Numbered' \subseteq Numbered
        BY <2>1, <2>2 DEF Numbered, InList
    <2>4. c \notin Numbered /\ \A k \in Numbered : k # c
        BY <2>1 DEF Numbered
    <2>5. \A k \in Numbered : id'[k] = id[k]
        BY <1>0, <2>1, <2>4
    <2> QED BY <1>0, <2>1, <2>2, <2>3, <2>5, NumbersStay
<1>4. ASSUME NEW t \in Threads, AddRead(t)
      PROVE  Numbers'
    <2>1. /\ pc[t] = "add"
          /\ reg' = [reg EXCEPT ![t] = nextId]
          /\ raced' = (raced \/ \E u \in Threads : pc[u] = "addId")
          /\ pc' = [pc EXCEPT ![t] = "addId"]
          /\ UNCHANGED <<entries, id, ent, nextId>>
        BY <1>4 DEF AddRead, Goto, entryVars
    <2> SUFFICES ASSUME ~raced' PROVE Numbers'
        BY DEF Numbers
    <2>2. /\ ~raced
          /\ \A u \in Threads : pc[u] # "addId"
          /\ \A u \in Threads : pc'[u] = "addId" => u = t
          /\ reg'[t] = nextId
        BY <1>0, <2>1
    <2>3. \A u \in Threads : pc'[u] = "addInsert" => pc[u] = "addInsert"
        BY <1>0, <2>1
    <2>4. Numbered' \subseteq Numbered
        BY <2>1, <2>3 DEF Numbered, InList
    <2> QED BY <1>0, <2>1, <2>2, <2>4 DEF Numbers
<1>5. ASSUME NEW t \in Threads, AddId(t)
      PROVE  Numbers'
    <2>1. /\ pc[t] = "addId"
          /\ nextId' = reg[t] + 1
          /\ id' = [id EXCEPT ![ent[t]] = reg[t]]
          /\ pc' = [pc EXCEPT ![t] = "addInsert"]
          /\ UNCHANGED <<entries, ent, raced, reg>>
        BY <1>5 DEF AddId, Goto
    <2> SUFFICES ASSUME ~raced PROVE Numbers'
        BY <2>1 DEF Numbers
    <2>2. /\ \A c \in Numbered : id[c] < nextId
          /\ \A c, d \in Numbered : id[c] = id[d] => c = d
          /\ reg[t] = nextId
          /\ \A u \in Threads : pc[u] = "addId" => u = t
        BY <1>0, <2>1 DEF Numbers
    <2>3. ent[t] \in Cells /\ ent[t] # None /\ ent[t] \notin InList
          /\ \A u \in Threads : pc[u] = "addInsert" /\ ent[u] = ent[t] => u = t
        BY <1>0, <2>1 DEF Apart, Adding
    <2>4. \A u \in Threads : /\ pc'[u] # "addId"
                             /\ pc'[u] = "addInsert" <=> pc[u] = "addInsert" \/ u = t
        BY <1>0, <2>1, <2>2
    <2>5. ent[t] \notin Numbered
        BY <2>1, <2>3 DEF Numbered
    <2>6. Numbered' = Numbered \cup {ent[t]}
        BY <2>1, <2>4 DEF Numbered, InList
    <2>7. Numbered \subseteq Cells
        <3>1. \A u \in Threads : pc[u] = "addInsert" => ent[u] \in Cells
            BY <1>0 DEF Apart, Adding
        <3> QED BY <1>0, <3>1 DEF Numbered
    <2>8. /\ \A c \in Numbered : id'[c] = id[c] /\ id[c] \in Nat
          /\ id'[ent[t]] = nextId
          /\ nextId' = nextId + 1
        BY <1>0, <2>1, <2>2, <2>3, <2>5, <2>7
    <2>9. \A c \in Numbered' : id'[c] < nextId'
        BY <1>0, <2>2, <2>6, <2>8
    <2>10. \A c, d \in Numbered' : id'[c] = id'[d] => c = d
        BY <1>0, <2>2, <2>6, <2>8
    <2> QED BY <2>4, <2>9, <2>10 DEF Numbers
<1>6. ASSUME NEW t \in Threads, AddInsert(t)
      PROVE  Numbers'
    <2>1. /\ ent[t] \in Cells /\ pc[t] = "addInsert"
          /\ InList' = InList \cup {ent[t]}
          /\ pc' = [pc EXCEPT ![t] = "addCount"]
          /\ UNCHANGED <<id, nextId, raced, ent, reg>>
        BY <1>6, InsertEffect DEF idVars
    <2>2. \A u \in Threads : /\ pc'[u] = "addId" => pc[u] = "addId"
                             /\ pc'[u] = "addInsert" => pc[u] = "addInsert"
        BY <1>0, <2>1
    <2>3. Numbered' \subseteq Numbered
        BY <2>1, <2>2 DEF Numbered
    <2> QED BY <1>0, <2>1, <2>2, <2>3, NumbersStay
<1>7. CASE PurgeStep
    <2>1. /\ InList' \subseteq InList
          /\ \A u \in Threads \ {Main} : pc'[u] = pc[u] /\ ent'[u] = ent[u]
          /\ pc'[Main] \in {"idle", "destroyed", "purge", "scanLock"}
          /\ UNCHANGED <<id, reg, nextId, raced>>
        BY <1>7, PurgeEffect
    <2>2. \A u \in Threads : /\ pc'[u] = "addId" => pc[u] = "addId"
                             /\ pc'[u] = "addInsert" => pc[u] = "addInsert" /\ ent'[u] = ent[u]
        BY <1>0, <2>1
    <2>3. Numbered' \subseteq Numbered
        BY <2>1, <2>2 DEF Numbered
    <2> QED BY <1>0, <2>1, <2>2, <2>3, NumbersStay
<1>10. ASSUME NEW t \in Threads, AddCount(t)
       PROVE  Numbers'
    <2>1. /\ pc[t] = "addCount"
          /\ \A u \in Threads : ent'[u] = IF u = t THEN None ELSE ent[u]
          /\ \A u \in Threads \ {t} : pc'[u] = pc[u] /\ reg'[u] = reg[u]
          /\ pc'[t] \in {"idle", "scanFile"}
          /\ UNCHANGED <<entries, id, nextId, raced>>
        BY <1>10, CountEffect DEF idVars
    <2>2. \A u \in Threads : /\ pc'[u] = "addId" => pc[u] = "addId" /\ u # t
                             /\ pc'[u] = "addInsert" => pc[u] = "addInsert" /\ u # t
        BY <1>0, <2>1
    <2>3. Numbered' \subseteq Numbered
        BY <2>1, <2>2 DEF Numbered, InList
    <2> QED BY <1>0, <2>1, <2>2, <2>3 DEF Numbers
<1>8. ASSUME NEW n \in Names, ScanFile(n) PROVE Numbers'
    BY <1>3, <1>8, CollectionAssumption
<1>9. ASSUME NEW t \in Threads, NEW n \in Names, AddCall(t, n) PROVE Numbers'
    BY <1>3, <1>9
<1> QED BY <1>1, <1>2, <1>4, <1>5, <1>6, <1>7, <1>8, <1>9, <1>10, StepKinds

----------------------------------------------------------------------------
(* Rescan *)

\* How often a directory is in a list, when the head of the list goes.
LEMMA TimesFacts ==
    ASSUME NEW list \in Seq(Dirs), NEW d
    PROVE  /\ Times(list, d) \in Nat
           /\ Times(<<>>, d) = 0
           /\ list # <<>> => Times(list, d) = Times(Tail(list), d)
                                               + IF d = Head(list) THEN 1 ELSE 0
<1> DEFINE P(l) == {j \in DOMAIN l : l[j] = d}
<1>1. ASSUME NEW l \in Seq(Dirs) PROVE IsFiniteSet(P(l)) /\ Times(l, d) \in Nat
    <2>1. PICK n \in Nat : DOMAIN l = 1..n
        BY <1>1
    <2>2. IsFiniteSet(1..n) /\ P(l) \subseteq 1..n
        BY <2>1, FS_Interval
    <2>3. IsFiniteSet(P(l))
        BY <2>2, FS_Subset
    <2> QED BY <2>3, FS_CardinalityType DEF Times
<1>2. Times(<<>>, d) = 0
    <2>1. P(<<>>) = {}
        OBVIOUS
    <2> QED BY <2>1, FS_EmptySet DEF Times
<1>3. ASSUME list # <<>>
      PROVE  Times(list, d) = Times(Tail(list), d) + IF d = Head(list) THEN 1 ELSE 0
    <2> DEFINE tail == Tail(list)
               A == P(tail)
               B == {j + 1 : j \in A}
               f == [j \in A |-> j + 1]
    <2>1. /\ tail \in Seq(Dirs)
          /\ Len(tail) = Len(list) - 1
          /\ \A i \in 1..Len(tail) : tail[i] = list[i + 1]
          /\ Len(list) \in Nat /\ Len(list) >= 1
          /\ DOMAIN list = 1..Len(list)
          /\ DOMAIN tail = 1..Len(tail)
          /\ Head(list) = list[1]
        BY <1>3, HeadTailProperties
    <2> HIDE DEF tail
    <2>2. IsFiniteSet(A) /\ A \subseteq Nat
        BY <1>1, <2>1
    <2>3. IsFiniteSet(B) /\ Cardinality(B) = Cardinality(A)
        <3> HIDE DEF A
        <3>1. f \in Bijection(A, B)
            BY <2>2 DEF Bijection, Injection, Surjection, IsInjective
        <3> HIDE DEF f, B
        <3> QED BY <2>2, <3>1, FS_Bijection DEF ExistsBijection
    <2>4. \A j \in 1..Len(list) : j = 1 \/ (j - 1 \in 1..Len(tail) /\ j = (j - 1) + 1)
        BY <2>1
    <2>5. \A j \in 1..Len(tail) : j + 1 \in 1..Len(list) /\ j + 1 # 1
        BY <2>1
    <2>6. 1 \notin B
        BY <2>1, <2>5
    <2>7. P(list) = B \cup (IF d = Head(list) THEN {1} ELSE {})
        <3>1. ASSUME NEW j \in P(list) PROVE j \in B \cup (IF d = Head(list) THEN {1} ELSE {})
            <4>1. j \in 1..Len(list) /\ list[j] = d
                BY <2>1
            <4>2. CASE j = 1
                BY <2>1, <4>1, <4>2
            <4>3. CASE j # 1
                <5>1. j - 1 \in 1..Len(tail) /\ j = (j - 1) + 1
                    BY <2>4, <4>1, <4>3
                <5>2. tail[j - 1] = list[(j - 1) + 1]
                    BY <2>1, <5>1
                <5>3. j - 1 \in A
                    BY <2>1, <4>1, <5>1, <5>2
                <5> QED BY <5>1, <5>3
            <4> QED BY <4>2, <4>3
        <3>2. ASSUME NEW j \in A PROVE j + 1 \in P(list)
            BY <2>1, <2>5
        <3>3. d = Head(list) => 1 \in P(list)
            BY <2>1
        <3> QED BY <3>1, <3>2, <3>3
    <2> HIDE DEF A, B, P
    <2>8. CASE d = Head(list)
        <3>1. P(list) = B \cup {1}
            BY <2>7, <2>8
        <3>2. Cardinality(P(list)) = Cardinality(B) + 1
            BY <2>3, <2>6, <3>1, FS_AddElement
        <3> QED BY <2>3, <2>8, <3>2 DEF Times, P, A, tail
    <2>9. CASE d # Head(list)
        <3>1. P(list) = B
            BY <2>7, <2>9
        <3>2. Times(Tail(list), d) \in Nat
            BY <1>1, <2>1 DEF tail
        <3>3. Times(list, d) = Cardinality(P(list)) /\ Times(Tail(list), d) = Cardinality(A)
            BY DEF Times, P, A, tail
        <3>4. Times(list, d) = Times(Tail(list), d)
            BY <2>3, <3>1, <3>3
        <3>5. Times(Tail(list), d) = Times(Tail(list), d) + 0
            BY <3>2
        <3> QED BY <2>9, <3>4, <3>5
    <2> QED BY <2>8, <2>9
<1> QED BY <1>1, <1>2, <1>3

\* The entries of a file are finitely many.
LEMMA FoundFinite ==
    ASSUME TypeOK, Apart, NEW d, NEW n
    PROVE  IsFiniteSet(Found(d, n)) /\ Cardinality(Found(d, n)) \in Nat
<1>1. IsFiniteSet(InList)
    BY ListCount DEF TypeOK, Apart, InList
<1>2. Found(d, n) \subseteq InList
    BY DEF Found
<1> QED BY <1>1, <1>2, FS_Subset, FS_CardinalityType

\* Where Main neither goes on with its Rescan nor anything of it changes.
LEMMA ScannedStays ==
    ASSUME Scanned, pc[Main] \in Adding \cup {"addCount"} => ent[Main] # None,
           UNCHANGED <<win32, disk, dirs, scanVars>>, fresh' => fresh,
           \A d \in Dirs, n \in Names : Found(d, n)' = Found(d, n),
           \/ pc'[Main] = "dead"
           \/ pc'[Main] \in Resting /\ pc[Main] \in Resting
           \/ /\ pc'[Main] = pc[Main] \/ (pc'[Main] \in Adding /\ pc[Main] \in Adding)
              /\ ent'[Main] = ent[Main]
              /\ ent[Main] # None => /\ dir'[ent[Main]] = dir[ent[Main]]
                                     /\ name'[ent[Main]] = name[ent[Main]]
    PROVE  Scanned'
<1> SUFFICES ASSUME fresh', pc'[Main] \notin {"rescan", "purge", "dead"}, NEW d \in Dirs, NEW n \in Names
             PROVE  (Cardinality(Found(d, n)) + Owed(d, n)
                        + (IF n \in Taken(d) THEN Times(Rest, d) ELSE 0)
                     = IF n \in Taken(d) THEN Times(dirs, d) ELSE 0)'
    BY DEF Scanned
<1>1. pc[Main] \notin {"rescan", "purge", "dead"}
    BY DEF Resting, Searching, Adding
<1>t. Taken(d)' = Taken(d)
    BY DEF Taken
<1>2. Owed(d, n)' = Owed(d, n) /\ Rest' = Rest
    <2>1. CASE pc'[Main] \in Resting /\ pc[Main] \in Resting
        BY <2>1 DEF Owed, Rest, InDir, Resting, Searching, Adding
    <2>2. CASE /\ pc'[Main] = pc[Main]
               /\ ent'[Main] = ent[Main]
               /\ ent[Main] # None => /\ dir'[ent[Main]] = dir[ent[Main]]
                                      /\ name'[ent[Main]] = name[ent[Main]]
        BY <2>2 DEF Owed, Rest, InDir, scanVars
    <2>3. CASE /\ pc'[Main] \in Adding /\ pc[Main] \in Adding
               /\ ent'[Main] = ent[Main]
               /\ ent[Main] # None => /\ dir'[ent[Main]] = dir[ent[Main]]
                                      /\ name'[ent[Main]] = name[ent[Main]]
        <3>1. InDir' <=> InDir
            BY <2>3 DEF InDir, Adding
        <3>2. Rest' = Rest
            BY <2>3, <3>1 DEF Rest, Adding, scanVars
        <3>3. Owed(d, n)' = Owed(d, n)
            BY <2>3, <3>1 DEF Owed, scanVars
        <3> QED BY <3>2, <3>3
    <2> QED BY <2>1, <2>2, <2>3
<1>3. Cardinality(Found(d, n)) + Owed(d, n)
          + (IF n \in Taken(d) THEN Times(Rest, d) ELSE 0)
      = IF n \in Taken(d) THEN Times(dirs, d) ELSE 0
    BY <1>1 DEF Scanned
<1>4. Times(Rest, d)' = Times(Rest, d) /\ Times(dirs, d)' = Times(dirs, d)
    BY <1>2 DEF Times
<1> QED BY <1>2, <1>3, <1>4, <1>t

LEMMA ScannedKept ==
    ASSUME CInv, [Next]_vars
    PROVE  Scanned'
<1>0. /\ TypeOK /\ Apart /\ Inside /\ Scanned /\ Main \in Threads
      /\ None \notin Cells /\ None \notin Dirs
      /\ pc \in [Threads -> Labels]
      /\ ent \in [Threads -> Cells \cup {None}]
      /\ dir \in [Cells -> Dirs \cup {None}]
      /\ name \in [Cells -> Names \cup {None}]
      /\ pc[Main] \in Adding \cup {"addCount"} => ent[Main] # None
      /\ InList \subseteq Cells
      /\ dirs \in Seq(Dirs) /\ scanDirs \in Seq(Dirs)
    BY CollectionAssumption, ListFacts DEF CInv, TypeOK, Apart, Labels
\* What a scan takes changes with the disk only.
<1>t. ASSUME UNCHANGED <<win32, disk>>, NEW d PROVE Taken(d)' = Taken(d)
    BY <1>t DEF Taken
\* The numbers that Scanned adds up.
<1>n. ASSUME NEW d, NEW n
      PROVE  /\ Cardinality(Found(d, n)) \in Nat /\ IsFiniteSet(Found(d, n))
             /\ Times(dirs, d) \in Nat /\ Times(scanDirs, d) \in Nat
             /\ Times(<<>>, d) = 0
             /\ scanDirs # <<>> =>
                   /\ Times(Tail(scanDirs), d) \in Nat
                   /\ Times(scanDirs, d) = Times(Tail(scanDirs), d)
                                               + IF d = Head(scanDirs) THEN 1 ELSE 0
    <2>1. scanDirs # <<>> => Tail(scanDirs) \in Seq(Dirs)
        BY <1>0
    <2> QED BY <1>0, <2>1, FoundFinite, TimesFacts
<1>1. ASSUME NEW t \in Threads, Find(t) PROVE Scanned'
    <2>1. /\ UNCHANGED <<win32, disk, dirs, entries, name, dir, ent, scanVars, fresh>>
          /\ pc[t] \in Searching
          /\ \/ \E l \in Searching : pc' = [pc EXCEPT ![t] = l]
             \/ pc' = [u \in Threads |-> "dead"]
        BY <1>0, <1>1, FindEffect DEF entryVars
    <2>2. \/ pc'[Main] = "dead"
          \/ pc'[Main] \in Resting /\ pc[Main] \in Resting
          \/ pc'[Main] = pc[Main]
        BY <1>0, <2>1 DEF Resting
    <2>3. \A d \in Dirs, n \in Names : Found(d, n)' = Found(d, n)
        BY <2>1 DEF Found, InList
    <2> QED BY <1>0, <2>1, <2>2, <2>3, ScannedStays
<1>2. CASE DirStep
    <2>1. UNCHANGED <<entries, name, dir, ent>>
        BY <1>0, <1>2, DirEffect DEF entryVars
    <2>2. \A d \in Dirs, n \in Names : Found(d, n)' = Found(d, n)
        BY <2>1 DEF Found, InList
    <2>3. CASE RescanCall
        BY <1>0, <2>3 DEF RescanCall, Call, Goto, Scanned
    <2>4. CASE RescanLock
        <3> SUFFICES ASSUME fresh', NEW d \in Dirs, NEW n \in Names
                     PROVE  (Cardinality(Found(d, n)) + Owed(d, n)
                                + (IF n \in Taken(d) THEN Times(Rest, d) ELSE 0)
                             = IF n \in Taken(d) THEN Times(dirs, d) ELSE 0)'
            BY DEF Scanned
        <3>1. /\ pc[Main] = "scanLock" /\ pc'[Main] = "scanDir" /\ scanDirs' = dirs
              /\ UNCHANGED <<win32, disk, dirs, fresh>>
            BY <1>0, <2>4 DEF RescanLock, Goto
        <3>2. Owed(d, n) = 0 /\ Rest = dirs /\ Owed(d, n)' = 0 /\ Rest' = dirs
            BY <3>1 DEF Owed, Rest, InDir, Adding
        <3>3. Times(Rest, d)' = Times(dirs, d) /\ Times(dirs, d)' = Times(dirs, d)
            BY <3>1, <3>2 DEF Times
        <3> QED BY <1>0, <1>t, <2>2, <3>1, <3>2, <3>3 DEF Scanned
    <2>5. CASE Scan
        <3> SUFFICES ASSUME fresh', NEW d \in Dirs, NEW n \in Names
                     PROVE  (Cardinality(Found(d, n)) + Owed(d, n)
                                + (IF n \in Taken(d) THEN Times(Rest, d) ELSE 0)
                             = IF n \in Taken(d) THEN Times(dirs, d) ELSE 0)'
            BY DEF Scanned
        <3>1. /\ pc[Main] = "scanDir" /\ pc'[Main] = "scanFile" /\ scanDirs # <<>>
              /\ scanFiles' = Taken(Head(scanDirs))
              /\ UNCHANGED <<win32, disk, dirs, scanDirs, fresh>>
            BY <1>0, <2>5 DEF Scan, Goto
        <3>2. /\ Owed(d, n) = 0 /\ Rest = scanDirs
              /\ Rest' = Tail(scanDirs)
              /\ Owed(d, n)' = IF d = Head(scanDirs) /\ n \in Taken(d) THEN 1 ELSE 0
            BY <3>1 DEF Owed, Rest, InDir, Adding
        <3>3. Times(Rest, d)' = Times(Tail(scanDirs), d) /\ Times(dirs, d)' = Times(dirs, d)
            BY <3>1, <3>2 DEF Times
        <3>4. Cardinality(Found(d, n)) + (IF n \in Taken(d) THEN Times(scanDirs, d) ELSE 0)
              = IF n \in Taken(d) THEN Times(dirs, d) ELSE 0
            BY <1>0, <1>n, <3>1, <3>2 DEF Scanned
        <3>5. Cardinality(Found(d, n))' = Cardinality(Found(d, n))
            BY <2>2
        <3> QED BY <1>n, <1>t, <3>1, <3>2, <3>3, <3>4, <3>5
    <2>6. CASE ScanDone
        <3> SUFFICES ASSUME fresh', NEW d \in Dirs, NEW n \in Names
                     PROVE  (Cardinality(Found(d, n)) + Owed(d, n)
                                + (IF n \in Taken(d) THEN Times(Rest, d) ELSE 0)
                             = IF n \in Taken(d) THEN Times(dirs, d) ELSE 0)'
            BY DEF Scanned
        <3>1. /\ pc[Main] = "scanFile" /\ pc'[Main] = "scanDir" /\ scanFiles = {}
              /\ scanDirs' = Tail(scanDirs)
              /\ UNCHANGED <<win32, disk, dirs, fresh>>
            BY <1>0, <2>6 DEF ScanDone, Goto
        <3>2. Owed(d, n) = 0 /\ Rest = Tail(scanDirs) /\ Owed(d, n)' = 0 /\ Rest' = Tail(scanDirs)
            BY <3>1 DEF Owed, Rest, InDir, Adding
        <3>3. Times(Rest, d)' = Times(Tail(scanDirs), d) /\ Times(dirs, d)' = Times(dirs, d)
            BY <3>1, <3>2 DEF Times
        <3> QED BY <1>0, <1>t, <2>2, <3>1, <3>2, <3>3 DEF Scanned
    <2>7. CASE RescanUnlock
        <3> SUFFICES ASSUME fresh', NEW d \in Dirs, NEW n \in Names
                     PROVE  (Cardinality(Found(d, n)) + Owed(d, n)
                                + (IF n \in Taken(d) THEN Times(Rest, d) ELSE 0)
                             = IF n \in Taken(d) THEN Times(dirs, d) ELSE 0)'
            BY DEF Scanned
        <3>1. /\ pc[Main] = "scanDir" /\ pc'[Main] = "idle" /\ scanDirs = <<>>
              /\ UNCHANGED <<win32, disk, dirs, fresh>>
            BY <1>0, <2>7 DEF RescanUnlock, Goto
        <3>2. Owed(d, n) = 0 /\ Rest = <<>> /\ Owed(d, n)' = 0 /\ Rest' = <<>>
            BY <3>1 DEF Owed, Rest, InDir, Adding
        <3>3. Times(Rest, d)' = Times(<<>>, d) /\ Times(dirs, d)' = Times(dirs, d)
            BY <3>1, <3>2 DEF Times
        <3> QED BY <1>0, <1>t, <2>2, <3>1, <3>2, <3>3 DEF Scanned
    <2>8. CASE \/ \E d \in Dirs : AddDir(d) \/ RemoveDir(d)
               \/ \E d \in Dirs, files \in SUBSET Names : FilesChange(d, files)
        BY <2>8 DEF AddDir, RemoveDir, FilesChange, Scanned
    <2>9. CASE UNCHANGED vars
        BY <1>0, <2>2, <2>9, ScannedStays DEF vars, entryVars
    <2> QED BY <1>2, <2>3, <2>4, <2>5, <2>6, <2>7, <2>8, <2>9 DEF DirStep
<1>3. ASSUME NEW t \in Threads, NEW n0 \in Names, AddCall(t, n0) \/ (t = Main /\ ScanFile(n0))
      PROVE  Scanned'
    <2>1. PICK c \in Cells, d0 \in Dirs \cup {None} :
              /\ c \notin InList
              /\ \A u \in Threads : ent[u] # c
              /\ ent' = [ent EXCEPT ![t] = c]
              /\ name' = [name EXCEPT ![c] = n0]
              /\ dir' = [dir EXCEPT ![c] = d0]
              /\ pc' = [pc EXCEPT ![t] = "add"]
              /\ pc[t] \in {"idle", "scanFile"}
              /\ AddCall(t, n0) => d0 = None
              /\ ~AddCall(t, n0) => d0 = Head(scanDirs) /\ d0 \in Dirs
              /\ UNCHANGED <<dirs, entries, scanDirs, win32, disk, fresh>>
        BY <1>3, NewEffect
    <2>2. /\ ent'[t] = c /\ dir'[c] = d0 /\ name'[c] = n0 /\ pc'[t] = "add"
          /\ \A k \in Cells : k # c => dir'[k] = dir[k] /\ name'[k] = name[k]
          /\ \A u \in Threads : u # t => ent'[u] = ent[u] /\ pc'[u] = pc[u]
        BY <1>0, <2>1
    <2>3. \A d \in Dirs, n \in Names : Found(d, n)' = Found(d, n)
        <3>1. InList' = InList /\ \A k \in InList : dir'[k] = dir[k] /\ name'[k] = name[k]
            BY <1>0, <2>1, <2>2 DEF InList
        <3> QED BY <3>1 DEF Found
    <2>4. CASE t # Main
        <3>1. scanFiles' = scanFiles
            BY <1>3, <2>4 DEF AddCall, scanVars
        <3>2. /\ pc'[Main] = pc[Main] /\ ent'[Main] = ent[Main]
              /\ ent[Main] # None => /\ dir'[ent[Main]] = dir[ent[Main]]
                                     /\ name'[ent[Main]] = name[ent[Main]]
            BY <1>0, <2>1, <2>2, <2>4
        <3> QED BY <1>0, <2>1, <2>3, <3>1, <3>2, ScannedStays DEF scanVars
    <2>5. CASE t = Main /\ AddCall(t, n0)
        <3> SUFFICES ASSUME fresh', NEW d \in Dirs, NEW n \in Names
                     PROVE  (Cardinality(Found(d, n)) + Owed(d, n)
                                + (IF n \in Taken(d) THEN Times(Rest, d) ELSE 0)
                             = IF n \in Taken(d) THEN Times(dirs, d) ELSE 0)'
            BY DEF Scanned
        <3>1. pc[Main] = "idle" /\ pc'[Main] = "add" /\ dir'[ent'[Main]] = None
            BY <1>0, <2>1, <2>2, <2>5 DEF AddCall, Call
        <3>2. Owed(d, n) = 0 /\ Rest = <<>> /\ Owed(d, n)' = 0 /\ Rest' = <<>>
            BY <1>0, <3>1 DEF Owed, Rest, InDir, Adding
        <3>3. Times(Rest, d)' = Times(<<>>, d) /\ Times(dirs, d)' = Times(dirs, d)
            BY <2>1, <3>2 DEF Times
        <3> QED BY <1>0, <1>t, <2>1, <2>3, <3>1, <3>2, <3>3 DEF Scanned
    <2>6. CASE t = Main /\ ScanFile(n0) /\ ~AddCall(t, n0)
        <3> SUFFICES ASSUME fresh', NEW d \in Dirs, NEW n \in Names
                     PROVE  (Cardinality(Found(d, n)) + Owed(d, n)
                                + (IF n \in Taken(d) THEN Times(Rest, d) ELSE 0)
                             = IF n \in Taken(d) THEN Times(dirs, d) ELSE 0)'
            BY DEF Scanned
        <3>1. /\ pc[Main] = "scanFile" /\ n0 \in scanFiles /\ scanFiles' = scanFiles \ {n0}
              /\ pc'[Main] = "add" /\ ent'[Main] = c
              /\ dir'[c] = Head(scanDirs) /\ dir'[c] # None /\ name'[c] = n0
            BY <1>0, <2>1, <2>2, <2>6 DEF ScanFile
        <3>2. /\ Rest = Tail(scanDirs) /\ Rest' = Tail(scanDirs)
              /\ Owed(d, n) = IF d = Head(scanDirs) /\ n \in scanFiles THEN 1 ELSE 0
            BY <2>1, <3>1 DEF Owed, Rest, InDir, Adding
        <3>3. Owed(d, n)' = Owed(d, n)
            <4>1. InDir'
                BY <3>1 DEF InDir, Adding
            <4>2. Owed(d, n)' = (IF d = Head(scanDirs) /\ n \in scanFiles \ {n0} THEN 1 ELSE 0)
                                 + (IF Head(scanDirs) = d /\ n0 = n THEN 1 ELSE 0)
                BY <2>1, <3>1, <4>1 DEF Owed, Adding
            <4> QED BY <3>1, <3>2, <4>2
        <3>4. Times(Rest, d)' = Times(Rest, d) /\ Times(dirs, d)' = Times(dirs, d)
            BY <2>1, <3>2 DEF Times
        <3> QED BY <1>0, <1>t, <2>1, <2>3, <3>1, <3>2, <3>3, <3>4 DEF Scanned
    <2> QED BY <1>3, <2>4, <2>5, <2>6
<1>4. ASSUME NEW t \in Threads, AddRead(t) \/ AddId(t)
      PROVE  Scanned'
    <2>1. /\ UNCHANGED <<win32, disk, dirs, entries, name, ent, dir, scanVars, fresh>>
          /\ pc[t] \in Adding
          /\ \E l \in Adding : pc' = [pc EXCEPT ![t] = l]
        BY <1>4 DEF AddRead, AddId, Goto, Adding, entryVars
    <2>2. pc'[Main] = pc[Main] \/ (pc'[Main] \in Adding /\ pc[Main] \in Adding)
        BY <1>0, <2>1
    <2>3. \A d \in Dirs, n \in Names : Found(d, n)' = Found(d, n)
        BY <2>1 DEF Found, InList
    <2> QED BY <1>0, <2>1, <2>2, <2>3, ScannedStays
<1>5. ASSUME NEW t \in Threads, AddInsert(t)
      PROVE  Scanned'
    <2>1. /\ ent[t] \in Cells /\ ent[t] \notin InList /\ pc[t] = "addInsert"
          /\ InList' = InList \cup {ent[t]}
          /\ pc' = [pc EXCEPT ![t] = "addCount"]
          /\ UNCHANGED <<win32, disk, dirs, name, dir, ent, scanVars, fresh>>
        BY <1>5, InsertEffect
    <2>2. ASSUME dir[ent[t]] = None PROVE \A d \in Dirs, n \in Names : Found(d, n)' = Found(d, n)
        BY <1>0, <2>1, <2>2 DEF Found
    <2>3. CASE t # Main
        <3>1. dir[ent[t]] = None
            BY <1>0, <2>1, <2>3 DEF Apart, Adding
        <3>2. pc'[Main] = pc[Main] /\ ent'[Main] = ent[Main]
            BY <1>0, <2>1, <2>3
        <3> QED BY <1>0, <2>1, <2>2, <3>1, <3>2, ScannedStays
    <2>4. CASE t = Main
        <3> SUFFICES ASSUME fresh', NEW d \in Dirs, NEW n \in Names
                     PROVE  (Cardinality(Found(d, n)) + Owed(d, n)
                                + (IF n \in Taken(d) THEN Times(Rest, d) ELSE 0)
                             = IF n \in Taken(d) THEN Times(dirs, d) ELSE 0)'
            BY DEF Scanned
        <3> DEFINE e == ent[Main]
                   mine == IF dir[e] = d /\ name[e] = n THEN 1 ELSE 0
                   files == IF InDir /\ d = Head(scanDirs) /\ n \in scanFiles THEN 1 ELSE 0
        <3>1. /\ pc[Main] = "addInsert" /\ pc'[Main] = "addCount"
              /\ UNCHANGED <<ent, dir, scanDirs, scanFiles>>
            BY <1>0, <2>1, <2>4 DEF scanVars
        <3>2. InDir' <=> InDir
            BY <3>1 DEF InDir, Adding
        <3>3. /\ Rest' = Rest
              /\ Owed(d, n) = files + mine
              /\ Owed(d, n)' = files
            BY <3>1, <3>2 DEF Owed, Rest, Adding
        <3>4. Cardinality(Found(d, n))' = Cardinality(Found(d, n)) + mine
            <4>1. CASE dir[e] = d /\ name[e] = n
                <5>1. Found(d, n)' = Found(d, n) \cup {e} /\ e \notin Found(d, n)
                    BY <2>1, <2>4, <4>1 DEF Found
                <5>2. Cardinality(Found(d, n) \cup {e}) = Cardinality(Found(d, n)) + 1
                    BY <1>n, <5>1, FS_AddElement
                <5> QED BY <4>1, <5>1, <5>2
            <4>2. CASE ~(dir[e] = d /\ name[e] = n)
                <5>1. Found(d, n)' = Found(d, n)
                    BY <2>1, <2>4, <4>2 DEF Found
                <5> QED BY <1>n, <4>2, <5>1
            <4> QED BY <4>1, <4>2
        <3>5. Times(Rest, d)' = Times(Rest, d) /\ Times(dirs, d)' = Times(dirs, d)
            BY <2>1, <3>3 DEF Times
        <3>6. Cardinality(Found(d, n)) + (files + mine)
                  + (IF n \in Taken(d) THEN Times(Rest, d) ELSE 0)
              = IF n \in Taken(d) THEN Times(dirs, d) ELSE 0
            BY <1>0, <2>1, <3>1, <3>3 DEF Scanned
        <3>7. Times(Rest, d) \in Nat
            <4>1. Rest = IF InDir THEN Tail(scanDirs) ELSE <<>>
                BY <3>1 DEF Rest
            <4>2. InDir => scanDirs # <<>>
                BY <1>0 DEF Inside
            <4>3. 0 \in Nat
                OBVIOUS
            <4> QED BY <1>n, <4>1, <4>2, <4>3
        <3>8. files \in Nat /\ mine \in Nat
            OBVIOUS
        <3>9. Taken(d)' = Taken(d)
            BY <1>t, <2>1
        <3> HIDE DEF files, mine
        <3> QED BY <1>n, <3>3, <3>4, <3>5, <3>6, <3>7, <3>8, <3>9
    <2> QED BY <2>3, <2>4
<1>6. CASE PurgeStep
    <2>1. /\ InList' \subseteq InList
          /\ pc'[Main] \in {"idle", "destroyed", "purge", "scanLock"}
          /\ fresh' => fresh
          /\ pc'[Main] \in {"idle", "destroyed"} =>
                /\ pc[Main] \in {"idle", "destroyed"}
                /\ \A c \in InList : dir[c] = None \/ c \in InList' \/ ~fresh'
          /\ pc'[Main] = "scanLock" => \A c \in InList' : dir[c] = None
          /\ UNCHANGED <<win32, disk, dirs, name, dir, scanVars>>
        BY <1>6, PurgeEffect
    <2>2. CASE pc'[Main] = "purge"
        BY <2>2 DEF Scanned
    <2>3. CASE pc'[Main] \in {"idle", "destroyed"}
        <3> SUFFICES ASSUME fresh' PROVE Scanned'
            BY DEF Scanned
        <3>1. \A d \in Dirs, n \in Names : Found(d, n)' = Found(d, n)
            BY <1>0, <2>1, <2>3 DEF Found
        <3>2. pc'[Main] \in Resting /\ pc[Main] \in Resting
            BY <2>1, <2>3 DEF Resting, Searching
        <3> QED BY <1>0, <2>1, <3>1, <3>2, ScannedStays
    <2>4. CASE pc'[Main] = "scanLock"
        <3> SUFFICES ASSUME fresh', NEW d \in Dirs, NEW n \in Names
                     PROVE  (Cardinality(Found(d, n)) + Owed(d, n)
                                + (IF n \in Taken(d) THEN Times(Rest, d) ELSE 0)
                             = IF n \in Taken(d) THEN Times(dirs, d) ELSE 0)'
            BY DEF Scanned
        <3>1. Found(d, n)' = {} /\ Cardinality({}) = 0
            BY <1>0, <2>1, <2>4, FS_EmptySet DEF Found
        <3>2. Owed(d, n)' = 0 /\ Rest' = dirs
            BY <2>1, <2>4 DEF Owed, Rest, InDir, Adding
        <3>3. Times(Rest, d)' = Times(dirs, d) /\ Times(dirs, d)' = Times(dirs, d)
              /\ Times(dirs, d) \in Nat
            BY <1>n, <2>1, <3>2 DEF Times
        <3>4. Taken(d)' = Taken(d)
            BY <1>t, <2>1
        <3> QED BY <3>1, <3>2, <3>3, <3>4
    <2> QED BY <2>1, <2>2, <2>3, <2>4
<1>7. ASSUME NEW t \in Threads, AddCount(t)
      PROVE  Scanned'
    <2>1. /\ pc[t] = "addCount" /\ ent[t] \in InList
          /\ \A u \in Threads : ent'[u] = IF u = t THEN None ELSE ent[u]
          /\ \A u \in Threads \ {t} : pc'[u] = pc[u]
          /\ pc'[t] = IF dir[ent[t]] = None THEN "idle" ELSE "scanFile"
          /\ UNCHANGED <<win32, disk, dirs, entries, name, dir, scanVars, fresh>>
        BY <1>7, CountEffect
    <2>2. \A d \in Dirs, n \in Names : Found(d, n)' = Found(d, n)
        BY <2>1 DEF Found, InList
    <2>3. CASE t # Main
        BY <1>0, <2>1, <2>2, <2>3, ScannedStays
    <2>4. CASE t = Main
        <3> SUFFICES ASSUME fresh', NEW d \in Dirs, NEW n \in Names
                     PROVE  (Cardinality(Found(d, n)) + Owed(d, n)
                                + (IF n \in Taken(d) THEN Times(Rest, d) ELSE 0)
                             = IF n \in Taken(d) THEN Times(dirs, d) ELSE 0)'
            BY DEF Scanned
        <3>1. /\ pc[Main] = "addCount" /\ pc'[Main] \in {"idle", "scanFile"}
              /\ pc'[Main] = "scanFile" <=> dir[ent[Main]] # None
              /\ UNCHANGED <<scanDirs, scanFiles>>
            BY <2>1, <2>4 DEF scanVars
        <3>2. InDir' <=> InDir
            BY <3>1 DEF InDir, Adding
        <3>3. Rest' = Rest /\ Owed(d, n)' = Owed(d, n)
            BY <3>1, <3>2 DEF Owed, Rest, Adding
        <3>4. Times(Rest, d)' = Times(Rest, d) /\ Times(dirs, d)' = Times(dirs, d)
            BY <2>1, <3>3 DEF Times
        <3>5. Cardinality(Found(d, n)) + Owed(d, n)
                  + (IF n \in Taken(d) THEN Times(Rest, d) ELSE 0)
              = IF n \in Taken(d) THEN Times(dirs, d) ELSE 0
            BY <1>0, <2>1, <3>1 DEF Scanned
        <3>6. Taken(d)' = Taken(d) /\ Found(d, n)' = Found(d, n)
            BY <1>t, <2>1, <2>2
        <3> QED BY <3>3, <3>4, <3>5, <3>6
    <2> QED BY <2>3, <2>4
<1>8. ASSUME NEW n \in Names, ScanFile(n) PROVE Scanned'
    BY <1>3, <1>8, CollectionAssumption
<1>9. ASSUME NEW t \in Threads, NEW n \in Names, AddCall(t, n) PROVE Scanned'
    BY <1>3, <1>9
<1> QED BY <1>1, <1>2, <1>4, <1>5, <1>6, <1>7, <1>8, <1>9, StepKinds

----------------------------------------------------------------------------
(* Searches *)

\* A walk goes on as it was while the entries and what it looks for stay.
LEMMA WalkingStays ==
    ASSUME TypeOK, NEW u \in Threads, Walking(u), entries' = entries,
           \A c \in InList : name'[c] = name[c] /\ id'[c] = id[c],
           pat'[u] = pat[u], num'[u] = num[u], from'[u] = from[u], tmp'[u] = tmp[u],
           hope'[u] = hope[u]
    PROVE  Walking(u)'
<1>1. PICK p \in 1..(Len(entries) + 1) :
          /\ tmp[u] = At(p)
          /\ \/ Ahead(u, p) = {} /\ hope[u] = None
             \/ \E i \in Ahead(u, p) : hope[u] = entries[i] /\ \A j \in Ahead(u, p) : i <= j
    BY DEF Walking
<1>2. At(p)' = At(p)
    BY DEF At
<1>3. \A i \in p..Len(entries) : entries[i] \in InList
    BY ListFacts
<1>4. \A i \in p..Len(entries) : Match(u, entries[i])' <=> Match(u, entries[i])
    BY <1>3 DEF Match
<1>5. Ahead(u, p)' = Ahead(u, p)
    BY <1>4 DEF Ahead
<1> QED BY <1>1, <1>2, <1>5 DEF Walking

\* A new head is behind every walk: the place of each moves on with the rest.
LEMMA WalkingShifts ==
    ASSUME CInv, NEW t \in Threads, AddInsert(t), NEW u \in Threads, Walking(u)
    PROVE  Walking(u)'
<1>0. TypeOK /\ Len(entries) \in Nat /\ DOMAIN entries = 1..Len(entries)
    BY ListFacts DEF CInv
<1>1. /\ entries' \in Seq(Cells)
      /\ Len(entries') = Len(entries) + 1
      /\ \A i \in 1..Len(entries) : entries'[i + 1] = entries[i]
      /\ UNCHANGED <<name, id, findVars>>
    BY InsertEffect
<1>2. PICK p \in 1..(Len(entries) + 1) :
          /\ tmp[u] = At(p)
          /\ \/ Ahead(u, p) = {} /\ hope[u] = None
             \/ \E i \in Ahead(u, p) : hope[u] = entries[i] /\ \A j \in Ahead(u, p) : i <= j
    BY DEF Walking
<1>3. PICK q \in Nat : q = p + 1
    BY <1>0
<1>4. At(q)' = At(p)
    <2>1. DOMAIN entries' = 1..(Len(entries) + 1)
        BY <1>1
    <2>2. CASE p \in 1..Len(entries)
        <3>1. q \in DOMAIN entries' /\ p \in DOMAIN entries /\ entries'[q] = entries[p]
            BY <1>0, <1>1, <1>3, <2>1, <2>2
        <3> QED BY <3>1 DEF At
    <2>3. CASE p = Len(entries) + 1
        <3>1. q \notin DOMAIN entries' /\ p \notin DOMAIN entries
            BY <1>0, <1>3, <2>1, <2>3
        <3> QED BY <3>1 DEF At
    <2> QED BY <1>0, <2>2, <2>3
<1>5. \A i \in p..Len(entries) :
         /\ i \in 1..Len(entries) /\ i + 1 \in q..Len(entries')
         /\ entries'[i + 1] = entries[i]
    BY <1>0, <1>1, <1>2, <1>3
<1>6. \A i \in q..Len(entries') : i - 1 \in p..Len(entries) /\ (i - 1) + 1 = i
    BY <1>0, <1>1, <1>3
<1>7. \A c : Match(u, c)' <=> Match(u, c)
    BY <1>1 DEF Match, findVars
<1>8. \A i \in p..Len(entries) :
         (\E j \in q..((i + 1) - 1) : entries'[j] = from[u])
            <=> (\E j \in p..(i - 1) : entries[j] = from[u])
    <2> TAKE i \in p..Len(entries)
    <2>1. ASSUME NEW j \in p..(i - 1), entries[j] = from[u]
          PROVE  \E k \in q..((i + 1) - 1) : entries'[k] = from[u]
        <3>1. j + 1 \in q..((i + 1) - 1) /\ j \in p..Len(entries)
            BY <1>0, <1>3
        <3> QED BY <1>5, <2>1, <3>1
    <2>2. ASSUME NEW j \in q..((i + 1) - 1), entries'[j] = from[u]
          PROVE  \E k \in p..(i - 1) : entries[k] = from[u]
        <3>1. j - 1 \in p..(i - 1) /\ j - 1 \in p..Len(entries) /\ (j - 1) + 1 = j
            BY <1>0, <1>3
        <3> QED BY <1>5, <2>2, <3>1
    <2> QED BY <2>1, <2>2
<1>9. \A i \in p..Len(entries) : i + 1 \in Ahead(u, q)' <=> i \in Ahead(u, p)
    <2> TAKE i \in p..Len(entries)
    <2>1. i + 1 \in Ahead(u, q)' <=> /\ from[u] = None \/ \E j \in q..((i + 1) - 1) : entries'[j] = from[u]
                                     /\ Match(u, entries[i])
        BY <1>1, <1>5, <1>7 DEF Ahead, findVars
    <2>2. i \in Ahead(u, p) <=> /\ from[u] = None \/ \E j \in p..(i - 1) : entries[j] = from[u]
                                /\ Match(u, entries[i])
        BY DEF Ahead
    <2> QED BY <1>8, <2>1, <2>2
<1>10. Ahead(u, q)' \subseteq q..Len(entries') /\ Ahead(u, p) \subseteq p..Len(entries)
    BY DEF Ahead
<1>11. q \in 1..(Len(entries') + 1) /\ tmp'[u] = At(q)'
    BY <1>0, <1>1, <1>2, <1>3, <1>4 DEF findVars
<1>12. \/ Ahead(u, q)' = {} /\ hope'[u] = None
       \/ \E i \in Ahead(u, q)' : hope'[u] = entries'[i] /\ \A j \in Ahead(u, q)' : i <= j
    <2>0. hope'[u] = hope[u]
        BY <1>1 DEF findVars
    <2>1. CASE Ahead(u, p) = {} /\ hope[u] = None
        <3>1. Ahead(u, q)' = {}
            BY <1>6, <1>9, <1>10, <2>1
        <3> QED BY <2>0, <2>1, <3>1
    <2>2. ASSUME NEW i \in Ahead(u, p), hope[u] = entries[i], \A j \in Ahead(u, p) : i <= j
          PROVE  \E k \in Ahead(u, q)' : hope'[u] = entries'[k] /\ \A j \in Ahead(u, q)' : k <= j
        <3>1. i + 1 \in Ahead(u, q)' /\ entries'[i + 1] = entries[i]
            BY <1>5, <1>9, <1>10
        <3>2. ASSUME NEW j \in Ahead(u, q)' PROVE i + 1 <= j
            <4>1. j - 1 \in p..Len(entries) /\ (j - 1) + 1 = j
                BY <1>6, <1>10
            <4>2. j - 1 \in Ahead(u, p)
                BY <1>9, <4>1
            <4>3. i <= j - 1 /\ i \in Int /\ j \in Int
                BY <1>10, <2>2, <4>2
            <4> QED BY <4>3
        <3> QED BY <2>0, <2>2, <3>1, <3>2
    <2> QED BY <1>2, <2>1, <2>2
<1> QED BY <1>11, <1>12 DEF Walking

\* A walk whose entry is not the one it searches goes on to the next.
LEMMA WalkingGoesOn ==
    ASSUME CInv, NEW t \in Threads, Walking(t), tmp[t] # None,
           ~(from[t] = None /\ Match(t, tmp[t])),
           UNCHANGED <<entries, name, id, pat, num, hope>>,
           from'[t] = (IF from[t] = tmp[t] THEN None ELSE from[t]),
           tmp'[t] = After(tmp[t])
    PROVE  Walking(t)'
<1>0. /\ TypeOK /\ Len(entries) \in Nat /\ DOMAIN entries = 1..Len(entries)
      /\ \A i, j \in DOMAIN entries : entries[i] = entries[j] => i = j
    BY ListFacts DEF CInv, Apart
<1>1. PICK p \in 1..(Len(entries) + 1) :
          /\ tmp[t] = At(p)
          /\ \/ Ahead(t, p) = {} /\ hope[t] = None
             \/ \E i \in Ahead(t, p) : hope[t] = entries[i] /\ \A j \in Ahead(t, p) : i <= j
    BY DEF Walking
<1>2. p \in DOMAIN entries /\ entries[p] = tmp[t] /\ tmp[t] \in InList
    BY <1>0, <1>1, ListFacts DEF At
<1>3. PICK q \in Nat : q = p + 1
    BY <1>0
<1>4. After(tmp[t]) = At(q)
    <2>1. (CHOOSE i \in DOMAIN entries : entries[i] = tmp[t]) = p
        BY <1>0, <1>2
    <2>2. 1 + p = q
        BY <1>0, <1>3
    <2> QED BY <1>2, <2>1, <2>2 DEF After
<1>5. At(q)' = At(q)
    BY DEF At
<1>6. p \notin Ahead(t, p)
    <2>1. p..(p - 1) = {}
        BY <1>0
    <2> QED BY <1>2, <2>1 DEF Ahead
<1>7. \A i \in q..Len(entries) :
         (from'[t] = None \/ \E j \in q..(i - 1) : entries[j] = from'[t])
            <=> (from[t] = None \/ \E j \in p..(i - 1) : entries[j] = from[t])
    <2> TAKE i \in q..Len(entries)
    <2>1. p \in p..(i - 1) /\ \A j \in q..(i - 1) : j \in p..(i - 1)
        BY <1>0, <1>3
    <2>2. \A j \in p..(i - 1) : j = p \/ j \in q..(i - 1)
        BY <1>0, <1>3
    <2>3. CASE from[t] = None \/ from[t] = tmp[t]
        BY <1>2, <2>1, <2>3
    <2>4. CASE from[t] # None /\ from[t] # tmp[t]
        BY <1>2, <2>1, <2>2, <2>4
    <2> QED BY <2>3, <2>4
<1>8. \A i \in p..Len(entries) : i = p \/ i \in q..Len(entries)
    BY <1>0, <1>3
<1>9. \A i \in q..Len(entries) : i \in p..Len(entries)
    BY <1>0, <1>3
<1>10. \A c : Match(t, c)' <=> Match(t, c)
    BY DEF Match
<1>11. Ahead(t, q)' = Ahead(t, p)
    <2>1. \A i \in q..Len(entries) : i \in Ahead(t, q)' <=> i \in Ahead(t, p)
        <3> TAKE i \in q..Len(entries)
        <3>1. i \in Ahead(t, q)' <=> /\ from'[t] = None \/ \E j \in q..(i - 1) : entries[j] = from'[t]
                                     /\ Match(t, entries[i])
            BY <1>10 DEF Ahead
        <3>2. i \in Ahead(t, p) <=> /\ from[t] = None \/ \E j \in p..(i - 1) : entries[j] = from[t]
                                    /\ Match(t, entries[i])
            BY <1>9 DEF Ahead
        <3> QED BY <1>7, <3>1, <3>2
    <2>2. Ahead(t, q)' \subseteq q..Len(entries) /\ Ahead(t, p) \subseteq p..Len(entries)
        BY DEF Ahead
    <2> QED BY <1>6, <1>8, <2>1, <2>2
<1>12. q \in 1..(Len(entries') + 1) /\ tmp'[t] = At(q)'
    BY <1>0, <1>2, <1>3, <1>4, <1>5
<1> QED BY <1>1, <1>11, <1>12 DEF Walking

\* A search that is not at its end, or not disturbed, is as good as before.
LEMMA WellStays ==
    ASSUME TypeOK, NEW u \in Threads, WalksWell(u),
           res'[u] = res[u], hope'[u] = hope[u], calm'[u] => calm[u],
           Walking(u) /\ calm'[u] => Walking(u)',
           \/ pc'[u] = pc[u]
           \/ pc[u] \notin {"walk", "found", "dead"} /\ pc'[u] \notin {"walk", "found"}
    PROVE  WalksWell(u)'
BY DEF WalksWell

\* The searches of other threads, for the steps of Find.
LEMMA OthersWalk ==
    ASSUME CInv, NEW t \in Threads, Find(t), NEW u \in Threads \ {t}
    PROVE  WalksWell(u)'
<1>0. /\ TypeOK /\ WalksWell(u)
      /\ UNCHANGED <<entries, name, id>>
    BY FindEffect DEF CInv, Walks, entryVars
<1>1. CASE WalkCrash(t)
    BY <1>0, <1>1 DEF WalkCrash, WalksWell
<1>2. ASSUME ~WalkCrash(t)
      PROVE  /\ pc'[u] = pc[u] /\ calm'[u] = calm[u] /\ res'[u] = res[u] /\ hope'[u] = hope[u]
             /\ pat'[u] = pat[u] /\ num'[u] = num[u] /\ from'[u] = from[u] /\ tmp'[u] = tmp[u]
    <2>1. ASSUME NEW p, NEW k, NEW f, FindCall(t, p, k, f)
          PROVE  /\ pc'[u] = pc[u] /\ calm'[u] = calm[u] /\ res'[u] = res[u] /\ hope'[u] = hope[u]
                 /\ pat'[u] = pat[u] /\ num'[u] = num[u] /\ from'[u] = from[u] /\ tmp'[u] = tmp[u]
        BY <1>0, <2>1 DEF FindCall, Call, Goto, TypeOK
    <2>2. CASE FindLock(t)
        BY <1>0, <2>2 DEF FindLock, Goto, TypeOK
    <2>3. CASE Walk(t)
        BY <1>0, <2>3 DEF Walk, Goto, TypeOK
    <2>4. CASE WalkEnd(t)
        BY <1>0, <2>4 DEF WalkEnd, Goto, TypeOK, findVars
    <2>5. CASE FindReturn(t)
        BY <1>0, <2>5 DEF FindReturn, Goto, TypeOK
    <2> QED BY <1>2, <2>1, <2>2, <2>3, <2>4, <2>5 DEF Find
<1>3. CASE ~WalkCrash(t)
    <2>1. Walking(u) => Walking(u)'
        BY <1>0, <1>2, <1>3, WalkingStays
    <2> QED BY <1>0, <1>2, <1>3, <2>1, WellStays
<1> QED BY <1>1, <1>3

\* The search of the thread that takes the step.
LEMMA OwnWalk ==
    ASSUME CInv, NEW t \in Threads, Find(t)
    PROVE  WalksWell(t)'
<1>0. /\ TypeOK /\ WalksWell(t)
      /\ UNCHANGED <<entries, name, id>>
      /\ Len(entries) \in Nat /\ DOMAIN entries = 1..Len(entries)
      /\ None \notin Cells
    BY FindEffect, ListFacts, CollectionAssumption DEF CInv, Walks, entryVars
<1>1. ASSUME NEW p, NEW k, NEW f, FindCall(t, p, k, f)
      PROVE  WalksWell(t)'
    <2>1. pc[t] = "idle" /\ pc'[t] = "findLock" /\ res' = res
        BY <1>0, <1>1 DEF FindCall, Call, Goto, TypeOK
    <2> QED BY <1>0, <2>1 DEF WalksWell
<1>2. CASE FindLock(t)
    <2> DEFINE hits == {i \in Begin(t) : Match(t, entries[i])}
    <2>1. /\ pc[t] = "findLock" /\ pc'[t] = "walk" /\ res' = res
          /\ tmp'[t] = At(1)
          /\ hope'[t] = IF hits = {} THEN None
                        ELSE entries[CHOOSE i \in hits : \A j \in hits : i <= j]
          /\ UNCHANGED <<pat, num, from>>
        BY <1>0, <1>2 DEF FindLock, Goto, TypeOK
    <2>2. Ahead(t, 1)' = hits
        <3>1. \A c : Match(t, c)' <=> Match(t, c)
            BY <1>0, <2>1 DEF Match
        <3>2. Ahead(t, 1)' = {i \in 1..Len(entries) :
                  /\ from[t] = None \/ \E j \in 1..(i - 1) : entries[j] = from[t]
                  /\ Match(t, entries[i])}
            BY <1>0, <2>1, <3>1 DEF Ahead
        <3>3. \A i : i \in hits <=> /\ i \in 1..Len(entries)
                                    /\ from[t] = None \/ \E j \in 1..(i - 1) : entries[j] = from[t]
                                    /\ Match(t, entries[i])
            BY <1>0 DEF Begin
        <3> HIDE DEF hits
        <3> QED BY <3>2, <3>3
    <2>3. hits \in SUBSET Nat
        BY <1>0 DEF Begin
    <2>4. /\ 1 \in 1..(Len(entries') + 1)
          /\ tmp'[t] = At(1)'
        BY <1>0, <2>1 DEF At
    <2> HIDE DEF hits
    <2>5. \/ hits = {} /\ hope'[t] = None
          \/ \E i \in hits : hope'[t] = entries'[i] /\ \A j \in hits : i <= j
        <3>1. CASE hits = {}
            BY <2>1, <3>1
        <3>2. CASE hits # {}
            <4> DEFINE i == CHOOSE k \in hits : \A j \in hits : k <= j
            <4>1. \E k \in hits : \A j \in hits : k <= j
                BY <2>3, <3>2, FirstNumber
            <4>2. i \in hits /\ \A j \in hits : i <= j
                BY <4>1
            <4>3. hope'[t] = entries'[i]
                BY <1>0, <2>1, <3>2
            <4> QED BY <4>2, <4>3
        <3> QED BY <3>1, <3>2
    <2>6. Walking(t)'
        BY <2>2, <2>4, <2>5 DEF Walking
    <2> QED BY <1>0, <2>1, <2>6 DEF WalksWell
<1>3. CASE Walk(t)
    <2>1. /\ pc[t] = "walk" /\ tmp[t] # None
          /\ UNCHANGED <<pat, num, hope, calm>>
        BY <1>3 DEF Walk
    <2>2. CASE from[t] = None /\ Match(t, tmp[t])
        <3>1. res'[t] = tmp[t] /\ pc'[t] = "found"
            BY <1>0, <1>3, <2>2 DEF Walk, Goto, TypeOK
        <3>2. calm[t] => tmp[t] = hope[t]
            <4> SUFFICES ASSUME calm[t] PROVE tmp[t] = hope[t]
                OBVIOUS
            <4>1. Walking(t)
                BY <1>0, <2>1 DEF WalksWell
            <4>2. PICK p \in 1..(Len(entries) + 1) :
                      /\ tmp[t] = At(p)
                      /\ \/ Ahead(t, p) = {} /\ hope[t] = None
                         \/ \E i \in Ahead(t, p) : /\ hope[t] = entries[i]
                                                   /\ \A j \in Ahead(t, p) : i <= j
                BY <4>1 DEF Walking
            <4>3. p \in 1..Len(entries) /\ entries[p] = tmp[t]
                BY <1>0, <2>1, <4>2 DEF At
            <4>4. p \in Ahead(t, p)
                BY <1>0, <2>2, <4>3 DEF Ahead
            <4>5. PICK i \in Ahead(t, p) : hope[t] = entries[i] /\ \A j \in Ahead(t, p) : i <= j
                BY <4>2, <4>4
            <4>6. i \in p..Len(entries) /\ i <= p
                BY <4>4, <4>5 DEF Ahead
            <4>7. i = p
                BY <1>0, <4>6
            <4> QED BY <4>3, <4>5, <4>7
        <3> QED BY <2>1, <3>1, <3>2 DEF WalksWell
    <2>3. CASE ~(from[t] = None /\ Match(t, tmp[t]))
        <3>1. /\ from'[t] = (IF from[t] = tmp[t] THEN None ELSE from[t])
              /\ tmp'[t] = After(tmp[t])
              /\ pc' = pc /\ res' = res
            BY <1>0, <1>3, <2>3 DEF Walk, TypeOK
        <3>2. Walking(t) => Walking(t)'
            BY <1>0, <2>1, <2>3, <3>1, WalkingGoesOn
        <3> QED BY <1>0, <2>1, <3>1, <3>2, WellStays
    <2> QED BY <2>2, <2>3
<1>4. CASE WalkEnd(t)
    <2>1. /\ pc[t] = "walk" /\ tmp[t] = None /\ pc'[t] = "found"
          /\ UNCHANGED <<res, hope, calm>>
        BY <1>0, <1>4 DEF WalkEnd, Goto, TypeOK, findVars
    <2>2. res[t] = None
        BY <1>0, <2>1 DEF WalksWell
    <2>3. calm[t] => hope[t] = None
        <3> SUFFICES ASSUME calm[t] PROVE hope[t] = None
            OBVIOUS
        <3>1. Walking(t)
            BY <1>0, <2>1 DEF WalksWell
        <3>2. PICK p \in 1..(Len(entries) + 1) :
                  /\ tmp[t] = At(p)
                  /\ \/ Ahead(t, p) = {} /\ hope[t] = None
                     \/ \E i \in Ahead(t, p) : /\ hope[t] = entries[i]
                                               /\ \A j \in Ahead(t, p) : i <= j
            BY <3>1 DEF Walking
        <3>3. p \notin DOMAIN entries
            BY <1>0, <2>1, <3>2, ListFacts DEF At
        <3>4. p..Len(entries) = {}
            BY <1>0, <3>3
        <3>5. Ahead(t, p) = {}
            BY <3>4 DEF Ahead
        <3> QED BY <3>2, <3>5
    <2> QED BY <2>1, <2>2, <2>3 DEF WalksWell
<1>5. CASE WalkCrash(t)
    BY <1>0, <1>5 DEF WalkCrash, WalksWell
<1>6. CASE FindReturn(t)
    <2>1. pc'[t] = "idle" /\ res'[t] = None
        BY <1>0, <1>6 DEF FindReturn, Goto, TypeOK
    <2> QED BY <2>1 DEF WalksWell
<1> QED BY <1>1, <1>2, <1>3, <1>4, <1>5, <1>6 DEF Find

LEMMA WalksKept ==
    ASSUME CInv, [Next]_vars
    PROVE  Walks'
<1>0. /\ TypeOK /\ Walks /\ Main \in Threads
      /\ pc \in [Threads -> Labels]
      /\ name \in [Cells -> Names \cup {None}]
      /\ id \in [Cells -> Nat]
    BY CollectionAssumption DEF CInv, TypeOK, Labels
<1>1. ASSUME NEW t \in Threads, Find(t) PROVE Walks'
    BY <1>1, OthersWalk, OwnWalk DEF Walks
<1>2. CASE DirStep
    <2> SUFFICES ASSUME NEW u \in Threads PROVE WalksWell(u)'
        BY DEF Walks
    <2>1. /\ UNCHANGED <<entries, name, id, pat, num, from, tmp, res, hope, calm>>
          /\ \/ pc' = pc
             \/ /\ pc[Main] \in Rescanning \cup {"idle"}
                /\ \E l \in Rescanning \cup {"idle"} : pc' = [pc EXCEPT ![Main] = l]
        BY <1>0, <1>2, DirEffect DEF entryVars, findVars
    <2>2. \/ pc'[u] = pc[u]
          \/ pc[u] \notin {"walk", "found", "dead"} /\ pc'[u] \notin {"walk", "found"}
        BY <1>0, <2>1 DEF Rescanning
    <2>3. Walking(u) => Walking(u)'
        BY <1>0, <2>1, WalkingStays
    <2> QED BY <1>0, <2>1, <2>2, <2>3, WellStays DEF Walks
<1>3. ASSUME NEW t \in Threads, NEW n \in Names, AddCall(t, n) \/ (t = Main /\ ScanFile(n))
      PROVE  Walks'
    <2> SUFFICES ASSUME NEW u \in Threads PROVE WalksWell(u)'
        BY DEF Walks
    <2>1. PICK c \in Cells :
              /\ c \notin InList
              /\ name' = [name EXCEPT ![c] = n]
              /\ id' = [id EXCEPT ![c] = 0]
              /\ pc' = [pc EXCEPT ![t] = "add"]
              /\ pc[t] \in {"idle", "scanFile"}
              /\ UNCHANGED <<entries, findVars, calm>>
        BY <1>3, NewEffect
    <2>2. UNCHANGED <<entries, pat, num, from, tmp, res, hope, calm>>
        BY <2>1 DEF findVars
    <2>3. \A k \in InList : name'[k] = name[k] /\ id'[k] = id[k]
        BY <1>0, <2>1, ListFacts
    <2>4. \/ pc'[u] = pc[u]
          \/ pc[u] \notin {"walk", "found", "dead"} /\ pc'[u] \notin {"walk", "found"}
        BY <1>0, <2>1
    <2>5. Walking(u) => Walking(u)'
        BY <1>0, <2>2, <2>3, WalkingStays
    <2> QED BY <1>0, <2>2, <2>4, <2>5, WellStays DEF Walks
<1>4. ASSUME NEW t \in Threads, AddRead(t) \/ AddId(t)
      PROVE  Walks'
    <2> SUFFICES ASSUME NEW u \in Threads PROVE WalksWell(u)'
        BY DEF Walks
    <2>1. /\ UNCHANGED <<entries, name, findVars, calm>>
          /\ id' = id \/ id' = [id EXCEPT ![ent[t]] = reg[t]]
          /\ pc[t] \in {"add", "addId"}
          /\ \E l \in {"addId", "addInsert"} : pc' = [pc EXCEPT ![t] = l]
        BY <1>4 DEF AddRead, AddId, Goto, entryVars
    <2>2. UNCHANGED <<entries, name, pat, num, from, tmp, res, hope, calm>>
        BY <2>1 DEF findVars
    <2>3. \A k \in InList : id'[k] = id[k]
        <3>1. ent[t] \notin InList
            BY <2>1 DEF CInv, Apart, Adding
        <3> QED BY <1>0, <2>1, <3>1, ListFacts
    <2>4. \/ pc'[u] = pc[u]
          \/ pc[u] \notin {"walk", "found", "dead"} /\ pc'[u] \notin {"walk", "found"}
        BY <1>0, <2>1
    <2>5. Walking(u) => Walking(u)'
        BY <1>0, <2>2, <2>3, WalkingStays
    <2> QED BY <1>0, <2>2, <2>4, <2>5, WellStays DEF Walks
<1>5. ASSUME NEW t \in Threads, AddInsert(t)
      PROVE  Walks'
    <2> SUFFICES ASSUME NEW u \in Threads PROVE WalksWell(u)'
        BY DEF Walks
    <2>1. /\ pc[t] = "addInsert"
          /\ pc' = [pc EXCEPT ![t] = "addCount"]
          /\ UNCHANGED <<pat, num, from, tmp, res, hope, calm>>
        BY <1>5, InsertEffect DEF findVars
    <2>2. \/ pc'[u] = pc[u]
          \/ pc[u] \notin {"walk", "found", "dead"} /\ pc'[u] \notin {"walk", "found"}
        BY <1>0, <2>1
    <2>3. Walking(u) => Walking(u)'
        BY <1>5, WalkingShifts
    <2> QED BY <1>0, <2>1, <2>2, <2>3, WellStays DEF Walks
<1>6. CASE PurgeStep
    <2> SUFFICES ASSUME NEW u \in Threads PROVE WalksWell(u)'
        BY DEF Walks
    <2>1. /\ entries' = entries \/ ~calm'[u]
          /\ calm'[u] => calm[u]
          /\ pc[Main] \in {"idle", "destroyed", "rescan", "purge"}
          /\ pc'[Main] \in {"idle", "destroyed", "purge", "scanLock"}
          /\ u # Main => pc'[u] = pc[u] /\ tmp'[u] = tmp[u]
          /\ UNCHANGED <<name, id, pat, num, from, res, hope>>
        BY <1>6, PurgeEffect
    <2>2. CASE u = Main
        BY <1>0, <2>1, <2>2 DEF Walks, WalksWell
    <2>3. CASE u # Main
        <3>1. Walking(u) /\ calm'[u] => Walking(u)'
            BY <1>0, <2>1, <2>3, WalkingStays
        <3> QED BY <1>0, <2>1, <2>3, <3>1, WellStays DEF Walks
    <2> QED BY <2>2, <2>3
<1>9. ASSUME NEW t \in Threads, AddCount(t)
      PROVE  Walks'
    <2> SUFFICES ASSUME NEW u \in Threads PROVE WalksWell(u)'
        BY DEF Walks
    <2>1. /\ pc[t] = "addCount"
          /\ \A v \in Threads \ {t} : pc'[v] = pc[v]
          /\ pc'[t] \in {"idle", "scanFile"}
          /\ UNCHANGED <<entries, name, id, findVars, calm>>
        BY <1>9, CountEffect
    <2>2. UNCHANGED <<pat, num, from, tmp, res, hope, calm>>
        BY <2>1 DEF findVars
    <2>3. \/ pc'[u] = pc[u]
          \/ pc[u] \notin {"walk", "found", "dead"} /\ pc'[u] \notin {"walk", "found"}
        BY <2>1
    <2>4. Walking(u) => Walking(u)'
        BY <1>0, <2>1, <2>2, WalkingStays
    <2> QED BY <1>0, <2>2, <2>3, <2>4, WellStays DEF Walks
<1>7. ASSUME NEW n \in Names, ScanFile(n) PROVE Walks'
    BY <1>0, <1>3, <1>7
<1>8. ASSUME NEW t \in Threads, NEW n \in Names, AddCall(t, n) PROVE Walks'
    BY <1>3, <1>8
<1> QED BY <1>1, <1>2, <1>4, <1>5, <1>6, <1>7, <1>8, <1>9, StepKinds

----------------------------------------------------------------------------
(* The theorems *)

LEMMA CInvInit == Init => CInv
<1> SUFFICES ASSUME Init PROVE CInv
    OBVIOUS
<1>0. Main \in Threads /\ None \notin Cells /\ entries = <<>> /\ InList = {}
    BY CollectionAssumption DEF Init, InList, SX!ToSet
<1>1. TypeOK
    <2>1. <<>> \in Seq(Dirs) /\ <<>> \in Seq(Cells)
        OBVIOUS
    <2>2. /\ pc = [t \in Threads |-> "idle"]
          /\ ent = [t \in Threads |-> None]
          /\ reg = [t \in Threads |-> 0]
          /\ pat = [t \in Threads |-> {}]
          /\ num = [t \in Threads |-> None]
          /\ from = [t \in Threads |-> None]
          /\ tmp = [t \in Threads |-> None]
          /\ res = [t \in Threads |-> None]
          /\ hope = [t \in Threads |-> None]
          /\ calm = [t \in Threads |-> TRUE]
        BY DEF Init
    <2>3. /\ pc \in [Threads -> Labels]
          /\ ent \in [Threads -> Cells \cup {None}]
          /\ reg \in [Threads -> Nat]
          /\ pat \in [Threads -> SUBSET Names]
          /\ num \in [Threads -> Nat \cup {None}]
          /\ from \in [Threads -> Cells \cup {None}]
          /\ tmp \in [Threads -> Cells \cup {None}]
          /\ res \in [Threads -> Cells \cup {None}]
          /\ hope \in [Threads -> Cells \cup {None}]
          /\ calm \in [Threads -> BOOLEAN]
        BY <2>2 DEF Labels
    <2>4. /\ win32 \in BOOLEAN
          /\ disk \in [Dirs -> SUBSET Names]
          /\ entriesOwner = None
          /\ dirs = <<>> /\ entries = <<>> /\ scanDirs = <<>>
          /\ dirsOwner = None
          /\ name \in [Cells -> Names \cup {None}]
          /\ dir \in [Cells -> Dirs \cup {None}]
          /\ id \in [Cells -> Nat]
          /\ nextId = 0 /\ raced = FALSE /\ size = 0 /\ scanFiles = {} /\ fresh = FALSE
          /\ calls = 0
        BY DEF Init
    <2> QED BY <2>1, <2>3, <2>4 DEF TypeOK, Labels
<1>2. Apart /\ Inside
    BY <1>0 DEF Init, Apart, Inside, InDir, Adding, MainOnly, Rescanning
<1>3. Counting
    <2>1. size = 0 /\ Len(entries) = 0 /\ \A t \in Threads : pc[t] = "idle"
        BY <1>0 DEF Init
    <2> QED BY <1>0, <2>1 DEF Counting, SizeMatches
<1>4. Numbers
    <2>1. Numbered = {}
        BY <1>0 DEF Init, Numbered
    <2> QED BY <2>1 DEF Init, Numbers
<1>5. Scanned
    BY DEF Init, Scanned
<1>6. Walks
    BY DEF Init, Walks, WalksWell
<1> QED BY <1>1, <1>2, <1>3, <1>4, <1>5, <1>6 DEF CInv

\* PTP::Collection keeps its invariant, through every interleaving of Add, Find,
\* Destroy and Rescan by any number of threads.
THEOREM CollectionInvariant == Spec => []CInv
<1>1. CInv /\ [Next]_vars => CInv'
    BY TypesKept, ApartKept, InsideKept, CountingKept, NumbersKept, ScannedKept, WalksKept DEF CInv
<1> QED BY CInvInit, <1>1, PTL DEF Spec

\* The state of PTP::Collection has its types: m_id and m_size among others stay
\* natural numbers, though Destroy counts m_size down without looking at it.
THEOREM CollectionTypes == Spec => []TypeOK
<1>1. CInv => TypeOK
    BY DEF CInv
<1> QED BY <1>1, CollectionInvariant, PTL

\* Whenever nobody holds the lock of m_entries, m_size is the number of entries, and it
\* is never more than one above; unless two threads were in m_id++ at once, no two
\* entries have one number and none the one that comes next.
THEOREM CollectionCountsRight == Spec => []CountsRight
<1>1. CInv => CountsRight
    <2> SUFFICES ASSUME CInv PROVE CountsRight
        OBVIOUS
    <2>1. SizeMatches
        BY DEF CInv, Counting
    <2>2. ASSUME ~raced, NEW i \in DOMAIN entries, NEW j \in DOMAIN entries
          PROVE  id[entries[i]] < nextId /\ (i # j => id[entries[i]] # id[entries[j]])
        <3>1. entries[i] \in Numbered /\ entries[j] \in Numbered
            BY ListFacts DEF CInv, Numbered
        <3> QED BY <2>2, <3>1 DEF CInv, Numbers, Apart
    <2>3. NumbersUnique
        BY <2>2 DEF NumbersUnique
    <2> QED BY <2>1, <2>3 DEF CountsRight
<1> QED BY <1>1, CollectionInvariant, PTL

\* The places of a file in the list are as many as its entries.
LEMMA PlacesCount ==
    ASSUME TypeOK, Apart, NEW d, NEW n
    PROVE  Cardinality({i \in DOMAIN entries : dir[entries[i]] = d /\ name[entries[i]] = n})
               = Cardinality(Found(d, n))
<1> DEFINE P == {i \in DOMAIN entries : dir[entries[i]] = d /\ name[entries[i]] = n}
           f == [i \in P |-> entries[i]]
<1>1. P \subseteq 1..Len(entries) /\ Len(entries) \in Nat
    BY ListFacts
<1>2. IsFiniteSet(P)
    <2>1. IsFiniteSet(1..Len(entries))
        BY <1>1, FS_Interval
    <2> HIDE DEF P
    <2> QED BY <1>1, <2>1, FS_Subset
<1>3. f \in Bijection(P, Found(d, n))
    <2>1. \A i \in P : entries[i] \in Found(d, n)
        BY ListFacts DEF Found
    <2>2. \A c \in Found(d, n) : \E i \in P : entries[i] = c
        BY DEF Found, InList, SX!ToSet
    <2>3. \A i, j \in P : entries[i] = entries[j] => i = j
        BY DEF Apart
    <2> HIDE DEF P
    <2> QED BY <2>1, <2>2, <2>3 DEF Bijection, Injection, Surjection, IsInjective
<1> HIDE DEF P, f
<1>4. Cardinality(P) = Cardinality(Found(d, n))
    BY <1>2, <1>3, FS_Bijection DEF ExistsBijection
<1> QED BY <1>4 DEF P

\* After a Rescan during which nothing changed on disk each file of each shared
\* directory that the build's scan takes is in the collection once; and Find returns the first match behind
\* the previous result, whatever other threads add during its walk.
THEOREM CollectionSearchExact == Spec => []SearchExact
<1>1. CInv => SearchExact
    <2> SUFFICES ASSUME CInv PROVE SearchExact
        OBVIOUS
    <2>0. TypeOK /\ Apart
        BY DEF CInv
    <2>1. ASSUME pc[Main] = "idle", fresh, NEW d \in Dirs, NEW n \in Names
          PROVE  Cardinality({i \in DOMAIN entries : dir[entries[i]] = d /\ name[entries[i]] = n})
                     = IF n \in Taken(d) THEN Cardinality({j \in DOMAIN dirs : dirs[j] = d}) ELSE 0
        <3>1. Cardinality(Found(d, n)) + Owed(d, n)
                  + (IF n \in Taken(d) THEN Times(Rest, d) ELSE 0)
              = IF n \in Taken(d) THEN Times(dirs, d) ELSE 0
            BY <2>1 DEF CInv, Scanned
        <3>2. Owed(d, n) = 0 /\ Rest = <<>>
            BY <2>1 DEF Owed, Rest, InDir, Adding
        <3>3. Times(Rest, d) = 0
            <4>1. <<>> \in Seq(Dirs)
                OBVIOUS
            <4>2. Times(<<>>, d) = 0
                BY <4>1, TimesFacts
            <4> QED BY <3>2, <4>2
        <3>4. Cardinality(Found(d, n)) \in Nat
            BY <2>0, FoundFinite
        <3>5. Cardinality(Found(d, n)) = IF n \in Taken(d) THEN Times(dirs, d) ELSE 0
            BY <3>1, <3>2, <3>3, <3>4
        <3> QED BY <2>0, <3>5, PlacesCount DEF Times
    <2>2. RescanExact
        BY <2>1 DEF RescanExact
    <2>3. FindFirst
        BY DEF CInv, Walks, WalksWell, FindFirst
    <2> QED BY <2>2, <2>3 DEF SearchExact
<1> QED BY <1>1, CollectionInvariant, PTL

==============================================================================

--------------------------- MODULE PtpListProofs ---------------------------
(***************************************************************************)
(* Proofs about PTP::List, for any number of threads, entries and calls.   *)
(*                                                                         *)
(* LinksInverse says nothing of a list that is being changed, so it is not *)
(* inductive.  The invariant below adds who holds the lock and how often   *)
(* (LockInv), that an entry waiting to be linked is still linked to itself *)
(* (FreshInv), and, for a thread in the middle of Insert, Append or        *)
(* Remove, that the pointers are inverse once its remaining assignments    *)
(* have been made (LinkInv).                                               *)
(*                                                                         *)
(* Inverse pointers could still run in several circles.  RingInv says they *)
(* do not: m_next leads from the sentinel through the entries of the list  *)
(* and back, and an entry outside is linked to itself or in the hands of   *)
(* the one thread that is linking or unlinking it.  Its proof gives the    *)
(* refinement of ListSpec.  LoopInv relates each PTP_LIST_FOREACH to the   *)
(* ring it started in: the entries it has yet to reach are as they were.   *)
(***************************************************************************)
EXTENDS PtpList, Integers, FiniteSetTheorems, TLAPS

Mutual(f, g) == \A n \in Node : g[f[n]] = n /\ f[g[n]] = n

MidLabels ==
    {"insertPrev", "insertHead", "appendNext", "appendHead", "removeNext", "removeSelf"}

\* The calls that add an entry, until they have changed it.
FreshLabels == {"lockInsert", "insert", "lockAppend", "append"}

LinkLabels == InsertLabels \cup AppendLabels \cup {"lockInsert", "lockAppend"}

HoldsLock(t) ==
    \/ pc[t] \in InsertLabels \cup AppendLabels \cup RemoveLabels \cup LoopLabels
    \/ pc[t] = "unlock"
    \/ pc[t] = "lockRemove" /\ ret[t] # "idle"

\* Remove called with locking from inside a loop.
Nested(t) == pc[t] \in RemoveLabels \cup {"unlock"} /\ ret[t] # "idle" /\ lk[t]

LockInv ==
    /\ owner = None => depth = 0
    /\ \A t \in Threads :
        /\ HoldsLock(t) <=> owner = t
        /\ owner = t => depth = IF Nested(t) THEN 2 ELSE 1
        /\ pc[t] \in LinkLabels => ret[t] = "idle"
        /\ pc[t] \in LinkLabels \cup RemoveLabels \cup {"lockRemove", "unlock"}
              /\ ret[t] = "idle" => lk[t]
        /\ pc[t] = "lockRemove" => lk[t]
        /\ pc[t] \in LinkLabels \cup RemoveLabels \cup {"lockRemove"} => ent[t] \in Entries
        /\ pc[t] = "body" => cur[t] \in Entries

FreshInv ==
    \A t \in Threads :
        /\ pc[t] \in FreshLabels => next[ent[t]] = ent[t] /\ prev[ent[t]] = ent[t]
        /\ \A u \in Threads :
               pc[t] \in LinkLabels /\ pc[u] \in LinkLabels /\ t # u => ent[t] # ent[u]

\* Pointers f and g in the middle of a call on e, at a label.
MidLinks(label, f, g, e) ==
    /\ label = "insertPrev" =>
          /\ f[e] = f[Sentinel] /\ g[f[Sentinel]] = Sentinel
          /\ Mutual([f EXCEPT ![Sentinel] = e], [g EXCEPT ![f[e]] = e])
    /\ label = "insertHead" => Mutual([f EXCEPT ![Sentinel] = e], g)
    /\ label = "appendNext" =>
          /\ g[e] = g[Sentinel] /\ f[g[Sentinel]] = Sentinel
          /\ Mutual([f EXCEPT ![g[e]] = e], [g EXCEPT ![Sentinel] = e])
    /\ label = "appendHead" => Mutual(f, [g EXCEPT ![Sentinel] = e])
    /\ label = "removeNext" =>
          /\ f[g[e]] = e
          /\ Mutual([[f EXCEPT ![g[e]] = f[e]] EXCEPT ![e] = e], [g EXCEPT ![e] = e])
    /\ label = "removeSelf" => Mutual([f EXCEPT ![e] = e], [g EXCEPT ![e] = e])

MidInv(t) == MidLinks(pc[t], next, prev, ent[t])

LinkInv ==
    /\ (\A t \in Threads : pc[t] \notin MidLabels) => Mutual(next, prev)
    /\ \A t \in Threads : MidInv(t)

IInv == TypeOK /\ LockInv /\ FreshInv /\ LinkInv

----------------------------------------------------------------------------
\* Every action keeps the type invariant, given the invariant of the state before.
LEMMA TypeStep == IInv /\ [Next]_vars => TypeOK'
<1> SUFFICES ASSUME IInv, [Next]_vars PROVE TypeOK'
    OBVIOUS
<1> USE ListAssumption, ThreadsAssumption
    DEF IInv, TypeOK, MutexTypeOK, Goto, mutexVars, linkVars, callVars, loopVars,
        InsertLabels, AppendLabels, RemoveLabels, LoopLabels, WaitLabels
<1>1. ASSUME NEW t \in Threads, NEW e \in Entries \cup {None},
             NEW l \in WaitLabels, Call(t, e, l)
      PROVE TypeOK'
    BY <1>1 DEF Call
<1>2. ASSUME NEW t \in Threads, Lock(t) PROVE TypeOK'
    BY <1>2 DEF Lock, MutexLock, Begun
<1>3. ASSUME NEW t \in Threads, Unlock(t) PROVE TypeOK'
    <2>1. owner = t /\ depth \in {1, 2}
        BY <1>3 DEF Unlock, LockInv, HoldsLock
    <2> QED BY <1>3, <2>1 DEF Unlock, MutexUnlock
<1>4. ASSUME NEW t \in Threads, Insert(t) PROVE TypeOK'
    <2>1. ent[t] \in Entries
        BY <1>4 DEF Insert, InsertEntry, InsertPrev, InsertHead, LockInv, LinkLabels
    <2> QED BY <1>4, <2>1 DEF Insert, InsertEntry, InsertPrev, InsertHead, Node
<1>5. ASSUME NEW t \in Threads, AppendOp(t) PROVE TypeOK'
    <2>1. ent[t] \in Entries
        BY <1>5 DEF AppendOp, AppendEntry, AppendNext, AppendHead, LockInv, LinkLabels
    <2> QED BY <1>5, <2>1 DEF AppendOp, AppendEntry, AppendNext, AppendHead, Node
<1>6. ASSUME NEW t \in Threads, Remove(t) PROVE TypeOK'
    <2>1. ent[t] \in Entries
        BY <1>6 DEF Remove, RemovePrev, RemoveNext, RemoveSelf, LockInv
    <2> QED BY <1>6, <2>1 DEF Remove, RemovePrev, RemoveNext, RemoveSelf, Node
<1>7. ASSUME NEW t \in Threads, ForEach(t) PROVE TypeOK'
    <2>1. CASE EachInit(t)
        <3>1. GetHead \in Node \cup {None}
            BY DEF GetHead, IsValid, Node
        <3>2. /\ tmp' \in [Threads -> Node \cup {None}]
              /\ visited' \in [Threads -> Seq(Entries)]
              /\ found' \in [Threads -> [Node -> Node]]
            BY <2>1, <3>1 DEF EachInit
        <3> QED BY <2>1, <3>2 DEF EachInit
    <2>2. CASE EachTest(t)
        <3>1. CASE IsValid(tmp[t])
            <4>1. tmp[t] \in Entries /\ next[tmp[t]] \in Node
                BY <3>1 DEF IsValid, Node
            <4>3. Append(visited[t], tmp[t]) \in Seq(Entries)
                BY <4>1
            <4>4. visited' = [visited EXCEPT ![t] = Append(visited[t], tmp[t])]
                BY <2>2, <3>1 DEF EachTest
            <4>2. visited' \in [Threads -> Seq(Entries)]
                BY <4>3, <4>4
            <4> QED BY <2>2, <3>1, <4>1, <4>2 DEF EachTest
        <3>2. CASE ~IsValid(tmp[t])
            BY <2>2, <3>2 DEF EachTest
        <3> QED BY <3>1, <3>2
    <2>3. ASSUME NEW to \in {"test", "done"}, EachKeep(t, to) PROVE TypeOK'
        BY <2>3 DEF EachKeep
    <2>5. ASSUME NEW to \in {"test", "done"}, NEW lock \in BOOLEAN, EachRemove(t, lock, to)
          PROVE TypeOK'
        BY <2>5 DEF EachRemove
    <2>4. CASE EachDone(t)
        <3>1. owner = t /\ depth \in {1, 2}
            BY <2>4 DEF EachDone, LockInv, HoldsLock
        <3> QED BY <2>4, <3>1 DEF EachDone, MutexUnlock, Unlinked, Node
    <2> QED BY <1>7, <2>1, <2>2, <2>3, <2>4, <2>5 DEF ForEach, Body
<1>8. CASE UNCHANGED vars
    BY <1>8 DEF vars
<1> QED
    BY <1>1, <1>2, <1>3, <1>4, <1>5, <1>6, <1>7, <1>8
    DEF Next, Step, NewCall, CallEach, CallInsert, CallAppend, CallRemove

\* Every action keeps the account of the lock.
LEMMA LockStep == IInv /\ [Next]_vars => LockInv'
<1> SUFFICES ASSUME IInv, [Next]_vars PROVE LockInv'
    OBVIOUS
<1> USE ListAssumption, ThreadsAssumption
    DEF IInv, TypeOK, MutexTypeOK, Goto, mutexVars, linkVars, callVars, loopVars,
        InsertLabels, AppendLabels, RemoveLabels, LoopLabels, WaitLabels, LinkLabels,
        LockInv, HoldsLock, Nested
<1>1. ASSUME NEW t \in Threads, NEW e \in Entries \cup {None},
             NEW l \in WaitLabels, Call(t, e, l), l # "lockEach" => e \in Entries
      PROVE LockInv'
    BY <1>1 DEF Call
<1>2. ASSUME NEW t \in Threads, Lock(t) PROVE LockInv'
    BY <1>2 DEF Lock, MutexLock, MutexFree, Begun
<1>3. ASSUME NEW t \in Threads, Unlock(t) PROVE LockInv'
    BY <1>3 DEF Unlock, MutexUnlock
<1>4. ASSUME NEW t \in Threads, Insert(t) PROVE LockInv'
    BY <1>4 DEF Insert, InsertEntry, InsertPrev, InsertHead
<1>5. ASSUME NEW t \in Threads, AppendOp(t) PROVE LockInv'
    BY <1>5 DEF AppendOp, AppendEntry, AppendNext, AppendHead
<1>6. ASSUME NEW t \in Threads, Remove(t) PROVE LockInv'
    BY <1>6 DEF Remove, RemovePrev, RemoveNext, RemoveSelf
<1>7. ASSUME NEW t \in Threads, ForEach(t) PROVE LockInv'
    <2>1. CASE EachInit(t)
        BY <2>1 DEF EachInit
    <2>2. CASE EachTest(t)
        BY <2>2 DEF EachTest, IsValid, Node
    <2>3. ASSUME NEW to \in {"test", "done"}, EachKeep(t, to) PROVE LockInv'
        BY <2>3 DEF EachKeep
    <2>5. ASSUME NEW to \in {"test", "done"}, NEW lock \in BOOLEAN, EachRemove(t, lock, to)
          PROVE LockInv'
        BY <2>5 DEF EachRemove
    <2>4. CASE EachDone(t)
        BY <2>4 DEF EachDone, MutexUnlock
    <2> QED BY <1>7, <2>1, <2>2, <2>3, <2>4, <2>5 DEF ForEach, Body
<1>8. CASE UNCHANGED vars
    BY <1>8 DEF vars
<1> QED
    BY <1>1, <1>2, <1>3, <1>4, <1>5, <1>6, <1>7, <1>8
    DEF Next, Step, NewCall, CallEach, CallInsert, CallAppend, CallRemove

----------------------------------------------------------------------------
(* What Insert, Append and Remove do to a pair of inverse pointer maps.     *)

\* A self-linked entry put between the sentinel and its successor: the maps
\* are inverse once the four assignments of Insert have been made.
LEMMA InsertLinks ==
    ASSUME NEW f \in [Node -> Node], NEW g \in [Node -> Node], Mutual(f, g),
           NEW e \in Entries, f[e] = e, g[e] = e,
           NEW f1, NEW g1, f1 = [f EXCEPT ![e] = f[Sentinel]], g1 = [g EXCEPT ![e] = Sentinel]
    PROVE  MidLinks("insertPrev", f1, g1, e)
BY ListAssumption DEF MidLinks, Mutual, Node

\* The mirror image for Append.
LEMMA AppendLinks ==
    ASSUME NEW f \in [Node -> Node], NEW g \in [Node -> Node], Mutual(f, g),
           NEW e \in Entries, f[e] = e, g[e] = e,
           NEW f1, NEW g1, f1 = [f EXCEPT ![e] = Sentinel], g1 = [g EXCEPT ![e] = g[Sentinel]]
    PROVE  MidLinks("appendNext", f1, g1, e)
BY ListAssumption DEF MidLinks, Mutual, Node

\* Remove closes the gap an entry leaves; for an entry that is linked to itself
\* it changes nothing.
LEMMA RemoveLinks ==
    ASSUME NEW f \in [Node -> Node], NEW g \in [Node -> Node], Mutual(f, g),
           NEW e \in Entries, NEW g1, g1 = [g EXCEPT ![f[e]] = g[e]]
    PROVE  MidLinks("removeNext", f, g1, e)
BY ListAssumption DEF MidLinks, Mutual, Node

\* While a thread holds the lock no other thread is in the middle of a call.
LEMMA OnlyHolder ==
    ASSUME IInv, NEW t \in Threads, HoldsLock(t)
    PROVE  /\ \A u \in Threads : u # t => pc[u] \notin MidLabels
           /\ pc[t] \notin MidLabels => Mutual(next, prev)
BY DEF IInv, LockInv, LinkInv, HoldsLock, MidLabels, InsertLabels, AppendLabels, RemoveLabels

\* An entry that waits to be linked stays linked to itself, whatever the other
\* threads do meanwhile: they may even Remove it, which changes nothing.
LEMMA FreshStep == IInv /\ [Next]_vars => FreshInv'
<1> SUFFICES ASSUME IInv, [Next]_vars PROVE FreshInv'
    OBVIOUS
<1> USE ListAssumption, ThreadsAssumption
    DEF IInv, TypeOK, Goto, linkVars, callVars, FreshInv, FreshLabels, LinkLabels,
        InsertLabels, AppendLabels, RemoveLabels, LoopLabels, WaitLabels
<1>1. ASSUME NEW t \in Threads, NEW e \in Entries, ~InList(e), ~InUse(e),
             NEW l \in {"lockInsert", "lockAppend"}, Call(t, e, l)
      PROVE FreshInv'
    <2>1. next[e] = e
        BY <1>1 DEF InList
    <2>2. prev[e] = e
        <3>1. CASE \A u \in Threads : pc[u] \notin MidLabels
            BY <2>1, <3>1 DEF LinkInv, Mutual, Node
        <3>2. CASE \E u \in Threads : pc[u] \in MidLabels
            <4>1. PICK u \in Threads : pc[u] \in MidLabels
                BY <3>2
            <4>2. ent[u] \in Entries /\ ent[u] # e /\ MidInv(u)
                BY <4>1, <1>1 DEF LockInv, LinkInv, InUse, MidLabels
            <4>3. e \in Node /\ Sentinel # e /\ ent[u] \in Node
                BY <4>2 DEF Node
            <4>4. CASE pc[u] = "insertPrev"
                BY <2>1, <4>2, <4>3, <4>4 DEF MidInv, MidLinks, Mutual
            <4>5. CASE pc[u] = "insertHead"
                BY <2>1, <4>2, <4>3, <4>5 DEF MidInv, MidLinks, Mutual
            <4>6. CASE pc[u] = "appendNext"
                BY <2>1, <4>2, <4>3, <4>6 DEF MidInv, MidLinks, Mutual
            <4>7. CASE pc[u] = "appendHead"
                BY <2>1, <4>2, <4>3, <4>7 DEF MidInv, MidLinks, Mutual
            <4>8. CASE pc[u] = "removeNext"
                <5> DEFINE f == [[next EXCEPT ![prev[ent[u]]] = next[ent[u]]] EXCEPT ![ent[u]] = ent[u]]
                           g == [prev EXCEPT ![ent[u]] = ent[u]]
                <5>1. next[prev[ent[u]]] = ent[u] /\ Mutual(f, g)
                    BY <4>2, <4>8 DEF MidInv, MidLinks
                <5>2. f[e] = e /\ g[e] = prev[e]
                    BY <5>1, <2>1, <4>2, <4>3
                <5>3. g[f[e]] = e
                    BY <5>1, <4>3 DEF Mutual
                <5> QED BY <5>2, <5>3
            <4>9. CASE pc[u] = "removeSelf"
                BY <2>1, <4>2, <4>3, <4>9 DEF MidInv, MidLinks, Mutual
            <4> QED
                BY <4>1, <4>4, <4>5, <4>6, <4>7, <4>8, <4>9 DEF MidLabels
        <3> QED BY <3>1, <3>2
    <2>3. \A u \in Threads : ent[u] # e
        BY <1>1 DEF InUse
    <2> QED BY <1>1, <2>1, <2>2, <2>3 DEF Call
<1>2. ASSUME NEW t \in Threads, NEW e \in Entries \cup {None},
             NEW l \in {"lockRemove", "lockEach"}, Call(t, e, l)
      PROVE FreshInv'
    BY <1>2 DEF Call
<1>3. ASSUME NEW t \in Threads, Lock(t) PROVE FreshInv'
    BY <1>3 DEF Lock, Begun
<1>4. ASSUME NEW t \in Threads, Unlock(t) PROVE FreshInv'
    BY <1>4 DEF Unlock
<1>5. ASSUME NEW t \in Threads, Insert(t) PROVE FreshInv'
    <2>1. ent[t] \in Entries /\ MidInv(t)
        BY <1>5 DEF Insert, InsertEntry, InsertPrev, InsertHead, LockInv, LinkInv
    <2> QED
        BY <1>5, <2>1 DEF Insert, InsertEntry, InsertPrev, InsertHead, MidInv, MidLinks, LockInv, Node
<1>6. ASSUME NEW t \in Threads, AppendOp(t) PROVE FreshInv'
    <2>1. ent[t] \in Entries /\ MidInv(t)
        BY <1>6 DEF AppendOp, AppendEntry, AppendNext, AppendHead, LockInv, LinkInv
    <2>2. CASE AppendEntry(t)
        BY <2>1, <2>2 DEF AppendEntry, LockInv, Node
    <2>3. CASE AppendNext(t)
        BY <2>1, <2>3 DEF AppendNext, MidInv, MidLinks, LockInv, Node
    <2>4. CASE AppendHead(t)
        BY <2>1, <2>4 DEF AppendHead, LockInv, Node
    <2> QED BY <1>6, <2>2, <2>3, <2>4 DEF AppendOp
<1>7. ASSUME NEW t \in Threads, Remove(t) PROVE FreshInv'
    <2>1. ent[t] \in Entries /\ MidInv(t)
        BY <1>7 DEF Remove, RemovePrev, RemoveNext, RemoveSelf, LockInv, LinkInv
    <2>2. pc[t] = "remove" => Mutual(next, prev)
        BY OnlyHolder DEF HoldsLock, MidLabels
    <2>3. CASE RemovePrev(t)
        BY <2>1, <2>2, <2>3 DEF RemovePrev, Mutual, LockInv, Node
    <2>4. CASE RemoveNext(t)
        BY <2>1, <2>4 DEF RemoveNext, MidInv, MidLinks, LockInv, Node
    <2>5. CASE RemoveSelf(t)
        BY <2>1, <2>5 DEF RemoveSelf, LockInv, Node
    <2> QED BY <1>7, <2>3, <2>4, <2>5 DEF Remove
<1>8. ASSUME NEW t \in Threads, ForEach(t) PROVE FreshInv'
    BY <1>8 DEF ForEach, EachInit, EachTest, Body, EachKeep, EachRemove, EachDone
<1>9. CASE UNCHANGED vars
    BY <1>9 DEF vars
<1> QED
    BY <1>1, <1>2, <1>3, <1>4, <1>5, <1>6, <1>7, <1>8, <1>9
    DEF Next, Step, NewCall, CallEach, CallInsert, CallAppend, CallRemove

\* Every action leaves the pointers inverse, or one completion away from it.
LEMMA LinkStep == IInv /\ [Next]_vars => LinkInv'
<1> SUFFICES ASSUME IInv, [Next]_vars PROVE LinkInv'
    OBVIOUS
<1> USE ListAssumption, ThreadsAssumption
    DEF IInv, TypeOK, Goto, linkVars, callVars, MidLabels,
        InsertLabels, AppendLabels, RemoveLabels, LoopLabels, WaitLabels
\* A step that leaves the pointers alone and does not enter or leave MidLabels.
<1>a. ASSUME NEW t \in Threads, UNCHANGED linkVars,
             \A u \in Threads : u # t => pc'[u] = pc[u] /\ ent'[u] = ent[u],
             pc[t] \notin MidLabels, pc'[t] \notin MidLabels
      PROVE LinkInv'
    BY <1>a DEF LinkInv, MidInv, MidLinks
\* A step that leaves no thread in MidLabels.
<1>b. ASSUME NEW t \in Threads, HoldsLock(t),
             \A u \in Threads : u # t => pc'[u] = pc[u], pc'[t] = "unlock",
             Mutual(next', prev')
      PROVE LinkInv'
    <2>1. \A u \in Threads : pc'[u] \notin MidLabels
        BY <1>b, OnlyHolder
    <2> QED BY <1>b, <2>1 DEF LinkInv, MidInv, MidLinks
\* A step that leaves only t in MidLabels.
<1>c. ASSUME NEW t \in Threads, HoldsLock(t),
             \A u \in Threads : u # t => pc'[u] = pc[u],
             pc'[t] \in MidLabels, MidInv(t)'
      PROVE LinkInv'
    <2>1. \A u \in Threads : u # t => pc'[u] \notin MidLabels
        BY <1>c, OnlyHolder
    <2>2. \A u \in Threads : MidInv(u)'
        BY <1>c, <2>1 DEF MidInv, MidLinks
    <2> QED BY <1>c, <2>2 DEF LinkInv
<1>1. ASSUME NEW t \in Threads, NEW e, NEW l \in WaitLabels, Call(t, e, l)
      PROVE LinkInv'
    BY <1>1, <1>a DEF Call
<1>2. ASSUME NEW t \in Threads, Lock(t) PROVE LinkInv'
    BY <1>2, <1>a DEF Lock, Begun
<1>3. ASSUME NEW t \in Threads, Unlock(t) PROVE LinkInv'
    BY <1>3, <1>a DEF Unlock
<1>4. ASSUME NEW t \in Threads, Insert(t) PROVE LinkInv'
    <2>1. ent[t] \in Entries /\ MidInv(t) /\ HoldsLock(t)
        BY <1>4 DEF Insert, InsertEntry, InsertPrev, InsertHead, LockInv, LinkInv, LinkLabels, HoldsLock
    <2>2. CASE InsertEntry(t)
        <3>1. Mutual(next, prev) /\ next[ent[t]] = ent[t] /\ prev[ent[t]] = ent[t]
            BY <2>1, <2>2, OnlyHolder DEF InsertEntry, FreshInv, FreshLabels
        <3>2. MidInv(t)'
            <4>1. /\ next' = [next EXCEPT ![ent[t]] = next[Sentinel]]
                  /\ prev' = [prev EXCEPT ![ent[t]] = Sentinel]
                  /\ pc'[t] = "insertPrev" /\ ent'[t] = ent[t]
                BY <2>2 DEF InsertEntry
            <4>2. MidLinks("insertPrev", next', prev', ent[t])
                BY <2>1, <3>1, <4>1, InsertLinks
            <4> QED BY <4>1, <4>2 DEF MidInv
        <3> QED BY <2>1, <2>2, <3>2, <1>c DEF InsertEntry
    <2>3. CASE InsertPrev(t)
        <3>1. MidInv(t)'
            BY <2>1, <2>3 DEF InsertPrev, MidInv, MidLinks
        <3> QED BY <2>1, <2>3, <3>1, <1>c DEF InsertPrev
    <2>4. CASE InsertHead(t)
        BY <2>1, <2>4, <1>b DEF InsertHead, MidInv, MidLinks
    <2> QED BY <1>4, <2>2, <2>3, <2>4 DEF Insert
<1>5. ASSUME NEW t \in Threads, AppendOp(t) PROVE LinkInv'
    <2>1. ent[t] \in Entries /\ MidInv(t) /\ HoldsLock(t)
        BY <1>5 DEF AppendOp, AppendEntry, AppendNext, AppendHead, LockInv, LinkInv, LinkLabels, HoldsLock
    <2>2. CASE AppendEntry(t)
        <3>1. Mutual(next, prev) /\ next[ent[t]] = ent[t] /\ prev[ent[t]] = ent[t]
            BY <2>1, <2>2, OnlyHolder DEF AppendEntry, FreshInv, FreshLabels
        <3>2. MidInv(t)'
            <4>1. /\ next' = [next EXCEPT ![ent[t]] = Sentinel]
                  /\ prev' = [prev EXCEPT ![ent[t]] = prev[Sentinel]]
                  /\ pc'[t] = "appendNext" /\ ent'[t] = ent[t]
                BY <2>2 DEF AppendEntry
            <4>2. MidLinks("appendNext", next', prev', ent[t])
                BY <2>1, <3>1, <4>1, AppendLinks
            <4> QED BY <4>1, <4>2 DEF MidInv
        <3> QED BY <2>1, <2>2, <3>2, <1>c DEF AppendEntry
    <2>3. CASE AppendNext(t)
        <3>1. MidInv(t)'
            BY <2>1, <2>3 DEF AppendNext, MidInv, MidLinks
        <3> QED BY <2>1, <2>3, <3>1, <1>c DEF AppendNext
    <2>4. CASE AppendHead(t)
        BY <2>1, <2>4, <1>b DEF AppendHead, MidInv, MidLinks
    <2> QED BY <1>5, <2>2, <2>3, <2>4 DEF AppendOp
<1>6. ASSUME NEW t \in Threads, Remove(t) PROVE LinkInv'
    <2>1. ent[t] \in Entries /\ MidInv(t) /\ HoldsLock(t)
        BY <1>6 DEF Remove, RemovePrev, RemoveNext, RemoveSelf, LockInv, LinkInv, HoldsLock
    <2>2. CASE RemovePrev(t)
        <3>1. Mutual(next, prev)
            BY <2>1, <2>2, OnlyHolder DEF RemovePrev
        <3>2. MidInv(t)'
            <4>1. /\ next' = next
                  /\ prev' = [prev EXCEPT ![next[ent[t]]] = prev[ent[t]]]
                  /\ pc'[t] = "removeNext" /\ ent'[t] = ent[t]
                BY <2>2 DEF RemovePrev
            <4>2. MidLinks("removeNext", next', prev', ent[t])
                BY <2>1, <3>1, <4>1, RemoveLinks
            <4> QED BY <4>1, <4>2 DEF MidInv
        <3> QED BY <2>1, <2>2, <3>2, <1>c DEF RemovePrev
    <2>3. CASE RemoveNext(t)
        <3>1. MidInv(t)'
            BY <2>1, <2>3 DEF RemoveNext, MidInv, MidLinks
        <3> QED BY <2>1, <2>3, <3>1, <1>c DEF RemoveNext
    <2>4. CASE RemoveSelf(t)
        BY <2>1, <2>4, <1>b DEF RemoveSelf, MidInv, MidLinks
    <2> QED BY <1>6, <2>2, <2>3, <2>4 DEF Remove
<1>7. ASSUME NEW t \in Threads, ForEach(t) PROVE LinkInv'
    <2>1. /\ UNCHANGED linkVars
          /\ \A u \in Threads : u # t => pc'[u] = pc[u] /\ ent'[u] = ent[u]
          /\ pc[t] \notin MidLabels /\ pc'[t] \notin MidLabels
        BY <1>7 DEF ForEach, EachInit, EachTest, Body, EachKeep, EachRemove, EachDone
    <2> QED BY <2>1, <1>a
<1>8. CASE UNCHANGED vars
    BY <1>8 DEF vars, LinkInv, MidInv, MidLinks
<1> QED
    BY <1>1, <1>2, <1>3, <1>4, <1>5, <1>6, <1>7, <1>8
    DEF Next, Step, NewCall, CallEach, CallInsert, CallAppend, CallRemove

----------------------------------------------------------------------------
\* The constructors leave every entry and the sentinel linked to themselves.
LEMMA InitInv == Init => IInv
BY ListAssumption, ThreadsAssumption
DEF Init, MutexInit, Unlinked, IInv, TypeOK, MutexTypeOK, LockInv, FreshInv, LinkInv, MidInv, MidLinks,
    Mutual, HoldsLock, Nested, LinkLabels, FreshLabels, MidLabels,
    InsertLabels, AppendLabels, RemoveLabels, LoopLabels, WaitLabels, Node

\* PTP::List keeps its types and its inductive invariant, for any number of
\* threads calling Insert, Append, Remove and PTP_LIST_FOREACH.
THEOREM ListInvariant == Spec => []IInv
<1>1. IInv /\ [Next]_vars => IInv'
    BY TypeStep, LockStep, FreshStep, LinkStep DEF IInv
<1> QED BY InitInv, <1>1, PTL DEF Spec

\* The type invariant, for every set of threads and entries.
THEOREM ListTypes == Spec => []TypeOK
<1>1. IInv => TypeOK
    BY DEF IInv
<1> QED BY ListInvariant, <1>1, PTL

\* Whenever the lock of a PTP::List is free its m_next and m_prev pointers are
\* inverse to each other, whatever the threads have done.
THEOREM ListLinks == Spec => []LinksInverse
<1>1. IInv => LinksInverse
    <2> SUFFICES ASSUME IInv, owner = None PROVE Mutual(next, prev)
        BY DEF LinksInverse, Mutual
    <2>1. \A t \in Threads : ~HoldsLock(t)
        BY ThreadsAssumption DEF IInv, LockInv
    <2> QED
        BY <2>1 DEF IInv, LinkInv, HoldsLock, MidLabels, InsertLabels, AppendLabels, RemoveLabels
<1> QED BY ListInvariant, <1>1, PTL

----------------------------------------------------------------------------
(* What Walk finds in a ring of pointers *)

Place(s, i) == IF i \in 1..Len(s) THEN s[i] ELSE Sentinel

In(e, s) == \E i \in 1..Len(s) : s[i] = e

\* The pointers lead from the sentinel through the entries of s, each once, and back.
Ring(link, s) ==
    /\ s \in Seq(Entries)
    /\ \A i, j \in 1..Len(s) : s[i] = s[j] => i = j
    /\ \A i \in 0..Len(s) : link[Place(s, i)] = Place(s, i + 1)

\* Induction on a set of numbers.
LEMMA AllNumbers ==
    ASSUME NEW S, 0 \in S, \A n \in Nat : n \in S => n + 1 \in S
    PROVE  \A n \in Nat : n \in S
<1> DEFINE T == Nat \ S
           R == OpToRel(<, Nat)
<1> SUFFICES ASSUME T # {} PROVE FALSE
    OBVIOUS
<1>1. IsWellFoundedOn(R, Nat)
    BY NatLessThanWellFounded
<1>2. PICK x \in T : \A y \in T : <<y, x>> \notin R
    <2>1. T \subseteq Nat
        OBVIOUS
    <2> HIDE DEF T, R
    <2> QED BY <1>1, <2>1, WFMin
<1>3. x # 0 /\ x - 1 \in Nat /\ x - 1 < x /\ (x - 1) + 1 = x
    OBVIOUS
<1>4. <<x - 1, x>> \in R
    BY <1>3 DEF OpToRel
<1>5. x - 1 \in S
    BY <1>2, <1>3, <1>4
<1> QED BY <1>3, <1>5

\* The pointers of Walk exist, after any number of steps.
LEMMA WalkExists ==
    ASSUME NEW link \in [Node -> Node], NEW n \in Nat
    PROVE  \E at : at = [k \in 0..n |-> IF k = 0 THEN Sentinel ELSE link[at[k - 1]]]
<1> DEFINE Steps(m) == {f \in [0..m -> Node] :
                           f[0] = Sentinel /\ \A k \in 1..m : f[k] = link[f[k - 1]]}
           S == {m \in Nat : Steps(m) # {}}
<1>1. 0 \in S
    <2>1. [k \in 0..0 |-> Sentinel] \in Steps(0)
        BY DEF Node
    <2> QED BY <2>1
<1>2. ASSUME NEW m \in Nat, m \in S PROVE m + 1 \in S
    <2>1. PICK f : f \in [0..m -> Node] /\ f[0] = Sentinel /\ \A k \in 1..m : f[k] = link[f[k - 1]]
        BY <1>2
    <2> DEFINE g == [k \in 0..(m + 1) |-> IF k \in 0..m THEN f[k] ELSE link[f[m]]]
    <2>2. g \in [0..(m + 1) -> Node] /\ g[0] = Sentinel
        BY <2>1
    <2>3. ASSUME NEW k \in 1..(m + 1) PROVE g[k] = link[g[k - 1]]
        <3>1. k - 1 \in 0..m /\ (k \in 1..m \/ k = m + 1)
            OBVIOUS
        <3>2. CASE k \in 1..m
            BY <2>1, <3>1, <3>2
        <3>3. CASE k = m + 1
            BY <2>1, <3>1, <3>3
        <3> QED BY <3>1, <3>2, <3>3
    <2>4. g \in Steps(m + 1)
        BY <2>2, <2>3
    <2> QED BY <2>4
<1>3. n \in S
    <2> HIDE DEF S
    <2> QED BY <1>1, <1>2, AllNumbers
<1>4. PICK f : f \in [0..n -> Node] /\ f[0] = Sentinel /\ \A k \in 1..n : f[k] = link[f[k - 1]]
    BY <1>3
<1>5. \A k \in 0..n : f[k] = IF k = 0 THEN Sentinel ELSE link[f[k - 1]]
    BY <1>4
<1>6. f = [k \in 0..n |-> IF k = 0 THEN Sentinel ELSE link[f[k - 1]]]
    BY <1>4, <1>5
<1> QED BY <1>6

\* No list is longer than there are entries.
LEMMA RingFits ==
    ASSUME NEW s \in Seq(Entries), \A i, j \in 1..Len(s) : s[i] = s[j] => i = j
    PROVE  Cardinality(Entries) \in Nat /\ Len(s) <= Cardinality(Entries)
<1>1. Len(s) \in Nat /\ s \in Injection(1..Len(s), Entries)
    BY DEF Injection, IsInjective
<1>2. Cardinality(1..Len(s)) = Len(s)
    BY <1>1, FS_Interval
<1> QED BY <1>1, <1>2, FS_Injection, FS_CardinalityType, ListAssumption

\* Walk finds the entries of a ring in their order.
LEMMA WalkOfRing ==
    ASSUME NEW link \in [Node -> Node], NEW s, Ring(link, s)
    PROVE  Walk(link) = s
<1> DEFINE N == Cardinality(Entries)
           at == CHOOSE f : f = [k \in 0..N |-> IF k = 0 THEN Sentinel ELSE link[f[k - 1]]]
           inside == {k \in 1..N : \A j \in 1..k : at[j] # Sentinel}
<1>0. s \in Seq(Entries) /\ Len(s) \in Nat
    BY DEF Ring
<1>1. N \in Nat /\ Len(s) <= N
    BY RingFits DEF Ring
<1>2. Walk(link) = [k \in 1..Cardinality(inside) |-> at[k]]
    BY DEF Walk
<1>3. at = [k \in 0..N |-> IF k = 0 THEN Sentinel ELSE link[at[k - 1]]]
    <2> HIDE DEF N
    <2> QED BY <1>1, WalkExists
<1> HIDE DEF at, N
<1>4. at[0] = Sentinel /\ \A k \in 1..N : at[k] = link[at[k - 1]]
    <2>1. \A k \in 0..N : at[k] = IF k = 0 THEN Sentinel ELSE link[at[k - 1]]
        BY <1>3
    <2> QED BY <1>1, <2>1
<1>5. \A k \in Nat : k <= Len(s) + 1 /\ k <= N => at[k] = Place(s, k)
    <2> DEFINE S == {k \in Nat : k <= Len(s) + 1 /\ k <= N => at[k] = Place(s, k)}
    <2>1. 0 \in S
        BY <1>4 DEF Place
    <2>2. ASSUME NEW k \in Nat, k \in S PROVE k + 1 \in S
        <3> SUFFICES ASSUME k + 1 <= Len(s) + 1, k + 1 <= N PROVE at[k + 1] = Place(s, k + 1)
            OBVIOUS
        <3>1. k \in 0..Len(s) /\ k + 1 \in 1..N /\ (k + 1) - 1 = k /\ k <= Len(s) + 1 /\ k <= N
            BY <1>0, <1>1
        <3>2. at[k + 1] = link[at[k]] /\ at[k] = Place(s, k)
            BY <1>4, <2>2, <3>1
        <3> QED BY <3>1, <3>2 DEF Ring
    <2> HIDE DEF S
    <2>3. \A k \in Nat : k \in S
        BY <2>1, <2>2, AllNumbers
    <2> QED BY <2>3 DEF S
<1>6. \A k \in 1..Len(s) : at[k] = s[k] /\ at[k] # Sentinel
    <2>1. \A k \in 1..Len(s) : s[k] \in Entries /\ s[k] # Sentinel
        BY <1>0, ListAssumption
    <2> QED BY <1>0, <1>1, <1>5, <2>1 DEF Place
<1>7. Len(s) < N => at[Len(s) + 1] = Sentinel
    BY <1>0, <1>1, <1>5 DEF Place
<1>8. inside = 1..Len(s)
    <2>1. ASSUME NEW k \in 1..N, k > Len(s) PROVE Len(s) + 1 \in 1..k /\ at[Len(s) + 1] = Sentinel
        BY <1>0, <1>1, <1>7, <2>1
    <2>2. ASSUME NEW k \in inside PROVE k \in 1..Len(s)
        BY <1>0, <1>1, <2>1
    <2>3. ASSUME NEW k \in 1..Len(s) PROVE k \in inside
        BY <1>0, <1>1, <1>6
    <2> QED BY <2>2, <2>3
<1> HIDE DEF inside
<1>9. Cardinality(inside) = Len(s)
    <2>1. Cardinality(1..Len(s)) = Len(s)
        BY <1>0, FS_Interval
    <2> QED BY <1>8, <2>1
<1>10. Walk(link) = [k \in 1..Len(s) |-> s[k]]
    BY <1>2, <1>6, <1>9
<1> QED BY <1>0, <1>10

\* The places of a ring are the nodes of the list, and different ones.
LEMMA Places ==
    ASSUME NEW link, NEW s, Ring(link, s)
    PROVE  /\ s \in Seq(Entries) /\ Len(s) \in Nat
           /\ \A i \in 1..Len(s) : Place(s, i) = s[i] /\ s[i] \in Entries /\ s[i] # Sentinel
           /\ Place(s, 0) = Sentinel /\ Place(s, Len(s) + 1) = Sentinel
           /\ \A i \in 0..Len(s) : Place(s, i) \in Node
           /\ \A i, j \in 0..Len(s) : Place(s, i) = Place(s, j) => i = j
<1>1. s \in Seq(Entries) /\ Len(s) \in Nat
    BY DEF Ring
<1>2. \A i \in 1..Len(s) : Place(s, i) = s[i] /\ s[i] \in Entries /\ s[i] # Sentinel
    BY <1>1, ListAssumption DEF Place
<1>3. Place(s, 0) = Sentinel /\ Place(s, Len(s) + 1) = Sentinel
    BY <1>1 DEF Place
<1>4. \A i \in 0..Len(s) : i = 0 \/ i \in 1..Len(s)
    BY <1>1
<1>5. \A i, j \in 1..Len(s) : s[i] = s[j] => i = j
    BY DEF Ring
<1> QED BY <1>1, <1>2, <1>3, <1>4, <1>5 DEF Node

LEMMA RingSame ==
    ASSUME NEW f, NEW g, NEW s, Ring(f, s), \A i \in 0..Len(s) : g[Place(s, i)] = f[Place(s, i)]
    PROVE  Ring(g, s)
BY DEF Ring

\* Who comes before whom is clear.
LEMMA Before ==
    ASSUME NEW f, NEW s, Ring(f, s), NEW i \in 0..Len(s), NEW k \in 1..(Len(s) + 1),
           f[Place(s, i)] = Place(s, k)
    PROVE  i = k - 1
<1>1. Len(s) \in Nat
    BY Places
<1>2. Place(s, i + 1) = Place(s, k)
    BY DEF Ring
<1>3. CASE i = Len(s)
    <2>1. Place(s, k) = Place(s, 0)
        BY <1>2, <1>3, Places
    <2>2. k \notin 1..Len(s)
        BY <1>1, <2>1, Places
    <2> QED BY <1>1, <1>3, <2>2
<1>4. CASE i # Len(s)
    <2>1. i + 1 \in 1..Len(s)
        BY <1>1, <1>4
    <2>2. k # Len(s) + 1
        BY <1>2, <2>1, Places
    <2>3. k \in 0..Len(s) /\ i + 1 \in 0..Len(s)
        BY <1>1, <2>1, <2>2
    <2>4. i + 1 = k
        BY <1>2, <2>3, Places
    <2> QED BY <2>4
<1> QED BY <1>3, <1>4

\* Insert puts an entry between the sentinel and the first one.
LEMMA RingInsert ==
    ASSUME NEW f \in [Node -> Node], NEW s, Ring(f, s), NEW e \in Entries, ~In(e, s),
           f[e] = f[Sentinel], NEW g, g = [f EXCEPT ![Sentinel] = e]
    PROVE  Ring(g, <<e>> \o s)
<1> DEFINE t == <<e>> \o s
<1>1. s \in Seq(Entries) /\ Len(s) \in Nat
    BY Places
<1>2. t \in Seq(Entries) /\ Len(t) = Len(s) + 1 /\ t[1] = e /\ \A i \in 1..Len(s) : t[i + 1] = s[i]
    BY <1>1
<1> HIDE DEF t
<1>3. Place(t, 0) = Sentinel /\ Place(t, 1) = e /\ \A i \in 1..(Len(s) + 1) : Place(t, i + 1) = Place(s, i)
    BY <1>1, <1>2 DEF Place
<1>4. \A i, j \in 1..Len(t) : t[i] = t[j] => i = j
    <2> SUFFICES ASSUME NEW i \in 1..Len(t), NEW j \in 1..Len(t), t[i] = t[j] PROVE i = j
        OBVIOUS
    <2>1. i = 1 \/ (i - 1 \in 1..Len(s) /\ (i - 1) + 1 = i)
        BY <1>1, <1>2
    <2>2. j = 1 \/ (j - 1 \in 1..Len(s) /\ (j - 1) + 1 = j)
        BY <1>1, <1>2
    <2>3. \A k, l \in 1..Len(s) : s[k] = s[l] => k = l
        BY DEF Ring
    <2>4. \A k \in 1..Len(s) : s[k] # e
        BY DEF In
    <2>5. CASE i = 1
        BY <1>2, <2>2, <2>4, <2>5
    <2>6. CASE j = 1
        BY <1>2, <2>1, <2>4, <2>6
    <2>7. CASE i # 1 /\ j # 1
        <3>1. s[i - 1] = s[j - 1]
            BY <1>2, <2>1, <2>2, <2>7
        <3>2. i - 1 = j - 1
            BY <2>1, <2>2, <2>3, <2>7, <3>1
        <3> QED BY <2>1, <2>2, <2>7, <3>2
    <2> QED BY <2>5, <2>6, <2>7
<1>5. ASSUME NEW i \in 0..Len(t) PROVE g[Place(t, i)] = Place(t, i + 1)
    <2>1. e \in Node /\ Sentinel \in Node /\ e # Sentinel
        BY ListAssumption DEF Node
    <2>2. CASE i = 0
        BY <1>3, <2>1, <2>2
    <2>3. CASE i = 1
        <3>1. f[Sentinel] = Place(s, 1)
            <4>1. f[Place(s, 0)] = Place(s, 0 + 1)
                BY <1>1 DEF Ring
            <4> QED BY <4>1, Places
        <3>2. Place(t, 2) = Place(s, 1)
            <4>1. 1 \in 1..(Len(s) + 1) /\ 1 + 1 = 2
                BY <1>1
            <4> QED BY <1>3, <4>1
        <3> QED BY <1>3, <2>1, <2>3, <3>1, <3>2
    <2>4. CASE i \notin {0, 1}
        <3>1. PICK k : k \in 1..Len(s) /\ i = k + 1 /\ k \in 1..(Len(s) + 1) /\ k + 1 \in 1..(Len(s) + 1) /\ k \in 0..Len(s)
            <4>1. LET k == i - 1 IN k \in 1..Len(s) /\ i = k + 1 /\ k \in 1..(Len(s) + 1) /\ k + 1 \in 1..(Len(s) + 1) /\ k \in 0..Len(s)
                BY <1>1, <1>2, <2>4
            <4> QED BY <4>1
        <3>2. Place(t, i) = Place(s, k) /\ Place(t, i + 1) = Place(s, k + 1)
            BY <1>3, <3>1
        <3>3. Place(s, k) # Sentinel /\ Place(s, k) \in Node /\ f[Place(s, k)] = Place(s, k + 1)
            BY <3>1, Places DEF Ring
        <3> QED BY <3>2, <3>3
    <2> QED BY <2>2, <2>3, <2>4
<1> QED BY <1>2, <1>4, <1>5 DEF Ring, t

\* Append puts an entry between the last one and the sentinel.
LEMMA RingAppend ==
    ASSUME NEW f \in [Node -> Node], NEW s, Ring(f, s), NEW e \in Entries, ~In(e, s),
           f[e] = Sentinel, NEW g, g = [f EXCEPT ![Place(s, Len(s))] = e]
    PROVE  Ring(g, Append(s, e))
<1> DEFINE t == Append(s, e)
<1>1. s \in Seq(Entries) /\ Len(s) \in Nat
    BY Places
<1>2. t \in Seq(Entries) /\ Len(t) = Len(s) + 1 /\ t[Len(s) + 1] = e /\ \A i \in 1..Len(s) : t[i] = s[i]
    BY <1>1
<1> HIDE DEF t
<1>3. /\ \A i \in 0..Len(s) : Place(t, i) = Place(s, i)
      /\ Place(t, Len(s) + 1) = e /\ Place(t, Len(s) + 2) = Sentinel
    BY <1>1, <1>2 DEF Place
<1>4. \A i, j \in 1..Len(t) : t[i] = t[j] => i = j
    <2>1. \A i \in 1..Len(t) : i = Len(s) + 1 \/ i \in 1..Len(s)
        BY <1>1, <1>2
    <2>2. \A k, l \in 1..Len(s) : s[k] = s[l] => k = l
        BY DEF Ring
    <2>3. \A k \in 1..Len(s) : s[k] # e
        BY DEF In
    <2> QED BY <1>2, <2>1, <2>2, <2>3
<1>5. ASSUME NEW i \in 0..Len(t) PROVE g[Place(t, i)] = Place(t, i + 1)
    <2>0. e \in Node
        BY DEF Node
    <2>1. CASE i = Len(s) + 1
        <3>1. Place(s, Len(s)) # e
            <4>1. Len(s) = 0 \/ Len(s) \in 1..Len(s)
                BY <1>1
            <4> QED BY <4>1, Places, ListAssumption DEF In
        <3>2. g[e] = Sentinel
            BY <2>0, <3>1
        <3>3. i + 1 = Len(s) + 2
            BY <1>1, <2>1
        <3> QED BY <1>3, <2>1, <3>2, <3>3
    <2>2. CASE i = Len(s)
        <3>1. Place(t, i) = Place(s, Len(s)) /\ Place(s, Len(s)) \in Node /\ Place(t, i + 1) = e
            <4>1. Len(s) \in 0..Len(s)
                BY <1>1
            <4> QED BY <1>3, <2>2, <4>1, Places
        <3> QED BY <3>1
    <2>3. CASE i \notin {Len(s), Len(s) + 1}
        <3>1. i \in 0..Len(s) /\ i + 1 \in 0..Len(s) /\ Len(s) \in 0..Len(s) /\ i # Len(s)
            BY <1>1, <1>2, <2>3
        <3>2. Place(t, i) = Place(s, i) /\ Place(t, i + 1) = Place(s, i + 1)
            BY <1>3, <3>1
        <3>3. Place(s, i) # Place(s, Len(s)) /\ Place(s, i) \in Node
            BY <3>1, Places
        <3>4. f[Place(s, i)] = Place(s, i + 1)
            BY <3>1 DEF Ring
        <3> QED BY <3>2, <3>3, <3>4
    <2> QED BY <2>1, <2>2, <2>3
<1> QED BY <1>2, <1>4, <1>5 DEF Ring, t

\* The sequence without its k-th entry.
LEMMA Without ==
    ASSUME NEW s \in Seq(Entries), NEW k \in 1..Len(s)
    PROVE  LET t == SubSeq(s, 1, k - 1) \o SubSeq(s, k + 1, Len(s))
           IN  /\ t \in Seq(Entries) /\ Len(t) = Len(s) - 1
               /\ \A i \in 1..Len(t) : t[i] = IF i < k THEN s[i] ELSE s[i + 1]
<1> DEFINE u == SubSeq(s, 1, k - 1)
           v == SubSeq(s, k + 1, Len(s))
<1>0. Len(s) \in Nat
    OBVIOUS
<1>1. u \in Seq(Entries) /\ Len(u) = k - 1 /\ \A i \in 1..(k - 1) : u[i] = s[i]
    BY <1>0
<1>2. v \in Seq(Entries) /\ Len(v) = Len(s) - k /\ \A i \in 1..(Len(s) - k) : v[i] = s[k + i]
    BY <1>0
<1> HIDE DEF u, v
<1>3. u \o v \in Seq(Entries) /\ Len(u \o v) = Len(s) - 1
    <2>0. u \in Seq(Entries) /\ v \in Seq(Entries)
        BY <1>1, <1>2
    <2>1. u \o v \in Seq(Entries) /\ Len(u \o v) = Len(u) + Len(v)
        BY ONLY <2>0
    <2>2. (k - 1) + (Len(s) - k) = Len(s) - 1
        BY <1>0
    <2> QED BY <1>1, <1>2, <2>1, <2>2
<1>4. ASSUME NEW i \in 1..(Len(s) - 1) PROVE (u \o v)[i] = IF i < k THEN s[i] ELSE s[i + 1]
    <2>1. (u \o v)[i] = IF i <= Len(u) THEN u[i] ELSE v[i - Len(u)]
        BY <1>0, <1>1, <1>2
    <2>2. CASE i < k
        BY <1>0, <1>1, <2>1, <2>2
    <2>3. CASE ~(i < k)
        <3>1. i - Len(u) \in 1..(Len(s) - k) /\ k + (i - Len(u)) = i + 1 /\ ~(i <= Len(u))
            BY <1>0, <1>1, <2>3
        <3> QED BY <1>2, <2>1, <2>3, <3>1
    <2> QED BY <2>2, <2>3
<1> QED BY <1>3, <1>4 DEF u, v

\* Remove closes the gap around an entry.
LEMMA RingRemove ==
    ASSUME NEW f \in [Node -> Node], NEW s, Ring(f, s), NEW k \in 1..Len(s),
           NEW g, g = [f EXCEPT ![Place(s, k - 1)] = f[s[k]]]
    PROVE  LET t == SubSeq(s, 1, k - 1) \o SubSeq(s, k + 1, Len(s))
           IN  /\ Ring(g, t) /\ ~In(s[k], t)
               /\ \A e : In(e, s) => e = s[k] \/ In(e, t)
<1> DEFINE t == SubSeq(s, 1, k - 1) \o SubSeq(s, k + 1, Len(s))
<1>1. s \in Seq(Entries) /\ Len(s) \in Nat
    BY Places
<1>2. t \in Seq(Entries) /\ Len(t) = Len(s) - 1 /\ \A i \in 1..Len(t) : t[i] = IF i < k THEN s[i] ELSE s[i + 1]
    BY <1>1, Without
<1> HIDE DEF t
<1>3. \A i, j \in 1..Len(s) : s[i] = s[j] => i = j
    BY DEF Ring
<1>4. \A i, j \in 1..Len(t) : t[i] = t[j] => i = j
    <2> SUFFICES ASSUME NEW i \in 1..Len(t), NEW j \in 1..Len(t), t[i] = t[j] PROVE i = j
        OBVIOUS
    <2>1. i \in 1..Len(s) /\ j \in 1..Len(s) /\ i + 1 \in 1..Len(s) /\ j + 1 \in 1..Len(s)
        BY <1>1, <1>2
    <2>2. CASE i < k
        BY <1>2, <1>3, <2>1, <2>2
    <2>3. CASE ~(i < k)
        BY <1>2, <1>3, <2>1, <2>3
    <2> QED BY <2>2, <2>3
<1>5. \A i \in 0..(Len(t) + 1) : Place(t, i) = IF i < k THEN Place(s, i) ELSE Place(s, i + 1)
    BY <1>1, <1>2 DEF Place
<1>6. ASSUME NEW i \in 0..Len(t) PROVE g[Place(t, i)] = Place(t, i + 1)
    <2>1. k - 1 \in 0..Len(s) /\ k \in 0..Len(s) /\ Place(s, k - 1) \in Node
        BY <1>1, Places
    <2>2. s[k] = Place(s, k) /\ f[s[k]] = Place(s, k + 1)
        <3>1. s[k] = Place(s, k)
            BY Places
        <3>2. f[Place(s, k)] = Place(s, k + 1)
            BY <2>1 DEF Ring
        <3> QED BY <3>1, <3>2
    <2>3. i \in 0..(Len(t) + 1) /\ i + 1 \in 0..(Len(t) + 1) /\ i \in 0..Len(s) /\ i + 1 \in 0..Len(s)
        BY <1>1, <1>2
    <2>4. CASE i = k - 1
        <3>1. Place(t, i) = Place(s, k - 1) /\ Place(t, i + 1) = Place(s, k + 1)
            BY <1>5, <2>3, <2>4
        <3> QED BY <2>1, <2>2, <3>1
    <2>5. CASE i < k /\ i # k - 1
        <3>1. Place(t, i) = Place(s, i) /\ Place(t, i + 1) = Place(s, i + 1)
            BY <1>5, <2>3, <2>5
        <3>2. Place(s, i) # Place(s, k - 1) /\ Place(s, i) \in Node
            BY <2>1, <2>3, <2>5, Places
        <3>3. f[Place(s, i)] = Place(s, i + 1)
            BY <2>3 DEF Ring
        <3> QED BY <3>1, <3>2, <3>3
    <2>6. CASE ~(i < k)
        <3>1. Place(t, i) = Place(s, i + 1) /\ Place(t, i + 1) = Place(s, (i + 1) + 1) /\ i + 1 # k - 1
            BY <1>5, <2>3, <2>6
        <3>2. Place(s, i + 1) # Place(s, k - 1) /\ Place(s, i + 1) \in Node
            BY <2>1, <2>3, <3>1, Places
        <3>3. f[Place(s, i + 1)] = Place(s, (i + 1) + 1)
            BY <2>3 DEF Ring
        <3> QED BY <3>1, <3>2, <3>3
    <2> QED BY <2>4, <2>5, <2>6
<1>7. ~In(s[k], t)
    <2> SUFFICES ASSUME NEW i \in 1..Len(t), t[i] = s[k] PROVE FALSE
        BY DEF In
    <2>1. i \in 1..Len(s) /\ i + 1 \in 1..Len(s)
        BY <1>1, <1>2
    <2> QED BY <1>2, <1>3, <2>1
<1>8. ASSUME NEW e, In(e, s) PROVE e = s[k] \/ In(e, t)
    <2>1. PICK i \in 1..Len(s) : s[i] = e
        BY <1>8 DEF In
    <2>2. CASE i < k
        <3>1. i \in 1..Len(t)
            BY <1>1, <1>2, <2>2
        <3> QED BY <1>2, <2>1, <2>2, <3>1 DEF In
    <2>3. CASE i > k
        <3>1. i - 1 \in 1..Len(t) /\ ~(i - 1 < k) /\ (i - 1) + 1 = i
            BY <1>1, <1>2, <2>3
        <3>2. t[i - 1] = e
            BY <1>2, <2>1, <3>1
        <3> QED BY <3>1, <3>2 DEF In
    <2>4. CASE i = k
        BY <2>1, <2>4
    <2> QED BY <2>2, <2>3, <2>4
<1>9. Ring(g, t)
    BY <1>2, <1>4, <1>6 DEF Ring
<1> QED BY <1>7, <1>8, <1>9 DEF t

----------------------------------------------------------------------------
(* The list is a ring at every step *)

\* Labels of a call whose entry is linked to others but not from them.
Apart == {"insertPrev", "insertHead", "appendNext", "removeSelf"}

\* Everything else is in the ring or linked to itself.
RingInv ==
    /\ Ring(next, Walk(next))
    /\ \A e \in Entries :
           \/ In(e, Walk(next))
           \/ next[e] = e
           \/ \E t \in Threads : ent[t] = e /\ pc[t] \in Apart
    /\ \A t \in Threads :
           /\ pc[t] \in Apart => ~In(ent[t], Walk(next))
           /\ pc[t] \in {"insertPrev", "insertHead"} => next[ent[t]] = next[Sentinel]
           /\ pc[t] = "appendNext" => next[ent[t]] = Sentinel

\* A step of ListSpec, or none.
ListStep ==
    \/ Walk(next') = Walk(next)
    \/ \E e \in Entries : /\ ~In(e, Walk(next))
                          /\ \/ Walk(next') = <<e>> \o Walk(next)
                             \/ Walk(next') = Append(Walk(next), e)
    \/ \E k \in 1..Len(Walk(next)) :
           Walk(next') = SubSeq(Walk(next), 1, k - 1) \o SubSeq(Walk(next), k + 1, Len(Walk(next)))

\* An entry that is linked to itself is not in the ring.
LEMMA SelfLinked ==
    ASSUME NEW f, NEW s, Ring(f, s), NEW e \in Entries, f[e] = e
    PROVE  ~In(e, s)
<1> SUFFICES ASSUME NEW i \in 1..Len(s), s[i] = e PROVE FALSE
    BY DEF In
<1>1. Len(s) \in Nat
    BY Places
<1>2. i \in 0..Len(s) /\ i \in 1..(Len(s) + 1)
    BY <1>1
<1>3. f[Place(s, i)] = Place(s, i)
    BY Places
<1>4. i = i - 1
    BY <1>2, <1>3, Before
<1> QED BY <1>1, <1>4

\* What a step of the only thread at work has to show.
LEMMA RingFrom ==
    ASSUME NEW t \in Threads, next' \in [Node -> Node], NEW s, Ring(next', s),
           \A u \in Threads : u # t => pc'[u] \notin Apart,
           \A e \in Entries : In(e, s) \/ next'[e] = e \/ (ent'[t] = e /\ pc'[t] \in Apart),
           pc'[t] \in Apart => ~In(ent'[t], s),
           pc'[t] \in {"insertPrev", "insertHead"} => next'[ent'[t]] = next'[Sentinel],
           pc'[t] = "appendNext" => next'[ent'[t]] = Sentinel
    PROVE  RingInv' /\ Walk(next') = s
<1>1. Walk(next') = s
    BY WalkOfRing
<1>2. Ring(next', Walk(next'))
    BY <1>1
<1>3. \A e \in Entries :
           \/ In(e, Walk(next'))
           \/ next'[e] = e
           \/ \E u \in Threads : ent'[u] = e /\ pc'[u] \in Apart
    BY <1>1
<1>4. \A u \in Threads :
           /\ pc'[u] \in Apart => ~In(ent'[u], Walk(next'))
           /\ pc'[u] \in {"insertPrev", "insertHead"} => next'[ent'[u]] = next'[Sentinel]
           /\ pc'[u] = "appendNext" => next'[ent'[u]] = Sentinel
    <2> SUFFICES ASSUME NEW u \in Threads, pc'[u] \in Apart
                 PROVE  /\ ~In(ent'[u], Walk(next'))
                        /\ pc'[u] \in {"insertPrev", "insertHead"} => next'[ent'[u]] = next'[Sentinel]
                        /\ pc'[u] = "appendNext" => next'[ent'[u]] = Sentinel
        BY DEF Apart
    <2>1. u = t
        OBVIOUS
    <2> QED BY <1>1, <2>1
<1> QED BY <1>1, <1>2, <1>3, <1>4 DEF RingInv

\* What a step has to show that leaves m_next alone.
LEMMA RingRests ==
    ASSUME RingInv, next' = next, NEW t \in Threads,
           \A u \in Threads : u # t => pc'[u] = pc[u] /\ ent'[u] = ent[u],
           pc[t] \notin Apart, pc'[t] \notin Apart
    PROVE  RingInv' /\ ListStep
<1>1. \A u \in Threads :
          /\ pc'[u] \in Apart => ent'[u] = ent[u] /\ pc'[u] = pc[u]
          /\ pc[u] \in Apart => ent'[u] = ent[u] /\ pc'[u] = pc[u]
    OBVIOUS
<1>2. \A u \in Threads :
           /\ pc'[u] \in Apart => ~In(ent'[u], Walk(next))
           /\ pc'[u] \in {"insertPrev", "insertHead"} => next[ent'[u]] = next[Sentinel]
           /\ pc'[u] = "appendNext" => next[ent'[u]] = Sentinel
    BY <1>1 DEF RingInv, Apart
<1>3. \A e \in Entries :
           \/ In(e, Walk(next))
           \/ next[e] = e
           \/ \E u \in Threads : ent'[u] = e /\ pc'[u] \in Apart
    BY <1>1 DEF RingInv
<1>4. Ring(next, Walk(next))
    BY DEF RingInv
<1>5. Walk(next') = Walk(next)
    OBVIOUS
<1> QED BY <1>2, <1>3, <1>4, <1>5 DEF RingInv, ListStep

LEMMA RingStep == IInv /\ IInv' /\ RingInv /\ [Next]_vars => RingInv' /\ ListStep
<1> SUFFICES ASSUME IInv, IInv', RingInv, [Next]_vars PROVE RingInv' /\ ListStep
    OBVIOUS
<1> DEFINE s == Walk(next)
<1>0. /\ next \in [Node -> Node] /\ next' \in [Node -> Node] /\ prev \in [Node -> Node]
      /\ pc \in [Threads -> {pc[t] : t \in Threads}] /\ ent \in [Threads -> Entries \cup {None}]
      /\ Ring(next, s)
    BY DEF IInv, TypeOK, RingInv
<1>a. ASSUME NEW t \in Threads, NEW l, Goto(t, l)
      PROVE  pc'[t] = l /\ \A u \in Threads : u # t => pc'[u] = pc[u]
    BY <1>0, <1>a DEF Goto
<1>b. ASSUME NEW t \in Threads, HoldsLock(t)
      PROVE  \A u \in Threads : u # t => pc[u] \notin Apart
    BY <1>b, OnlyHolder DEF Apart, MidLabels
<1>1. ASSUME NEW t \in Threads, NEW e, NEW l \in WaitLabels, Call(t, e, l)
      PROVE  RingInv' /\ ListStep
    BY <1>0, <1>1, <1>a, RingRests DEF Call, linkVars, Apart, WaitLabels
<1>2. ASSUME NEW t \in Threads, Lock(t) PROVE RingInv' /\ ListStep
    BY <1>0, <1>2, <1>a, RingRests DEF Lock, linkVars, callVars, Apart, WaitLabels, Begun
<1>3. ASSUME NEW t \in Threads, Unlock(t) PROVE RingInv' /\ ListStep
    <2>1. ret[t] \notin Apart
        BY DEF IInv, TypeOK, Apart
    <2> QED BY <1>0, <1>3, <1>a, <2>1, RingRests DEF Unlock, linkVars, Apart
<1>4. ASSUME NEW t \in Threads, Insert(t) PROVE RingInv' /\ ListStep
    <2>0. ent[t] \in Entries /\ HoldsLock(t) /\ ent'[t] = ent[t] /\ ent[t] \in Node /\ Sentinel \in Node
          /\ ent[t] # Sentinel
        BY <1>4, ListAssumption
        DEF Insert, InsertEntry, InsertPrev, InsertHead, IInv, LockInv, LinkLabels, HoldsLock, callVars,
            InsertLabels, Node
    <2>1. \A u \in Threads : u # t => pc'[u] \notin Apart
        BY <1>4, <1>a, <1>b, <2>0 DEF Insert, InsertEntry, InsertPrev, InsertHead
    <2>2. CASE InsertEntry(t)
        <3>1. next[ent[t]] = ent[t] /\ ~In(ent[t], s)
            BY <1>0, <2>0, <2>2, SelfLinked DEF InsertEntry, IInv, FreshInv, FreshLabels
        <3>2. pc'[t] = "insertPrev" /\ next' = [next EXCEPT ![ent[t]] = next[Sentinel]]
            BY <1>a, <2>2 DEF InsertEntry
        <3>3. Ring(next', s)
            <4>1. \A i \in 0..Len(s) : Place(s, i) # ent[t] /\ Place(s, i) \in Node
                BY <1>0, <2>0, <3>1, Places DEF In, Place
            <4> HIDE DEF s
            <4>2. \A i \in 0..Len(s) : next'[Place(s, i)] = next[Place(s, i)]
                BY <1>0, <3>2, <4>1
            <4>3. \A f, g : Ring(f, s) /\ (\A i \in 0..Len(s) : g[Place(s, i)] = f[Place(s, i)]) => Ring(g, s)
                BY RingSame
            <4> QED BY <1>0, <4>2, <4>3
        <3>4. \A e \in Entries : In(e, s) \/ next'[e] = e \/ e = ent[t]
            BY <1>0, <1>b, <2>0, <3>2 DEF RingInv, Node
        <3>5. next'[ent'[t]] = next'[Sentinel]
            BY <1>0, <2>0, <3>2
        <3> HIDE DEF s
        <3>a. /\ pc'[t] \in Apart /\ pc'[t] # "appendNext" /\ ~In(ent'[t], s)
              /\ \A e \in Entries : In(e, s) \/ next'[e] = e \/ (ent'[t] = e /\ pc'[t] \in Apart)
            BY <2>0, <3>1, <3>2, <3>4 DEF Apart
        <3>6. RingInv' /\ Walk(next') = s
            BY <1>0, <2>1, <3>a, <3>3, <3>5, RingFrom
        <3> QED BY <3>6 DEF ListStep, s
    <2>3. CASE InsertPrev(t)
        <3>1. next' = next /\ pc[t] = "insertPrev" /\ pc'[t] = "insertHead"
            BY <1>a, <2>3 DEF InsertPrev
        <3>2. /\ \A e \in Entries : In(e, s) \/ next[e] = e \/ e = ent[t]
              /\ next[ent[t]] = next[Sentinel] /\ ~In(ent[t], s)
            BY <1>b, <2>0, <3>1 DEF RingInv, Apart
        <3> HIDE DEF s
        <3>3. RingInv' /\ Walk(next') = s
            BY <1>0, <2>0, <2>1, <3>1, <3>2, RingFrom DEF Apart
        <3> QED BY <3>3 DEF ListStep, s
    <2>4. CASE InsertHead(t)
        <3>1. next' = [next EXCEPT ![Sentinel] = ent[t]] /\ pc[t] = "insertHead" /\ pc'[t] = "unlock"
            BY <1>a, <2>4 DEF InsertHead
        <3>2. /\ \A e \in Entries : In(e, s) \/ next[e] = e \/ e = ent[t]
              /\ next[ent[t]] = next[Sentinel] /\ ~In(ent[t], s)
            BY <1>b, <2>0, <3>1 DEF RingInv, Apart
        <3> HIDE DEF s
        <3>3. Ring(next', <<ent[t]>> \o s)
            BY <1>0, <2>0, <3>1, <3>2, RingInsert
        <3>4. \A e \in Entries : In(e, <<ent[t]>> \o s) \/ next'[e] = e
            <4>1. s \in Seq(Entries)
                BY <1>0 DEF Ring
            <4>2. /\ \A i \in 1..Len(s) : i + 1 \in 1..Len(<<ent[t]>> \o s) /\ (<<ent[t]>> \o s)[i + 1] = s[i]
                  /\ 1 \in 1..Len(<<ent[t]>> \o s) /\ (<<ent[t]>> \o s)[1] = ent[t]
                BY <2>0, <4>1
            <4>3. \A e : In(e, s) \/ e = ent[t] => In(e, <<ent[t]>> \o s)
                BY <4>2 DEF In
            <4>4. \A e \in Entries : next'[e] = next[e]
                BY <1>0, <3>1, ListAssumption DEF Node
            <4> QED BY <3>2, <4>3, <4>4
        <3>5. RingInv' /\ Walk(next') = <<ent[t]>> \o s
            BY <1>0, <2>1, <3>1, <3>3, <3>4, RingFrom DEF Apart
        <3> QED BY <2>0, <3>2, <3>5 DEF ListStep, s
    <2> QED BY <1>4, <2>2, <2>3, <2>4 DEF Insert
<1>5. ASSUME NEW t \in Threads, AppendOp(t) PROVE RingInv' /\ ListStep
    <2>0. ent[t] \in Entries /\ HoldsLock(t) /\ ent'[t] = ent[t] /\ ent[t] \in Node /\ Sentinel \in Node
          /\ ent[t] # Sentinel /\ MidInv(t)
        BY <1>5, ListAssumption
        DEF AppendOp, AppendEntry, AppendNext, AppendHead, IInv, LockInv, LinkLabels, HoldsLock, callVars,
            AppendLabels, Node, LinkInv
    <2>1. \A u \in Threads : u # t => pc'[u] \notin Apart
        BY <1>5, <1>a, <1>b, <2>0 DEF AppendOp, AppendEntry, AppendNext, AppendHead
    <2>2. CASE AppendEntry(t)
        <3>1. next[ent[t]] = ent[t] /\ ~In(ent[t], s)
            BY <1>0, <2>0, <2>2, SelfLinked DEF AppendEntry, IInv, FreshInv, FreshLabels
        <3>2. pc'[t] = "appendNext" /\ next' = [next EXCEPT ![ent[t]] = Sentinel]
            BY <1>a, <2>2 DEF AppendEntry
        <3>3. Ring(next', s)
            <4>1. \A i \in 0..Len(s) : Place(s, i) # ent[t] /\ Place(s, i) \in Node
                BY <1>0, <2>0, <3>1, Places DEF In, Place
            <4> HIDE DEF s
            <4>2. \A i \in 0..Len(s) : next'[Place(s, i)] = next[Place(s, i)]
                BY <1>0, <3>2, <4>1
            <4>3. \A f, g : Ring(f, s) /\ (\A i \in 0..Len(s) : g[Place(s, i)] = f[Place(s, i)]) => Ring(g, s)
                BY RingSame
            <4> QED BY <1>0, <4>2, <4>3
        <3>4. \A e \in Entries : In(e, s) \/ next'[e] = e \/ e = ent[t]
            BY <1>0, <1>b, <2>0, <3>2 DEF RingInv, Node
        <3>5. next'[ent'[t]] = Sentinel
            BY <1>0, <2>0, <3>2
        <3> HIDE DEF s
        <3>6. RingInv' /\ Walk(next') = s
            BY <1>0, <2>0, <2>1, <3>1, <3>2, <3>3, <3>4, <3>5, RingFrom DEF Apart
        <3> QED BY <3>6 DEF ListStep, s
    <2>3. CASE AppendNext(t)
        <3>1. next' = [next EXCEPT ![prev[ent[t]]] = ent[t]] /\ pc[t] = "appendNext" /\ pc'[t] = "appendHead"
            BY <1>a, <2>3 DEF AppendNext
        <3>2. /\ \A e \in Entries : In(e, s) \/ next[e] = e \/ e = ent[t]
              /\ next[ent[t]] = Sentinel /\ ~In(ent[t], s)
            BY <1>b, <2>0, <3>1 DEF RingInv, Apart
        <3>3. next[prev[ent[t]]] = Sentinel /\ prev[ent[t]] # ent[t] /\ prev[ent[t]] \in Node
            <4>1. /\ prev[ent[t]] = prev[Sentinel] /\ next[prev[Sentinel]] = Sentinel
                  /\ Mutual([next EXCEPT ![prev[ent[t]]] = ent[t]], [prev EXCEPT ![Sentinel] = ent[t]])
                BY <2>0, <3>1 DEF MidInv, MidLinks
            <4> QED BY <1>0, <2>0, <4>1 DEF Mutual
        <3> HIDE DEF s
        <3>4. prev[ent[t]] = Place(s, Len(s))
            <4>1. Len(s) \in Nat
                BY <1>0, Places
            <4>2. PICK i \in 0..Len(s) : prev[ent[t]] = Place(s, i)
                <5>1. prev[ent[t]] = Sentinel \/ In(prev[ent[t]], s)
                    BY <2>0, <3>2, <3>3 DEF Node
                <5>2. Sentinel = Place(s, 0) /\ 0 \in 0..Len(s)
                    BY <1>0, <4>1, Places
                <5>3. \A i \in 1..Len(s) : s[i] = Place(s, i) /\ i \in 0..Len(s)
                    BY <1>0, <4>1, Places
                <5> QED BY <5>1, <5>2, <5>3 DEF In
            <4>3. next[Place(s, i)] = Place(s, Len(s) + 1) /\ Len(s) + 1 \in 1..(Len(s) + 1)
                BY <1>0, <3>3, <4>1, <4>2, Places
            <4>4. i = (Len(s) + 1) - 1
                BY <1>0, <4>3, Before
            <4> QED BY <4>1, <4>2, <4>4
        <3>5. Ring(next', Append(s, ent[t]))
            BY <1>0, <2>0, <3>1, <3>2, <3>4, RingAppend
        <3>6. \A e \in Entries : In(e, Append(s, ent[t])) \/ next'[e] = e
            <4>1. s \in Seq(Entries)
                BY <1>0 DEF Ring
            <4>2. /\ \A i \in 1..Len(s) : i \in 1..Len(Append(s, ent[t])) /\ Append(s, ent[t])[i] = s[i]
                  /\ Len(s) + 1 \in 1..Len(Append(s, ent[t])) /\ Append(s, ent[t])[Len(s) + 1] = ent[t]
                BY <2>0, <4>1
            <4>3. \A e : In(e, s) \/ e = ent[t] => In(e, Append(s, ent[t]))
                BY <4>2 DEF In
            <4>4. ASSUME NEW e \in Entries, next[e] = e PROVE next'[e] = e
                BY <1>0, <3>1, <3>3, <4>4, ListAssumption DEF Node
            <4> QED BY <3>2, <4>3, <4>4
        <3>7. RingInv' /\ Walk(next') = Append(s, ent[t])
            BY <1>0, <2>1, <3>1, <3>5, <3>6, RingFrom DEF Apart
        <3> QED BY <2>0, <3>2, <3>7 DEF ListStep, s
    <2>4. CASE AppendHead(t)
        BY <1>0, <1>a, <2>0, <2>4, RingRests DEF AppendHead, callVars, Apart
    <2> QED BY <1>5, <2>2, <2>3, <2>4 DEF AppendOp
<1>6. ASSUME NEW t \in Threads, Remove(t) PROVE RingInv' /\ ListStep
    <2>0. ent[t] \in Entries /\ HoldsLock(t) /\ ent'[t] = ent[t] /\ ent[t] \in Node /\ Sentinel \in Node
          /\ ent[t] # Sentinel /\ MidInv(t)
        BY <1>6, ListAssumption
        DEF Remove, RemovePrev, RemoveNext, RemoveSelf, IInv, LockInv, HoldsLock, callVars,
            RemoveLabels, Node, LinkInv
    <2>1. \A u \in Threads : u # t => pc'[u] \notin Apart
        BY <1>6, <1>a, <1>b, <2>0 DEF Remove, RemovePrev, RemoveNext, RemoveSelf
    <2>2. CASE RemovePrev(t)
        BY <1>0, <1>a, <2>0, <2>2, RingRests DEF RemovePrev, callVars, Apart
    <2>3. CASE RemoveNext(t)
        <3>1. next' = [next EXCEPT ![prev[ent[t]]] = next[ent[t]]] /\ pc[t] = "removeNext" /\ pc'[t] = "removeSelf"
            BY <1>a, <2>3 DEF RemoveNext
        <3>2. \A e \in Entries : In(e, s) \/ next[e] = e
            BY <1>b, <2>0, <3>1 DEF RingInv, Apart
        <3>3. next[prev[ent[t]]] = ent[t] /\ prev[ent[t]] \in Node
            BY <1>0, <2>0, <3>1 DEF MidInv, MidLinks
        <3> HIDE DEF s
        <3>4. Len(s) \in Nat
            BY <1>0, Places
        <3>5. CASE In(ent[t], s)
            <4>1. PICK k \in 1..Len(s) : s[k] = ent[t]
                BY <3>5 DEF In
            <4>2. prev[ent[t]] = Place(s, k - 1)
                <5>1. prev[ent[t]] = Sentinel \/ In(prev[ent[t]], s)
                    BY <2>0, <3>2, <3>3, <3>5 DEF Node
                <5>2. Sentinel = Place(s, 0) /\ 0 \in 0..Len(s)
                    BY <1>0, <3>4, Places
                <5>3. \A i \in 1..Len(s) : s[i] = Place(s, i) /\ i \in 0..Len(s)
                    BY <1>0, <3>4, Places
                <5>4. PICK i \in 0..Len(s) : prev[ent[t]] = Place(s, i)
                    BY <5>1, <5>2, <5>3 DEF In
                <5>5. next[Place(s, i)] = Place(s, k) /\ k \in 1..(Len(s) + 1)
                    BY <3>3, <3>4, <4>1, <5>3, <5>4
                <5>6. i = k - 1
                    BY <1>0, <5>5, Before
                <5> QED BY <5>4, <5>6
            <4> DEFINE r == SubSeq(s, 1, k - 1) \o SubSeq(s, k + 1, Len(s))
            <4>3. Ring(next', r) /\ ~In(ent[t], r) /\ \A e : In(e, s) => e = ent[t] \/ In(e, r)
                BY <1>0, <3>1, <4>1, <4>2, RingRemove
            <4> HIDE DEF r
            <4>4. ASSUME NEW e \in Entries, e # ent[t], ~In(e, r) PROVE next'[e] = e
                <5>1. next[e] = e
                    BY <3>2, <4>3, <4>4
                <5>2. e # prev[ent[t]] /\ e \in Node
                    BY <3>3, <4>4, <5>1 DEF Node
                <5> QED BY <1>0, <3>1, <5>1, <5>2
            <4>5. RingInv' /\ Walk(next') = r
                BY <1>0, <2>0, <2>1, <3>1, <4>3, <4>4, RingFrom DEF Apart
            <4> QED BY <4>5 DEF ListStep, s, r
        <3>6. CASE ~In(ent[t], s)
            <4>1. next[ent[t]] = ent[t]
                BY <2>0, <3>2, <3>6
            <4>2. ~In(prev[ent[t]], s) /\ prev[ent[t]] # Sentinel
                <5> SUFFICES ASSUME NEW i \in 0..Len(s), prev[ent[t]] = Place(s, i) PROVE FALSE
                    <6>1. Sentinel = Place(s, 0) /\ 0 \in 0..Len(s)
                        BY <1>0, <3>4, Places
                    <6>2. \A i \in 1..Len(s) : s[i] = Place(s, i) /\ i \in 0..Len(s)
                        BY <1>0, <3>4, Places
                    <6> QED BY <6>1, <6>2 DEF In
                <5>1. ent[t] = Place(s, i + 1)
                    BY <1>0, <3>3 DEF Ring
                <5> QED BY <2>0, <3>6, <5>1 DEF Place, In
            <4>3. prev[ent[t]] = ent[t]
                BY <3>2, <3>3, <4>2 DEF Node
            <4>4. next' = next
                BY <1>0, <3>1, <4>1, <4>3
            <4>a. Ring(next', s) /\ \A e \in Entries : In(e, s) \/ next'[e] = e
                BY <1>0, <3>2, <4>4
            <4>b. ~In(ent'[t], s) /\ pc'[t] = "removeSelf"
                BY <2>0, <3>1, <3>6
            <4>5. RingInv' /\ Walk(next') = s
                BY <1>0, <2>1, <4>a, <4>b, RingFrom
            <4> QED BY <4>5 DEF ListStep, s
        <3> QED BY <3>5, <3>6
    <2>4. CASE RemoveSelf(t)
        <3>1. next' = [next EXCEPT ![ent[t]] = ent[t]] /\ pc[t] = "removeSelf" /\ pc'[t] = "unlock"
            BY <1>a, <2>4 DEF RemoveSelf
        <3>2. /\ \A e \in Entries : In(e, s) \/ next[e] = e \/ e = ent[t]
              /\ ~In(ent[t], s)
            BY <1>b, <2>0, <3>1 DEF RingInv, Apart
        <3>3. Ring(next', s)
            <4>1. \A i \in 0..Len(s) : Place(s, i) # ent[t] /\ Place(s, i) \in Node
                BY <1>0, <2>0, <3>2, Places DEF In, Place
            <4> HIDE DEF s
            <4>2. \A i \in 0..Len(s) : next'[Place(s, i)] = next[Place(s, i)]
                BY <1>0, <3>1, <4>1
            <4>3. \A f, g : Ring(f, s) /\ (\A i \in 0..Len(s) : g[Place(s, i)] = f[Place(s, i)]) => Ring(g, s)
                BY RingSame
            <4> QED BY <1>0, <4>2, <4>3
        <3>4. \A e \in Entries : In(e, s) \/ next'[e] = e
            BY <1>0, <2>0, <3>1, <3>2 DEF Node
        <3> HIDE DEF s
        <3>5. RingInv' /\ Walk(next') = s
            BY <1>0, <2>1, <3>1, <3>3, <3>4, RingFrom DEF Apart
        <3> QED BY <3>5 DEF ListStep, s
    <2> QED BY <1>6, <2>2, <2>3, <2>4 DEF Remove
<1>7. ASSUME NEW t \in Threads, ForEach(t) PROVE RingInv' /\ ListStep
    <2>1. /\ next' = next
          /\ \A u \in Threads : u # t => pc'[u] = pc[u] /\ ent'[u] = ent[u]
          /\ pc[t] \notin Apart /\ pc'[t] \notin Apart
        BY <1>0, <1>7
        DEF ForEach, EachInit, EachTest, Body, EachKeep, EachRemove, EachDone, Goto, Apart, linkVars, callVars
    <2> QED BY <2>1, RingRests
<1>8. CASE UNCHANGED vars
    <2>1. next' = next /\ pc' = pc /\ ent' = ent /\ Walk(next') = Walk(next)
        BY <1>8 DEF vars, linkVars, callVars
    <2> QED BY <2>1 DEF RingInv, ListStep
<1> QED
    BY <1>1, <1>2, <1>3, <1>4, <1>5, <1>6, <1>7, <1>8
    DEF Next, Step, NewCall, CallEach, CallInsert, CallAppend, CallRemove, WaitLabels

----------------------------------------------------------------------------
(* What a loop has yielded and still has to yield *)

InLoop(t) ==
    \/ pc[t] \in {"test", "body", "done"}
    \/ pc[t] \in RemoveLabels \cup {"lockRemove", "unlock"} /\ ret[t] # "idle"

\* A loop that started in the ring f over the entries h has yielded v, its
\* next entry is x, and the entries not yet reached still have their m_next.
Yields(h, f, v, x, link) ==
    /\ Ring(f, h)
    /\ Len(v) <= Len(h)
    /\ \A k \in 1..Len(v) : v[k] = h[k]
    /\ \A k \in (Len(v) + 1)..Len(h) : link[h[k]] = f[h[k]]
    /\ IsValid(x) <=> Len(v) < Len(h)
    /\ IsValid(x) => x = h[Len(v) + 1]

\* The entry the body is about to remove is the last one yielded.
LastOf(e, v) == Len(v) > 0 /\ e = v[Len(v)]

LoopOf(t) ==
    /\ ~InLoop(t) => visited[t] = <<>>
    /\ InLoop(t) => Yields(Walk(found[t]), found[t], visited[t], tmp[t], next)
    /\ pc[t] = "body" => LastOf(cur[t], visited[t])
    /\ InLoop(t) /\ pc[t] \in RemoveLabels \cup {"lockRemove"} => LastOf(ent[t], visited[t])

LoopInv == \A t \in Threads : LoopOf(t)

\* A loop runs under the lock.
LEMMA LoopHolds ==
    ASSUME IInv, NEW t \in Threads, InLoop(t)
    PROVE  HoldsLock(t)
BY DEF InLoop, HoldsLock, LoopLabels

\* A step of one thread does not disturb the loops of the others.
LEMMA LoopOthers ==
    ASSUME IInv, LoopInv, NEW t \in Threads, LoopOf(t)',
           \A u \in Threads : u # t =>
               /\ pc'[u] = pc[u] /\ ent'[u] = ent[u] /\ ret'[u] = ret[u] /\ cur'[u] = cur[u]
               /\ tmp'[u] = tmp[u] /\ visited'[u] = visited[u] /\ found'[u] = found[u],
           next' = next \/ HoldsLock(t)
    PROVE  LoopInv'
<1> SUFFICES ASSUME NEW u \in Threads, u # t PROVE LoopOf(u)'
    BY DEF LoopInv
<1>1. LoopOf(u) /\ InLoop(u)' = InLoop(u)
    BY DEF LoopInv, InLoop
<1>2. InLoop(u) => next' = next
    <2>1. ~(HoldsLock(t) /\ HoldsLock(u))
        BY DEF IInv, LockInv
    <2> QED BY <2>1, LoopHolds
<1> QED BY <1>1, <1>2 DEF LoopOf

LEMMA LoopStep == IInv /\ IInv' /\ RingInv /\ LoopInv /\ [Next]_vars => LoopInv'
<1> SUFFICES ASSUME IInv, IInv', RingInv, LoopInv, [Next]_vars PROVE LoopInv'
    OBVIOUS
<1>0. /\ next \in [Node -> Node] /\ prev \in [Node -> Node]
      /\ pc \in [Threads -> {pc[t] : t \in Threads}] /\ ent \in [Threads -> Entries \cup {None}]
      /\ ret \in [Threads -> {"idle", "test", "done"}]
      /\ cur \in [Threads -> Entries \cup {None}] /\ tmp \in [Threads -> Node \cup {None}]
      /\ visited \in [Threads -> Seq(Entries)] /\ found \in [Threads -> [Node -> Node]]
    BY DEF IInv, TypeOK
<1>a. ASSUME NEW t \in Threads, NEW l, Goto(t, l)
      PROVE  pc'[t] = l /\ \A u \in Threads : u # t => pc'[u] = pc[u]
    BY <1>0, <1>a DEF Goto
<1>1. ASSUME NEW t \in Threads, NEW e, NEW l \in WaitLabels, Call(t, e, l) PROVE LoopInv'
    <2>1. LoopOf(t)'
        <3>1. pc'[t] = l /\ pc[t] = "idle" /\ ret'[t] = "idle" /\ visited' = visited
            BY <1>0, <1>1, <1>a DEF Call, loopVars
        <3>2. visited[t] = <<>>
            BY <3>1 DEF LoopInv, LoopOf, InLoop, RemoveLabels
        <3> QED BY <3>1, <3>2 DEF LoopOf, InLoop, WaitLabels, RemoveLabels
    <2> QED BY <1>0, <1>1, <1>a, <2>1, LoopOthers DEF Call, linkVars, loopVars
<1>2. ASSUME NEW t \in Threads, Lock(t) PROVE LoopInv'
    <2>1. LoopOf(t)'
        <3>1. /\ pc[t] \in WaitLabels /\ pc'[t] = Begun(pc[t]) /\ next' = next
              /\ ent' = ent /\ ret' = ret /\ tmp' = tmp /\ visited' = visited /\ found' = found
            BY <1>2, <1>a DEF Lock, linkVars, callVars, loopVars
        <3>2. InLoop(t)' = InLoop(t) /\ pc'[t] # "body"
              /\ (pc'[t] \in RemoveLabels \cup {"lockRemove"} => pc[t] = "lockRemove")
            BY <3>1 DEF InLoop, WaitLabels, RemoveLabels, Begun
        <3> QED BY <3>1, <3>2 DEF LoopInv, LoopOf
    <2> QED BY <1>0, <1>2, <1>a, <2>1, LoopOthers DEF Lock, linkVars, callVars, loopVars
<1>3. ASSUME NEW t \in Threads, Unlock(t) PROVE LoopInv'
    <2>1. LoopOf(t)'
        <3>1. /\ pc[t] = "unlock" /\ pc'[t] = ret[t] /\ next' = next
              /\ ret' = ret /\ tmp' = tmp /\ visited' = visited /\ found' = found
            BY <1>3, <1>a DEF Unlock, linkVars
        <3>2. ret[t] \in {"idle", "test", "done"}
            BY <1>0
        <3>3. InLoop(t)' = InLoop(t) /\ pc'[t] \notin RemoveLabels \cup {"lockRemove", "body"}
            BY <3>1, <3>2 DEF InLoop, RemoveLabels
        <3> QED BY <3>1, <3>3 DEF LoopInv, LoopOf
    <2> QED BY <1>0, <1>3, <1>a, <2>1, LoopOthers DEF Unlock, linkVars
<1>4. ASSUME NEW t \in Threads, Insert(t) \/ AppendOp(t) PROVE LoopInv'
    <2> USE DEF Insert, InsertEntry, InsertPrev, InsertHead, AppendOp, AppendEntry, AppendNext, AppendHead
    <2>1. LoopOf(t)'
        <3>1. /\ pc[t] \in InsertLabels \cup AppendLabels
              /\ pc'[t] \in InsertLabels \cup AppendLabels \cup {"unlock"}
              /\ ret' = ret /\ visited' = visited
            BY <1>4, <1>a DEF InsertLabels, AppendLabels, callVars, loopVars
        <3>2. ret[t] = "idle"
            BY <3>1 DEF IInv, LockInv, LinkLabels
        <3>3. ~InLoop(t) /\ ~InLoop(t)' /\ pc'[t] # "body"
            BY <3>1, <3>2 DEF InLoop, InsertLabels, AppendLabels, RemoveLabels
        <3> QED BY <3>1, <3>3 DEF LoopInv, LoopOf
    <2>2. HoldsLock(t)
        BY <1>4 DEF HoldsLock, InsertLabels, AppendLabels
    <2>3. \A u \in Threads : u # t => pc'[u] = pc[u]
        BY <1>4, <1>a
    <2> QED BY <1>4, <2>1, <2>2, <2>3, LoopOthers DEF callVars, loopVars
<1>5. ASSUME NEW t \in Threads, Remove(t) PROVE LoopInv'
    <2> USE DEF Remove, RemovePrev, RemoveNext, RemoveSelf
    <2>0. /\ pc[t] \in RemoveLabels /\ pc'[t] \in RemoveLabels \cup {"unlock"}
          /\ ent' = ent /\ ret' = ret /\ cur' = cur /\ tmp' = tmp /\ visited' = visited /\ found' = found
          /\ HoldsLock(t) /\ \A u \in Threads : u # t => pc'[u] = pc[u]
        BY <1>5, <1>a DEF RemoveLabels, callVars, loopVars, HoldsLock
    <2>1. LoopOf(t)'
        <3>1. InLoop(t)' = InLoop(t) /\ pc'[t] # "body"
            BY <2>0 DEF InLoop, RemoveLabels
        <3>2. CASE ~InLoop(t)
            BY <2>0, <3>1, <3>2 DEF LoopInv, LoopOf
        <3>3. CASE InLoop(t)
            <4> DEFINE h == Walk(found[t])
                       v == visited[t]
            <4>1. Yields(h, found[t], v, tmp[t], next) /\ LastOf(ent[t], v)
                BY <2>0, <3>3 DEF LoopInv, LoopOf
            <4>2. Len(v) \in Nat
                BY <1>0
            <4> HIDE DEF h, v
            <4>3. Ring(found[t], h) /\ Len(h) \in Nat /\ Len(v) \in 1..Len(h) /\ ent[t] = h[Len(v)]
                BY <4>1, <4>2, Places DEF Yields, LastOf
            <4>4. ASSUME NEW k \in (Len(v) + 1)..Len(h) PROVE next'[h[k]] = next[h[k]]
                <5>1. k \in 1..Len(h) /\ k # Len(v) /\ k # Len(v) - 1 /\ k \in 0..Len(h) /\ Len(v) \in 1..(Len(h) + 1)
                    BY <4>2, <4>3
                <5>2. h[k] # ent[t]
                    BY <4>3, <5>1 DEF Ring
                <5>3. next[h[k]] # ent[t]
                    <6>1. next[h[k]] = found[t][h[k]]
                        BY <4>1 DEF Yields
                    <6>2. h[k] = Place(h, k) /\ ent[t] = Place(h, Len(v))
                        BY <4>3, <5>1, Places
                    <6>3. found[t][Place(h, k)] # Place(h, Len(v))
                        BY <4>3, <5>1, Before
                    <6> QED BY <6>1, <6>2, <6>3
                <5>4. CASE RemovePrev(t)
                    BY <5>4
                <5>5. CASE RemoveNext(t)
                    <6>1. next[prev[ent[t]]] = ent[t]
                        BY <5>5 DEF IInv, LinkInv, MidInv, MidLinks
                    <6> QED BY <1>0, <5>3, <5>5, <6>1
                <5>6. CASE RemoveSelf(t)
                    BY <1>0, <5>2, <5>6
                <5> QED BY <1>5, <5>4, <5>5, <5>6
            <4>5. Yields(h, found[t], v, tmp[t], next')
                BY <4>1, <4>4 DEF Yields
            <4> QED BY <2>0, <3>1, <3>3, <4>1, <4>5 DEF LoopOf, h, v
        <3> QED BY <3>2, <3>3
    <2> QED BY <2>0, <2>1, LoopOthers
<1>6. ASSUME NEW t \in Threads, EachInit(t) PROVE LoopInv'
    <2>0. /\ pc[t] = "each" /\ pc'[t] = "test" /\ next' = next /\ tmp'[t] = GetHead
          /\ visited'[t] = <<>> /\ found'[t] = next /\ ent' = ent /\ ret' = ret
          /\ \A u \in Threads : u # t => /\ pc'[u] = pc[u] /\ cur'[u] = cur[u] /\ tmp'[u] = tmp[u]
                                         /\ visited'[u] = visited[u] /\ found'[u] = found[u]
        BY <1>0, <1>6, <1>a DEF EachInit, linkVars, callVars
    <2>1. Yields(Walk(next), next, <<>>, GetHead, next)
        <3> DEFINE s == Walk(next)
        <3>1. Ring(next, s)
            BY DEF RingInv
        <3> HIDE DEF s
        <3>2. Len(s) \in Nat /\ Place(s, 0) = Sentinel /\ 0 \in 0..Len(s)
            BY <3>1, Places
        <3>3. next[Sentinel] = Place(s, 1)
            <4>1. next[Place(s, 0)] = Place(s, 0 + 1)
                BY <3>1, <3>2 DEF Ring
            <4> QED BY <3>2, <4>1
        <3>4. /\ Len(s) > 0 => IsValid(next[Sentinel]) /\ next[Sentinel] = s[1]
              /\ Len(s) = 0 => ~IsValid(next[Sentinel])
            <4>1. CASE Len(s) > 0
                <5>1. 1 \in 1..Len(s)
                    BY <3>2, <4>1
                <5> QED BY <3>1, <3>3, <4>1, <5>1, Places, ListAssumption DEF IsValid
            <4>2. CASE Len(s) = 0
                BY <3>3, <4>2 DEF Place, IsValid
            <4> QED BY <3>2, <4>1, <4>2
        <3>5. (IsValid(GetHead) <=> Len(s) > 0) /\ (IsValid(GetHead) => GetHead = s[1])
            BY <3>2, <3>4 DEF GetHead, IsValid
        <3> QED BY <3>1, <3>2, <3>5 DEF Yields, s
    <2>2. LoopOf(t)'
        BY <2>0, <2>1 DEF LoopOf, InLoop, RemoveLabels
    <2> QED BY <2>0, <2>2, LoopOthers
<1>7. ASSUME NEW t \in Threads, EachTest(t) PROVE LoopInv'
    <2> DEFINE h == Walk(found[t])
               v == visited[t]
               x == tmp[t]
    <2>0. /\ pc[t] = "test" /\ next' = next /\ found' = found /\ ent' = ent /\ ret' = ret
          /\ \A u \in Threads : u # t => /\ pc'[u] = pc[u] /\ cur'[u] = cur[u] /\ tmp'[u] = tmp[u]
                                         /\ visited'[u] = visited[u]
        BY <1>0, <1>7, <1>a DEF EachTest, linkVars, callVars
    <2>1. Yields(h, found[t], v, x, next) /\ v \in Seq(Entries) /\ Len(v) \in Nat
        BY <1>0, <2>0 DEF LoopInv, LoopOf, InLoop
    <2>2. CASE ~IsValid(x)
        <3>1. pc'[t] = "done" /\ tmp' = tmp /\ visited' = visited
            BY <1>7, <1>a, <2>2 DEF EachTest
        <3>2. LoopOf(t)'
            BY <2>0, <2>1, <3>1 DEF LoopOf, InLoop, RemoveLabels
        <3> QED BY <2>0, <3>2, LoopOthers
    <2>3. CASE IsValid(x)
        <3>1. /\ pc'[t] = "body" /\ cur'[t] = x /\ tmp'[t] = next[x] /\ visited'[t] = Append(v, x)
            BY <1>0, <1>7, <1>a, <2>3 DEF EachTest
        <3> DEFINE n == Len(v)
        <3> HIDE DEF h, v, x
        <3>2. Ring(found[t], h) /\ n < Len(h) /\ x = h[n + 1] /\ Len(h) \in Nat
            BY <2>1, <2>3, Places DEF Yields
        <3>3. n + 1 \in 1..Len(h) /\ n + 1 \in 0..Len(h) /\ n + 1 \in (n + 1)..Len(h)
            BY <2>1, <3>2
        <3>4. next[x] = Place(h, n + 2)
            <4>1. next[x] = found[t][x] /\ x = Place(h, n + 1)
                BY <2>1, <3>2, <3>3, Places DEF Yields
            <4>2. found[t][Place(h, n + 1)] = Place(h, (n + 1) + 1)
                BY <3>2, <3>3 DEF Ring
            <4>3. (n + 1) + 1 = n + 2
                BY <2>1
            <4> QED BY <4>1, <4>2, <4>3
        <3>5. x \in Entries
            BY <3>2, <3>3, Places
        <3>6. Len(Append(v, x)) = n + 1 /\ Append(v, x)[n + 1] = x /\ \A k \in 1..n : Append(v, x)[k] = v[k]
            BY <2>1, <3>5
        <3>7. (IsValid(next[x]) <=> n + 1 < Len(h)) /\ (IsValid(next[x]) => next[x] = h[(n + 1) + 1])
            <4>1. CASE n + 1 < Len(h)
                <5>1. n + 2 \in 1..Len(h) /\ (n + 1) + 1 = n + 2
                    BY <2>1, <3>2, <4>1
                <5> QED BY <3>2, <3>4, <4>1, <5>1, Places, ListAssumption DEF IsValid
            <4>2. CASE ~(n + 1 < Len(h))
                <5>1. n + 2 \notin 1..Len(h)
                    BY <2>1, <3>2, <4>2
                <5> QED BY <3>4, <4>2, <5>1 DEF Place, IsValid
            <4> QED BY <4>1, <4>2
        <3>8. \A k \in 1..(n + 1) : Append(v, x)[k] = h[k]
            <4>1. \A k \in 1..(n + 1) : k \in 1..n \/ k = n + 1
                BY <2>1
            <4> QED BY <2>1, <3>2, <3>6, <4>1 DEF Yields
        <3>9. \A k \in ((n + 1) + 1)..Len(h) : next[h[k]] = found[t][h[k]]
            <4>1. \A k \in ((n + 1) + 1)..Len(h) : k \in (n + 1)..Len(h)
                BY <2>1
            <4> QED BY <2>1, <4>1 DEF Yields
        <3>10. Yields(h, found[t], Append(v, x), next[x], next)
            BY <2>1, <3>2, <3>6, <3>7, <3>8, <3>9 DEF Yields
        <3>11. LastOf(x, Append(v, x))
            BY <2>1, <3>6 DEF LastOf
        <3>12. LoopOf(t)'
            BY <2>0, <3>1, <3>10, <3>11 DEF LoopOf, InLoop, RemoveLabels, h
        <3> QED BY <2>0, <3>12, LoopOthers
    <2> QED BY <2>2, <2>3
<1>8. ASSUME NEW t \in Threads, Body(t) PROVE LoopInv'
    <2>1. /\ pc[t] = "body" /\ next' = next /\ tmp' = tmp /\ visited' = visited /\ found' = found
          /\ \A u \in Threads : u # t => pc'[u] = pc[u] /\ cur'[u] = cur[u] /\ ent'[u] = ent[u] /\ ret'[u] = ret[u]
        BY <1>0, <1>8, <1>a DEF Body, EachKeep, EachRemove, linkVars, callVars, loopVars
    <2>2. \/ pc'[t] \in {"test", "done"}
          \/ pc'[t] \in {"remove", "lockRemove"} /\ ret'[t] # "idle" /\ ent'[t] = cur[t]
        BY <1>0, <1>8, <1>a DEF Body, EachKeep, EachRemove
    <2>3. InLoop(t) /\ InLoop(t)' /\ pc'[t] # "body"
        BY <2>1, <2>2 DEF InLoop, RemoveLabels
    <2>4. LoopOf(t)'
        BY <2>1, <2>2, <2>3 DEF LoopInv, LoopOf, RemoveLabels
    <2> QED BY <2>1, <2>4, LoopOthers
<1>9. ASSUME NEW t \in Threads, EachDone(t) PROVE LoopInv'
    <2>1. /\ pc'[t] = "idle" /\ next' = next /\ visited'[t] = <<>> /\ ent' = ent /\ ret' = ret /\ cur' = cur
          /\ \A u \in Threads : u # t => /\ pc'[u] = pc[u] /\ tmp'[u] = tmp[u]
                                         /\ visited'[u] = visited[u] /\ found'[u] = found[u]
        BY <1>0, <1>9, <1>a DEF EachDone, linkVars, callVars
    <2>2. LoopOf(t)'
        BY <2>1 DEF LoopOf, InLoop, RemoveLabels
    <2> QED BY <2>1, <2>2, LoopOthers
<1>10. CASE UNCHANGED vars
    BY <1>10 DEF vars, linkVars, callVars, loopVars, LoopInv, LoopOf, InLoop
<1> QED
    BY <1>1, <1>2, <1>3, <1>4, <1>5, <1>6, <1>7, <1>8, <1>9, <1>10
    DEF Next, Step, NewCall, CallEach, CallInsert, CallAppend, CallRemove, WaitLabels, ForEach

----------------------------------------------------------------------------
\* Lists start empty, and nobody is in a loop.
LEMMA InitRing == Init => RingInv /\ LoopInv /\ Walk(next) = <<>>
<1> SUFFICES ASSUME Init PROVE RingInv /\ LoopInv /\ Walk(next) = <<>>
    OBVIOUS
<1>1. next \in [Node -> Node] /\ (\A n \in Node : next[n] = n) /\ Sentinel \in Node
    BY DEF Init, Unlinked, Node
<1>2. Ring(next, <<>>)
    <2>1. <<>> \in Seq(Entries) /\ Len(<<>>) = 0
        OBVIOUS
    <2>2. \A i : Place(<<>>, i) = Sentinel
        BY <2>1 DEF Place
    <2> QED BY <1>1, <2>1, <2>2 DEF Ring
<1>3. Walk(next) = <<>>
    BY <1>1, <1>2, WalkOfRing
<1>4. RingInv
    BY <1>1, <1>2, <1>3 DEF RingInv, Init, Apart, Node
<1>5. LoopInv
    BY DEF LoopInv, LoopOf, InLoop, RemoveLabels, Init
<1> QED BY <1>3, <1>4, <1>5

\* The m_next pointers are one ring at every step, and a loop follows it.
THEOREM ListRing == Spec => [](IInv /\ RingInv /\ LoopInv)
<1> DEFINE J == IInv /\ RingInv /\ LoopInv
<1>1. Init => J
    BY InitInv, InitRing
<1>2. J /\ [Next]_vars => J'
    <2>1. IInv /\ [Next]_vars => IInv'
        BY TypeStep, LockStep, FreshStep, LinkStep DEF IInv
    <2> QED BY <2>1, RingStep, LoopStep
<1> HIDE DEF J
<1>3. Spec => []J
    BY <1>1, <1>2, PTL DEF Spec
<1> QED BY <1>3 DEF J

\* PTP_LIST_FOREACH yields what the list held when it took the lock, in order,
\* and all of it unless its body breaks out, although the body removes entries.
THEOREM ListEachYieldsAll == Spec => []EachYieldsAll
<1>1. IInv /\ RingInv /\ LoopInv => EachYieldsAll
    <2> SUFFICES ASSUME IInv, LoopInv, NEW t \in Threads
                 PROVE  LET held == Walk(found[t])
                        IN  /\ \A k \in 1..Len(visited[t]) : k <= Len(held) /\ visited[t][k] = held[k]
                            /\ pc[t] = "test" /\ ~IsValid(tmp[t]) => visited[t] = held
        BY DEF EachYieldsAll
    <2> DEFINE h == Walk(found[t])
               v == visited[t]
    <2>1. v \in Seq(Entries) /\ Len(v) \in Nat
        BY DEF IInv, TypeOK
    <2>2. CASE ~InLoop(t)
        <3>1. v = <<>> /\ pc[t] # "test"
            BY <2>2 DEF LoopInv, LoopOf, InLoop
        <3> QED BY <3>1
    <2>3. CASE InLoop(t)
        <3>1. Yields(h, found[t], v, tmp[t], next)
            BY <2>3 DEF LoopInv, LoopOf
        <3> HIDE DEF h, v
        <3>2. h \in Seq(Entries) /\ Len(h) \in Nat
            BY <3>1, Places DEF Yields
        <3>3. \A k \in 1..Len(v) : k <= Len(h) /\ v[k] = h[k]
            BY <2>1, <3>1, <3>2 DEF Yields
        <3>4. ~IsValid(tmp[t]) => v = h
            <4> SUFFICES ASSUME ~IsValid(tmp[t]) PROVE v = h
                OBVIOUS
            <4>1. Len(v) = Len(h)
                BY <2>1, <3>1, <3>2 DEF Yields
            <4>2. v = [k \in 1..Len(v) |-> v[k]] /\ h = [k \in 1..Len(h) |-> h[k]]
                BY <2>1, <3>2
            <4> QED BY <3>3, <4>1, <4>2
        <3> QED BY <3>3, <3>4 DEF h, v
    <2> QED BY <2>2, <2>3
<1> QED BY ListRing, <1>1, PTL

\* PTP::List is a double-ended sequence on which every call acts atomically:
\* each step of a thread is one step of ListSpec on the entries, or none.
THEOREM ListRefines == Spec => ListRefined
<1>1. Init => Abs!Init
    BY InitRing DEF Abs!Init
<1>2. (IInv /\ RingInv /\ LoopInv) /\ (IInv /\ RingInv /\ LoopInv)' /\ [Next]_vars => [Abs!Next]_(Walk(next))
    <2> SUFFICES ASSUME IInv, IInv', RingInv, [Next]_vars PROVE [Abs!Next]_(Walk(next))
        OBVIOUS
    <2>1. ListStep
        BY RingStep
    <2>2. \A e : In(e, Walk(next)) <=> Abs!Holds(e)
        BY DEF In, Abs!Holds
    <2> QED BY <2>1, <2>2 DEF ListStep, Abs!Next, Abs!Insert, Abs!AppendEntry, Abs!Remove
<1> QED BY ListRing, <1>1, <1>2, PTL DEF Spec, ListRefined, Abs!Spec
============================================================================

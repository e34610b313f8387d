------------------------------ MODULE PtpList ------------------------------
(***************************************************************************)
(* PTP::List (ptp/list.cpp, ptp/include/ptp/list.h): the circular doubly   *)
(* linked list, with its recursive lock, that every other part of PTP and  *)
(* of its samples keeps its state in.  Threads call Insert, Append and     *)
(* Remove, and iterate with PTP_LIST_FOREACH under Lock; each assignment   *)
(* to a pointer another entry can see is a step of its own.                *)
(*                                                                         *)
(* What the callers in the repository do, and the guards below assume:     *)
(* an entry is linked only while it is in no list and only its creator     *)
(* holds a pointer to it; Remove is called on linked entries and again on  *)
(* entries already removed (ptp/test.cpp 398-400), also by two threads at  *)
(* once; inside the loop only the current entry is removed.                *)
(***************************************************************************)
EXTENDS Mutex, Sequences, FiniteSets

CONSTANTS
    Entries,   \* the objects that derive from List::Entry
    Sentinel,      \* the sentinel m_head
    MaxCalls   \* bound: calls each thread makes

ASSUME ListAssumption ==
    /\ IsFiniteSet(Entries)
    /\ Sentinel \notin Entries
    /\ None \notin Entries \cup {Sentinel}
    /\ MaxCalls \in Nat

Node == Entries \cup {Sentinel}

\* The pointers List::Entry's constructor sets: every entry its own neighbour.
Unlinked == [n \in Node |-> n]

VARIABLES
    next,      \* m_next of every entry and of the sentinel
    prev,      \* m_prev
    pc,        \* where each thread is
    ent,       \* the entry argument of its Insert, Append or Remove
    lk,        \* the lock argument of that call
    ret,       \* where the call returns to
    cur,       \* the iterator of its PTP_LIST_FOREACH
    tmp,       \* the __tmp_ pointer of the loop: the next entry, read early
    visited,   \* history: the entries the loop has yielded
    found,     \* history: the m_next pointers when the loop started
    calls      \* calls made so far

linkVars == <<next, prev>>
callVars == <<ent, lk, ret>>
loopVars == <<cur, tmp, visited, found>>
vars == <<owner, depth, linkVars, pc, callVars, loopVars, calls>>

InsertLabels == {"insert", "insertPrev", "insertHead"}
AppendLabels == {"append", "appendNext", "appendHead"}
RemoveLabels == {"remove", "removeNext", "removeSelf"}
LoopLabels == {"each", "test", "body", "done"}
WaitLabels == {"lockInsert", "lockAppend", "lockRemove", "lockEach"}

TypeOK ==
    /\ MutexTypeOK
    /\ next \in [Node -> Node]
    /\ prev \in [Node -> Node]
    /\ pc \in [Threads -> {"idle", "unlock"} \cup WaitLabels \cup InsertLabels
                          \cup AppendLabels \cup RemoveLabels \cup LoopLabels]
    /\ ent \in [Threads -> Entries \cup {None}]
    /\ lk \in [Threads -> BOOLEAN]
    /\ ret \in [Threads -> {"idle", "test", "done"}]
    /\ cur \in [Threads -> Entries \cup {None}]
    /\ tmp \in [Threads -> Node \cup {None}]
    /\ visited \in [Threads -> Seq(Entries)]
    /\ found \in [Threads -> [Node -> Node]]
    /\ calls \in [Threads -> Nat]

----------------------------------------------------------------------------
(* What the list holds, read off a copy of the m_next pointers.        *)

Walk(link) ==
    LET at[k \in 0..Cardinality(Entries)] == IF k = 0 THEN Sentinel ELSE link[at[k - 1]]
        inside == {k \in 1..Cardinality(Entries) : \A j \in 1..k : at[j] # Sentinel}
    IN  [k \in 1..Cardinality(inside) |-> at[k]]

InList(e) == next[e] # e

\* A pointer to e is in the hands of some thread's call or loop.
InUse(e) == \E t \in Threads : ent[t] = e \/ cur[t] = e

Linking(e) ==
    \E t \in Threads :
        /\ ent[t] = e
        /\ pc[t] \in InsertLabels \cup AppendLabels \cup {"lockInsert", "lockAppend"}

Init ==
    /\ MutexInit
    /\ next = Unlinked
    /\ prev = Unlinked
    /\ pc = [t \in Threads |-> "idle"]
    /\ ent = [t \in Threads |-> None]
    /\ lk = [t \in Threads |-> FALSE]
    /\ ret = [t \in Threads |-> "idle"]
    /\ cur = [t \in Threads |-> None]
    /\ tmp = [t \in Threads |-> None]
    /\ visited = [t \in Threads |-> <<>>]
    /\ found = [t \in Threads |-> Unlinked]
    /\ calls = [t \in Threads |-> 0]

Goto(t, label) == pc' = [pc EXCEPT ![t] = label]

----------------------------------------------------------------------------
(* Calls *)

Call(t, e, label) ==
    /\ pc[t] = "idle"
    /\ calls[t] < MaxCalls
    /\ calls' = [calls EXCEPT ![t] = @ + 1]
    /\ ent' = [ent EXCEPT ![t] = e]
    /\ lk' = [lk EXCEPT ![t] = TRUE]
    /\ ret' = [ret EXCEPT ![t] = "idle"]
    /\ Goto(t, label)
    /\ UNCHANGED <<mutexVars, linkVars, loopVars>>

CallInsert(t, e) ==
    /\ ~InList(e)
    /\ ~InUse(e)
    /\ Call(t, e, "lockInsert")

CallAppend(t, e) ==
    /\ ~InList(e)
    /\ ~InUse(e)
    /\ Call(t, e, "lockAppend")

CallRemove(t, e) ==
    /\ ~Linking(e)
    /\ Call(t, e, "lockRemove")

CallEach(t) == Call(t, None, "lockEach")

Begun(label) ==
    IF label = "lockInsert" THEN "insert"
    ELSE IF label = "lockAppend" THEN "append"
    ELSE IF label = "lockRemove" THEN "remove"
    ELSE "each"

Lock(t) ==
    /\ pc[t] \in WaitLabels
    /\ MutexLock(t)
    /\ Goto(t, Begun(pc[t]))
    /\ UNCHANGED <<linkVars, callVars, loopVars, calls>>

Unlock(t) ==
    /\ pc[t] = "unlock"
    /\ IF lk[t] THEN MutexUnlock(t) ELSE UNCHANGED mutexVars
    /\ Goto(t, ret[t])
    /\ cur' = [cur EXCEPT ![t] = None]
    /\ ent' = [ent EXCEPT ![t] = None]
    /\ UNCHANGED <<linkVars, lk, ret, tmp, visited, found, calls>>

----------------------------------------------------------------------------
(* Insert: the two pointers of the new entry, its successor, the sentinel. *)

InsertEntry(t) ==
    /\ pc[t] = "insert"
    /\ next' = [next EXCEPT ![ent[t]] = next[Sentinel]]
    /\ prev' = [prev EXCEPT ![ent[t]] = Sentinel]
    /\ Goto(t, "insertPrev")
    /\ UNCHANGED <<mutexVars, callVars, loopVars, calls>>

\* Mutant: next->m_prev keeps pointing at the sentinel.
InsertPrevForgotten(t) ==
    /\ pc[t] = "insertPrev"
    /\ Goto(t, "insertHead")
    /\ UNCHANGED <<linkVars, mutexVars, callVars, loopVars, calls>>

InsertPrev(t) ==
    /\ pc[t] = "insertPrev"
    /\ prev' = [prev EXCEPT ![next[ent[t]]] = ent[t]]
    /\ Goto(t, "insertHead")
    /\ UNCHANGED <<next, mutexVars, callVars, loopVars, calls>>

InsertHead(t) ==
    /\ pc[t] = "insertHead"
    /\ next' = [next EXCEPT ![Sentinel] = ent[t]]
    /\ Goto(t, "unlock")
    /\ UNCHANGED <<prev, mutexVars, callVars, loopVars, calls>>

(* Append: the mirror image. *)

AppendEntry(t) ==
    /\ pc[t] = "append"
    /\ next' = [next EXCEPT ![ent[t]] = Sentinel]
    /\ prev' = [prev EXCEPT ![ent[t]] = prev[Sentinel]]
    /\ Goto(t, "appendNext")
    /\ UNCHANGED <<mutexVars, callVars, loopVars, calls>>

\* Mutant: the entry is linked behind the sentinel, at the head.
AppendNextAtHead(t) ==
    /\ pc[t] = "appendNext"
    /\ next' = [next EXCEPT ![ent[t]] = next[Sentinel], ![Sentinel] = ent[t]]
    /\ Goto(t, "appendHead")
    /\ UNCHANGED <<prev, mutexVars, callVars, loopVars, calls>>

AppendNext(t) ==
    /\ pc[t] = "appendNext"
    /\ next' = [next EXCEPT ![prev[ent[t]]] = ent[t]]
    /\ Goto(t, "appendHead")
    /\ UNCHANGED <<prev, mutexVars, callVars, loopVars, calls>>

AppendHead(t) ==
    /\ pc[t] = "appendHead"
    /\ prev' = [prev EXCEPT ![Sentinel] = ent[t]]
    /\ Goto(t, "unlock")
    /\ UNCHANGED <<next, mutexVars, callVars, loopVars, calls>>

(* Remove: close the gap from both sides, then link the entry to itself,   *)
(* which makes a second Remove of it a no-op.                              *)

RemovePrev(t) ==
    /\ pc[t] = "remove"
    /\ prev' = [prev EXCEPT ![next[ent[t]]] = prev[ent[t]]]
    /\ Goto(t, "removeNext")
    /\ UNCHANGED <<next, mutexVars, callVars, loopVars, calls>>

RemoveNext(t) ==
    /\ pc[t] = "removeNext"
    /\ next' = [next EXCEPT ![prev[ent[t]]] = next[ent[t]]]
    /\ Goto(t, "removeSelf")
    /\ UNCHANGED <<prev, mutexVars, callVars, loopVars, calls>>

RemoveSelf(t) ==
    /\ pc[t] = "removeSelf"
    /\ next' = [next EXCEPT ![ent[t]] = ent[t]]
    /\ prev' = [prev EXCEPT ![ent[t]] = ent[t]]
    /\ Goto(t, "unlock")
    /\ UNCHANGED <<mutexVars, callVars, loopVars, calls>>

----------------------------------------------------------------------------
(* list.Lock(); PTP_LIST_FOREACH(type, cur, &list) { body } list.Unlock()  *)

IsValid(n) == n \notin {None, Sentinel}

GetHead == IF IsValid(next[Sentinel]) THEN next[Sentinel] ELSE None

EachInit(t) ==
    /\ pc[t] = "each"
    /\ tmp' = [tmp EXCEPT ![t] = GetHead]
    /\ cur' = [cur EXCEPT ![t] = None]
    /\ visited' = [visited EXCEPT ![t] = <<>>]
    /\ found' = [found EXCEPT ![t] = next]
    /\ Goto(t, "test")
    /\ UNCHANGED <<mutexVars, linkVars, callVars, calls>>

\* Mutant: the next entry is read after the body has run, from an entry that
\* the body may have removed and thereby linked to itself.
EachTestLate(t) ==
    /\ pc[t] = "test"
    /\ LET n == IF visited[t] = <<>> THEN tmp[t] ELSE next[visited[t][Len(visited[t])]]
       IN  IF IsValid(n)
           THEN /\ cur' = [cur EXCEPT ![t] = n]
                /\ tmp' = [tmp EXCEPT ![t] = next[n]]
                /\ visited' = [visited EXCEPT ![t] = Append(@, n)]
                /\ Goto(t, "body")
           ELSE /\ Goto(t, "done")
                /\ UNCHANGED <<cur, tmp, visited>>
    /\ UNCHANGED <<mutexVars, linkVars, callVars, found, calls>>

EachTest(t) ==
    /\ pc[t] = "test"
    /\ IF IsValid(tmp[t])
       THEN /\ cur' = [cur EXCEPT ![t] = tmp[t]]
            /\ tmp' = [tmp EXCEPT ![t] = next[tmp[t]]]
            /\ visited' = [visited EXCEPT ![t] = Append(@, tmp[t])]
            /\ Goto(t, "body")
       ELSE /\ Goto(t, "done")
            /\ UNCHANGED <<cur, tmp, visited>>
    /\ UNCHANGED <<mutexVars, linkVars, callVars, found, calls>>

\* The body leaves the entry alone and goes on, or breaks out of the loop.
EachKeep(t, to) ==
    /\ pc[t] = "body"
    /\ Goto(t, to)
    /\ cur' = [cur EXCEPT ![t] = None]
    /\ UNCHANGED <<mutexVars, linkVars, callVars, tmp, visited, found, calls>>

\* The body calls Remove(cur, lock), then goes on or breaks out.
EachRemove(t, lock, to) ==
    /\ pc[t] = "body"
    /\ ent' = [ent EXCEPT ![t] = cur[t]]
    /\ lk' = [lk EXCEPT ![t] = lock]
    /\ ret' = [ret EXCEPT ![t] = to]
    /\ Goto(t, IF lock THEN "lockRemove" ELSE "remove")
    /\ UNCHANGED <<mutexVars, linkVars, loopVars, calls>>

EachDone(t) ==
    /\ pc[t] = "done"
    /\ MutexUnlock(t)
    /\ Goto(t, "idle")
    /\ tmp' = [tmp EXCEPT ![t] = None]
    /\ visited' = [visited EXCEPT ![t] = <<>>]
    /\ found' = [found EXCEPT ![t] = Unlinked]
    /\ UNCHANGED <<linkVars, callVars, cur, calls>>

----------------------------------------------------------------------------
Insert(t) == InsertEntry(t) \/ InsertPrev(t) \/ InsertHead(t)
AppendOp(t) == AppendEntry(t) \/ AppendNext(t) \/ AppendHead(t)
Remove(t) == RemovePrev(t) \/ RemoveNext(t) \/ RemoveSelf(t)

Body(t) ==
    \E to \in {"test", "done"} :
        EachKeep(t, to) \/ \E lock \in BOOLEAN : EachRemove(t, lock, to)

ForEach(t) == EachInit(t) \/ EachTest(t) \/ Body(t) \/ EachDone(t)

Step(t) == Lock(t) \/ Unlock(t) \/ Insert(t) \/ AppendOp(t) \/ Remove(t) \/ ForEach(t)

NewCall(t) ==
    \/ CallEach(t)
    \/ \E e \in Entries : CallInsert(t, e) \/ CallAppend(t, e) \/ CallRemove(t, e)

Next == \E t \in Threads : Step(t) \/ NewCall(t)

\* A thread that can run is run: pthreads and Win32 threads are preemptive,
\* and with MaxCalls calls each nobody holds the mutex for ever by re-taking it.
Fairness == \A t \in Threads : WF_vars(Step(t))

Spec == Init /\ [][Next]_vars

FairSpec == Spec /\ Fairness

----------------------------------------------------------------------------
(* Properties *)

\* m_next and m_prev are inverse to each other whenever the lock is free: no
\* interleaving of Insert, Append, Remove and removing loops breaks the links.
LinksInverse ==
    owner = None => \A n \in Node : prev[next[n]] = n /\ next[prev[n]] = n

\* PTP_LIST_FOREACH yields what the list held when the lock was taken, in
\* order and once each, although its body removes entries as it goes; a loop
\* that was not left with break has yielded all of it.
EachYieldsAll ==
    \A t \in Threads :
        LET held == Walk(found[t])
        IN  /\ \A k \in 1..Len(visited[t]) : k <= Len(held) /\ visited[t][k] = held[k]
            /\ pc[t] = "test" /\ ~IsValid(tmp[t]) => visited[t] = held

\* Every call returns: the lock is recursive, so a loop that calls Remove with
\* locking does not wait for itself, and it is released as often as it is taken.
CallsReturn == \A t \in Threads : pc[t] # "idle" ~> pc[t] = "idle"

\* The list is a double-ended sequence on which every call acts atomically.
Abs == INSTANCE ListSpec WITH list <- Walk(next)

ListRefined == Abs!Spec

============================================================================

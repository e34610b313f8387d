------------------------------ MODULE TrutGroup ------------------------------
(***************************************************************************)
(* Joining a secure group in Trutella (samples/trutella/trut.cpp).  A peer *)
(* that joins searches its neighbours for the group's key, sleeps, and     *)
(* makes a new key if nobody has answered; an answer that does come is     *)
(* followed by a Get of the key, after which the joiner has and shares the *)
(* key too.  One group name; the collections hold nothing but its keys.    *)
(*                                                                         *)
(* Of each peer three kinds of threads run: the user's (JoinGroup,         *)
(* LeaveGroup), a host thread per neighbour (searches, answers, the start  *)
(* of a Get) and a get thread per Get.  They share the group's m_key and   *)
(* m_responses without a lock.  The user's thread frees the group in       *)
(* LeaveGroup while the other two may still hold its address.              *)
(***************************************************************************)
EXTENDS Naturals, Sequences, FiniteSets

SX == INSTANCE SequencesExt

CONSTANTS
    Peers,
    MaxJoins,     \* bound: calls of JoinGroup
    MaxRestarts   \* bound: peers that end and start again

ASSUME GroupAssumption ==
    /\ MaxJoins \in Nat
    /\ MaxRestarts \in Nat

VARIABLES
    group,      \* the group's address, a new one each time; 0: no such group
    key,        \* m_key; keys are numbered as they are made; 0: NULL
    responses,  \* m_responses
    told,       \* the last status its join callback got; "none": not called
    pc,         \* the user's thread in JoinGroup
    guid,       \* the m_guid of its last search
    entries,    \* m_collect: the keys shared, by entry number
    searches,   \* m_searches
    net,        \* net[p][q]: packets from p to q
    work,       \* work[p][q]: p's host thread for q and the answer it handles
    gets,       \* m_gets: the Gets whose data is on its way
    joins, made, restarts,
    smooth      \* history: see Agreement

vars == <<group, key, responses, told, pc, guid, entries, searches, net, work, gets, joins,
          made, restarts, smooth>>

Keys == 1..made
Rqst == [type : {"rqst"}, guid : Nat]
Resp == [type : {"resp"}, guid : Nat, refs : Seq(Nat)]
Idle == [stage |-> "idle", group |-> 0, refs |-> <<>>]

TypeOK ==
    /\ group \in [Peers -> Nat]
    /\ key \in [Peers -> Keys \cup {0}]
    /\ responses \in [Peers -> Nat]
    /\ told \in [Peers -> {"none", "OK", "CREATED", "ERROR"}]
    /\ pc \in [Peers -> {"idle", "search", "sleep", "stop", "create"}]
    /\ guid \in [Peers -> Nat]
    /\ entries \in [Peers -> Seq(Keys)]
    /\ searches \in [Peers -> SUBSET [guid : Nat, group : Nat]]
    /\ net \in [Peers -> [Peers -> Seq(Rqst \cup Resp)]]
    /\ work \in [Peers -> [Peers -> [stage : {"idle", "scan", "get"}, group : Nat, refs : Seq(Nat)]]]
    /\ gets \in [Peers -> SUBSET [from : Peers, ref : Nat, key : Keys, group : Nat]]
    /\ joins \in 0..MaxJoins
    /\ made \in Nat
    /\ restarts \in 0..MaxRestarts
    /\ smooth \in BOOLEAN

Init ==
    /\ group = [p \in Peers |-> 0]
    /\ key = [p \in Peers |-> 0]
    /\ responses = [p \in Peers |-> 0]
    /\ told = [p \in Peers |-> "none"]
    /\ pc = [p \in Peers |-> "idle"]
    /\ guid = [p \in Peers |-> 0]
    /\ entries = [p \in Peers |-> <<>>]
    /\ searches = [p \in Peers |-> {}]
    /\ net = [p \in Peers |-> [q \in Peers |-> <<>>]]
    /\ work = [p \in Peers |-> [q \in Peers |-> Idle]]
    /\ gets = [p \in Peers |-> {}]
    /\ joins = 0
    /\ made = 0
    /\ restarts = 0
    /\ smooth = TRUE

Goto(p, label) == pc' = [pc EXCEPT ![p] = label]
Tell(p, status) == told' = [told EXCEPT ![p] = status]

\* p's last search is still on its way to q, its answer on the way back, or in
\* the hands of the host thread that has not counted it yet.
Outstanding(p, q) ==
    \/ \E i \in DOMAIN net[p][q] : net[p][q][i].type = "rqst" /\ net[p][q][i].guid = guid[p]
    \/ \E i \in DOMAIN net[q][p] : net[q][p][i].type = "resp" /\ net[q][p][i].guid = guid[p]
    \/ work[p][q].stage = "scan"

\* A join of p is not over: also one that has returned with an error may still be
\* given the key by an answer that comes later.
Busy(p) ==
    \/ pc[p] # "idle"
    \/ gets[p] # {}
    \/ \E q \in Peers : work[p][q] # Idle \/ (key[p] = 0 /\ Outstanding(p, q))

----------------------------------------------------------------------------
(* JoinGroup and LeaveGroup *)

\* With a group that has no key JoinGroup goes straight to its callback.
JoinCall(p) ==
    /\ pc[p] = "idle"
    /\ joins < MaxJoins
    /\ joins' = joins + 1
    /\ IF group[p] = 0 \/ key[p] # 0
       THEN /\ group' = [group EXCEPT ![p] = IF @ = 0 THEN joins' ELSE @]
            /\ responses' = [responses EXCEPT ![p] = 0]
            /\ guid' = [guid EXCEPT ![p] = joins']
            /\ Tell(p, "none")
            /\ Goto(p, "search")
       ELSE /\ Tell(p, "OK")
            /\ UNCHANGED <<group, responses, guid, pc>>
    /\ UNCHANGED <<key, entries, searches, net, work, gets, made, restarts, smooth>>

\* Search(keyname, FindKey, group, NULL)
JoinSearch(p) ==
    /\ pc[p] = "search"
    /\ searches' = [searches EXCEPT ![p] = @ \cup {[guid |-> guid[p], group |-> group[p]]}]
    /\ net' = [net EXCEPT ![p] = [q \in Peers |->
                  IF q = p THEN @[q] ELSE Append(@[q], [type |-> "rqst", guid |-> guid[p]])]]
    /\ Goto(p, "sleep")
    /\ smooth' = (smooth /\ \A q \in Peers \ {p} : ~Busy(q))
    /\ UNCHANGED <<group, key, responses, told, guid, entries, work, gets, joins, made,
                   restarts>>

\* Mutant: no answers are taken for one.
JoinWakeOffByOne(p) ==
    /\ pc[p] = "sleep"
    /\ Goto(p, IF key[p] # 0 \/ responses[p] >= 0 THEN "idle" ELSE "stop")
    /\ UNCHANGED <<group, key, responses, told, guid, entries, searches, net, work, gets,
                   joins, made, restarts, smooth>>

\* Sleep(wait) is over.  With an answer the callback is left to FetchKey.
JoinWake(p) ==
    /\ pc[p] = "sleep"
    /\ IF key[p] # 0 \/ responses[p] > 0
       THEN /\ Goto(p, "idle")
            /\ UNCHANGED smooth
       ELSE /\ Goto(p, "stop")
            /\ smooth' = (smooth /\ \A q \in Peers \ {p} : ~Outstanding(p, q))
    /\ UNCHANGED <<group, key, responses, told, guid, entries, searches, net, work, gets,
                   joins, made, restarts>>

\* SearchStop(group)
JoinStop(p) ==
    /\ pc[p] = "stop"
    /\ searches' = [searches EXCEPT ![p] = {s \in @ : s.group # group[p]}]
    /\ Goto(p, "create")
    /\ UNCHANGED <<group, key, responses, told, guid, entries, net, work, gets, joins, made,
                   restarts, smooth>>

\* A new key, its entry in the collection and the callback.
JoinCreate(p) ==
    /\ pc[p] = "create"
    /\ made' = made + 1
    /\ key' = [key EXCEPT ![p] = made']
    /\ entries' = [entries EXCEPT ![p] = Append(@, made')]
    /\ Tell(p, "CREATED")
    /\ Goto(p, "idle")
    /\ UNCHANGED <<group, responses, guid, searches, net, work, gets, joins, restarts,
                   smooth>>

\* LeaveGroup(group): the caller has the group from its callback.  Neither the
\* searches nor the Gets of the group are stopped, nor is its key unshared.
Leave(p) ==
    /\ pc[p] = "idle"
    /\ told[p] # "none"
    /\ group' = [group EXCEPT ![p] = 0]
    /\ key' = [key EXCEPT ![p] = 0]
    /\ responses' = [responses EXCEPT ![p] = 0]
    /\ Tell(p, "none")
    /\ smooth' = FALSE
    /\ UNCHANGED <<pc, guid, entries, searches, net, work, gets, joins, made, restarts>>

----------------------------------------------------------------------------
(* The host thread of p for its neighbour q *)

\* ReceiveGnutella returns the first packet; n packets behind it that the same
\* Read has taken are lost.  They are also copied behind the end of the packet's
\* memory: what else this destroys is left out, that the process may die of it is
\* Restart.
ReceiveGnutella(packets, n) == SubSeq(packets, 2 + n, Len(packets))

\* HandleSearchRequest: the answer names every key shared, the latest first,
\* whether or not p is still a member.  No answer without one.
HandleSearchRequest(p, rqst) ==
    IF entries[p] = <<>> THEN <<>>
    ELSE <<[type |-> "resp", guid |-> rqst.guid,
            refs |-> SX!Reverse([i \in DOMAIN entries[p] |-> i])]>>

\* HandleSearchResponse: its files, for the group of the search it belongs to.
HandleSearchResponse(p, resp) ==
    LET asked == {s \in searches[p] : s.guid = resp.guid}
    IN  IF asked = {} THEN Idle
        ELSE [stage |-> "scan", group |-> (CHOOSE s \in asked : TRUE).group,
              refs |-> resp.refs]

Receive(p, q) ==
    /\ work[p][q].stage = "idle"
    /\ net[q][p] # <<>>
    /\ \E n \in 0..(Len(net[q][p]) - 1) :
          LET m == Head(net[q][p])
              rest == ReceiveGnutella(net[q][p], n)
          IN  /\ \/ /\ m.type = "rqst"
                    /\ net' = [net EXCEPT ![q][p] = rest,
                                          ![p][q] = @ \o HandleSearchRequest(p, m)]
                    /\ UNCHANGED work
                 \/ /\ m.type = "resp"
                    /\ net' = [net EXCEPT ![q][p] = rest]
                    /\ work' = [work EXCEPT ![p][q] = HandleSearchResponse(p, m)]
              /\ smooth' = (smooth /\ n = 0)
    /\ UNCHANGED <<group, key, responses, told, pc, guid, entries, searches, gets, joins,
                   made, restarts>>

\* A Read ended in the middle of a packet: what follows is cut in the wrong
\* places, until by chance it is not, and is nobody's search or answer.
Misread(p, q) ==
    /\ work[p][q].stage = "idle"
    /\ net[q][p] # <<>>
    /\ net' = [net EXCEPT ![q][p] = ReceiveGnutella(@, 0)]
    /\ smooth' = FALSE
    /\ UNCHANGED <<group, key, responses, told, pc, guid, entries, searches, work, gets,
                   joins, made, restarts>>

\* The host thread is through with the first file of the answer.
NextFile(w) ==
    IF Len(w.refs) = 1 THEN Idle ELSE [w EXCEPT !.stage = "scan", !.refs = Tail(@)]

\* Mutant: the answer is not counted.
FindKeyUncounted(p, q) ==
    /\ work[p][q].stage = "scan"
    /\ work' = [work EXCEPT ![p][q] =
                   IF work[p][q].group = group[p] /\ key[p] = 0
                   THEN [@ EXCEPT !.stage = "get"] ELSE NextFile(@)]
    /\ UNCHANGED <<group, key, responses, told, pc, guid, entries, searches, net, gets,
                   joins, made, restarts, smooth>>

\* FindKey(file, group).  A group that was left is freed memory: with the old
\* m_key still in it, the thread may go on either way.
FindKey(p, q) ==
    /\ work[p][q].stage = "scan"
    /\ IF work[p][q].group = group[p] /\ key[p] = 0
       THEN /\ responses' = [responses EXCEPT ![p] = @ + 1]
            /\ work' = [work EXCEPT ![p][q].stage = "get"]
       ELSE /\ \/ work' = [work EXCEPT ![p][q] = NextFile(@)]
               \/ work[p][q].group # group[p] /\ work' = [work EXCEPT ![p][q].stage = "get"]
            /\ UNCHANGED responses
    /\ UNCHANGED <<group, key, told, pc, guid, entries, searches, net, gets, joins, made,
                   restarts, smooth>>

----------------------------------------------------------------------------
(* Get: p asks q, by way of q's port thread (PutAuth) and PutThread.  No call
   sets a timeout, and q's only port thread may be held by a client that says
   nothing, or may have lost the request: a Get need not end. *)

\* The Get is under way: its data follows.
Grant(p, q) ==
    /\ work[p][q].stage = "get"
    /\ group[q] # 0
    /\ key[q] # 0
    /\ LET ref == Head(work[p][q].refs)
       IN  /\ ref \in DOMAIN entries[q]
           /\ gets' = [gets EXCEPT ![p] = @ \cup
                  {[from |-> q, ref |-> ref, key |-> entries[q][ref], group |-> work[p][q].group]}]
    /\ work' = [work EXCEPT ![p][q] = NextFile(@)]
    /\ UNCHANGED <<group, key, responses, told, pc, guid, entries, searches, net, joins,
                   made, restarts, smooth>>

\* Mutant: nobody is told.
RefuseSilently(p, q) ==
    /\ work[p][q].stage = "get"
    /\ work' = [work EXCEPT ![p][q] = NextFile(@)]
    /\ UNCHANGED <<group, key, responses, told, pc, guid, entries, searches, net, gets,
                   joins, made, restarts, smooth>>

\* The callback: unless the group was left, the user hears of it.
Report(p, g, status) ==
    IF g = group[p] THEN Tell(p, status) ELSE UNCHANGED told

\* The Get fails at once: no connection, no authentication, no such group at
\* q, or the accept callback says no.  FetchKey reports the error.
Refuse(p, q) ==
    /\ work[p][q].stage = "get"
    /\ Report(p, work[p][q].group, "ERROR")
    /\ work' = [work EXCEPT ![p][q] = NextFile(@)]
    /\ UNCHANGED <<group, key, responses, pc, guid, entries, searches, net, gets, joins,
                   made, restarts, smooth>>

\* Mutant: FetchKey does not look at the status.
FetchKeyAnyStatus(p, g) ==
    /\ g \in gets[p]
    /\ \E data \in {g.key, 0} :
          /\ entries' = [entries EXCEPT ![p] = Append(@, data)]
          /\ key' = IF g.group = group[p] THEN [key EXCEPT ![p] = data] ELSE key
          /\ Report(p, g.group, "OK")
    /\ gets' = [gets EXCEPT ![p] = @ \ {g}]
    /\ UNCHANGED <<group, responses, pc, guid, searches, net, work, joins, made, restarts,
                   smooth>>

\* GetThread and FetchKey: the data is there or is not.  The key is shared even
\* if the group was left.
FetchKey(p, g) ==
    /\ g \in gets[p]
    /\ \/ /\ key' = IF g.group = group[p] THEN [key EXCEPT ![p] = g.key] ELSE key
          /\ entries' = [entries EXCEPT ![p] = Append(@, g.key)]
          /\ Report(p, g.group, "OK")
       \/ /\ Report(p, g.group, "ERROR")
          /\ UNCHANGED <<key, entries>>
    /\ gets' = [gets EXCEPT ![p] = @ \ {g}]
    /\ UNCHANGED <<group, responses, pc, guid, searches, net, work, joins, made, restarts,
                   smooth>>

----------------------------------------------------------------------------
\* The process of p ends, for one reason or another, and p starts again.
Restart(p) ==
    /\ restarts < MaxRestarts
    /\ restarts' = restarts + 1
    /\ group' = [group EXCEPT ![p] = 0]
    /\ key' = [key EXCEPT ![p] = 0]
    /\ responses' = [responses EXCEPT ![p] = 0]
    /\ Tell(p, "none")
    /\ Goto(p, "idle")
    /\ guid' = [guid EXCEPT ![p] = 0]
    /\ entries' = [entries EXCEPT ![p] = <<>>]
    /\ searches' = [searches EXCEPT ![p] = {}]
    /\ net' = [q \in Peers |-> [net[q] EXCEPT ![p] = <<>>]]
    /\ work' = [work EXCEPT ![p] = [q \in Peers |-> Idle]]
    /\ gets' = [gets EXCEPT ![p] = {}]
    /\ UNCHANGED <<joins, made, smooth>>

JoinStep(p) == JoinSearch(p) \/ JoinWake(p) \/ JoinStop(p) \/ JoinCreate(p)
GetStep(p, q) == Grant(p, q) \/ Refuse(p, q)
FetchStep(p) == \E g \in gets[p] : FetchKey(p, g)

Next ==
    \E p \in Peers :
        \/ JoinCall(p)
        \/ JoinStep(p)
        \/ Leave(p)
        \/ \E q \in Peers \ {p} :
              Receive(p, q) \/ Misread(p, q) \/ FindKey(p, q) \/ GetStep(p, q)
        \/ FetchStep(p)
        \/ Restart(p)

\* Sleep ends and JoinGroup goes on.  Nothing is asked of the neighbours: they
\* may leave a search unread, which holds JoinSearch up, and a Get unanswered.
Fairness == \A p \in Peers : WF_vars(JoinWake(p) \/ JoinStop(p) \/ JoinCreate(p))

Spec == Init /\ [][Next]_vars /\ Fairness

----------------------------------------------------------------------------
(* Properties *)

\* All members have the same key, as long as no join begins while another is
\* under way, no answer is lost or comes after the joiner's wait, and nobody
\* leaves.  Members may restart, Gets may fail and be refused.
Agreement ==
    smooth => \A p, q \in Peers : key[p] # 0 /\ key[q] # 0 => key[p] = key[q]

\* p hears from a Get for its group, if the Get ends.
Promised(p) ==
    \/ \E q \in Peers : work[p][q].stage = "get" /\ work[p][q].group = group[p]
    \/ \E g \in gets[p] : g.group = group[p]

\* When JoinGroup has returned without a key and without a call of the join
\* callback, a Get for this very group is under way that makes the call if it ends.
NoSilence ==
    \A p \in Peers :
        pc[p] = "idle" /\ group[p] # 0 /\ key[p] = 0 /\ told[p] = "none" => Promised(p)

\* A JoinGroup that has sent its search and has no key ends with the callback,
\* unless the peer restarts or it is left for ever to Gets whose peers never answer.
\* (A second JoinGroup of a group that has its key never calls back.)
JoinAnswered ==
    \A p \in Peers :
        pc[p] = "sleep" /\ key[p] = 0 ~> told[p] # "none" \/ group[p] = 0 \/ []Promised(p)
==============================================================================

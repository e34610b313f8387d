---------------------------- MODULE TrutThreads -----------------------------
(***************************************************************************)
(* The threads of one Trutella process (samples/trutella/trut.cpp) and     *)
(* what they share: the lists m_hosts, m_searches and m_gets, each with    *)
(* its lock, and the hosts, searches and downloads in them, which are      *)
(* freed by whoever is done with them.  The user's thread makes the calls  *)
(* of console.cpp or of gui.cpp; PortThread adds hosts as well; every host *)
(* and every download has a thread of its own, which Thread::Kill ends     *)
(* wherever it is, a holder of a lock included.  A HostThread that meets   *)
(* the answer to a JoinGroup gets the key itself.                          *)
(*                                                                         *)
(* The callback of the GUI has a lock of its own and changes the window,   *)
(* which from another thread is a message that the user's thread handles   *)
(* only when it is not in a call.  No call on a connection has a timeout:  *)
(* whoever waits for a peer may do so for ever.                            *)
(*                                                                         *)
(* Use of what has been freed is undefined: the model records the call and *)
(* the object in misuse and goes no further.  What is sent, found and      *)
(* downloaded is in TrutGroup and TrutTransfer, with PutThread.            *)
(***************************************************************************)
EXTENDS Naturals

CONSTANTS
    Hosts, Searches, Gets,  \* the objects, named by their addresses
    None,
    Killed,                 \* in the place of the owner of a lock: a thread that was killed
    MaxPackets              \* bound: packets that are received

Callers == {"user", "port"}
Calls == {"AddHost", "RemoveHost", "Exit", "GetHosts", "Search", "SearchStop",
          "JoinGroup", "Get", "GetWait", "GetStop"}
Parts == {"auth", "groups", "trut"}  \* m_auth, the groups and what they share, and Trut itself

ASSUME ThreadsAssumption ==
    /\ Hosts \cap Searches = {} /\ Hosts \cap Gets = {} /\ Searches \cap Gets = {}
    /\ (Callers \cup Parts) \cap (Hosts \cup Searches \cup Gets) = {}
    /\ {None, Killed} \cap (Hosts \cup Searches \cup Gets \cup Callers \cup Calls \cup Parts) = {}
    /\ None # Killed
    /\ MaxPackets \in Nat

Threads == Callers \cup Hosts \cup Gets
Lists == {"hosts", "searches", "gets"}
Locks == Lists \cup {"groups", "transfers"}  \* also those of m_groups and m_collect, as one, and
                                            \* that of TransferCallback in gui.cpp
Objects == Hosts \cup Searches \cup Gets

VARIABLES
    gui,       \* the program: with windows, or the console
    lock,      \* the owner of each lock, None or Killed
    list,      \* the entries of each list
    freed,     \* the objects that have been deleted
    op, at, arg,  \* of a caller: the call under way, where it is, and its argument
    todo,      \* the hosts that a loop of the user has still to visit
    host,      \* where each HostThread is
    found,     \* the search that a HostThread has found, the group, or the download it makes
    get,       \* where each GetThread is
    joins,     \* the searches that look for the key of a group
    fetch,     \* the search that a download of a key is for
    opened,    \* the hosts after m_open and before m_close
    rows,      \* the hosts in the window that lists them
    stopped,   \* the downloads whose GetStop has returned
    packets,
    left,      \* history: the hosts whose thread has left its loop by itself
    misuse     \* history: the calls that used something freed, with what it was

callVars == <<op, at, arg, todo>>
threadVars == <<host, found, get, joins, fetch>>
userVars == <<opened, rows, stopped>>
vars == <<gui, lock, list, freed, callVars, threadVars, userVars, packets, left, misuse>>

\* The types; what is in a list has not been freed, and what is freed stays out of it.
TypeOK ==
    /\ gui \in BOOLEAN
    /\ lock \in [Locks -> Threads \cup {None, Killed}]
    /\ list \in [Lists -> SUBSET Objects]
    /\ list.hosts \subseteq Hosts /\ list.searches \subseteq Searches /\ list.gets \subseteq Gets
    /\ freed \subseteq Objects \cup Parts
    /\ \A l \in Lists : list[l] \cap freed = {}
    /\ op \in [Callers -> Calls \cup {None}]
    /\ at \in [Callers -> {"none", "connect", "auth", "tell", "request", "fail", "lock", "body", "open",
                           "start", "started", "show", "leave", "kill", "close", "free", "hosts",
                           "send", "sleep", "stop", "event", "wait", "join"}]
    /\ arg \in [Callers -> Objects \cup {None}]
    /\ todo \subseteq Hosts
    /\ host \in [Hosts -> {"none", "receive", "find", "use", "list", "answer", "fetch", "insert",
                           "start", "started", "event", "pref", "remove", "close", "free", "ended"}]
    /\ found \in [Hosts -> Searches \cup Gets \cup {"groups", None}]
    /\ get \in [Gets -> {"none", "run", "tell", "lock", "remove", "free", "ended"}]
    /\ joins \subseteq Searches /\ fetch \in [Gets -> Searches \cup {None}]
    /\ opened \subseteq Hosts /\ rows \subseteq Hosts /\ stopped \subseteq Gets /\ left \subseteq Hosts
    /\ packets \in 0..MaxPackets

Init ==
    /\ gui \in BOOLEAN
    /\ lock = [l \in Locks |-> None]
    /\ list = [l \in Lists |-> {}]
    /\ freed = {}
    /\ op = [c \in Callers |-> None]
    /\ at = [c \in Callers |-> "none"]
    /\ arg = [c \in Callers |-> None]
    /\ todo = {}
    /\ host = [h \in Hosts |-> "none"]
    /\ found = [h \in Hosts |-> None]
    /\ get = [g \in Gets |-> "none"]
    /\ joins = {} /\ fetch = [g \in Gets |-> None]
    /\ opened = {} /\ rows = {} /\ stopped = {} /\ packets = 0 /\ left = {} /\ misuse = {}

----------------------------------------------------------------------------
(* List::Lock and Unlock, delete and Thread::Kill *)

Lock(t, l) == lock[l] = None /\ lock' = [lock EXCEPT ![l] = t]
Unlock(l) == lock' = [lock EXCEPT ![l] = None]

\* The user's thread, which is never killed, takes and releases a lock in one step when it
\* only changes the list in between.
Within(l) == lock[l] = None /\ UNCHANGED lock

\* Mutant: the entry stays in the list.
RemoveNothing(l, x) == UNCHANGED list

Insert(l, x) == list' = [list EXCEPT ![l] = @ \cup {x}]
Remove(l, x) == list' = [list EXCEPT ![l] = @ \ {x}]

\* The call uses what it must not.
Misuses(call, S) == misuse' = misuse \cup {[call |-> call, of |-> x] : x \in S}

\* The call uses the objects of S, which must not have been freed.
Uses(call, S) == Misuses(call, S \cap freed)
Use(call, x) == Uses(call, {x})

\* Kill of the thread t: what it holds is never unlocked.
Killing(t) == lock' = [l \in Locks |-> IF lock[l] = t THEN Killed ELSE lock[l]]

----------------------------------------------------------------------------
(* The calls, step by step *)

\* A host that there has not been yet, and that nobody else is adding.
NewHost(h) == host[h] = "none" /\ h \notin freed \cup list.hosts /\ \A c \in Callers : arg[c] # h

\* The calls that each program makes; Exit is the destructor of Trut.
UserCalls ==
    {"AddHost", "Search", "SearchStop", "JoinGroup", "Get", "Exit"} \cup
        IF gui THEN {"RemoveHost", "GetStop"} ELSE {"GetHosts", "GetWait"}

\* A download that nobody has begun (of several addresses one is enough), and one of the
\* user, who has its File.
Unused == {g \in Gets : get[g] = "none" /\ fetch[g] = None /\ arg["user"] # g}
NewGet(g) == g \in Unused /\ g = CHOOSE x \in Unused : TRUE
UserGet(g) == get[g] # "none" /\ fetch[g] = None

\* What they are called with.  The window keeps the row of a host until it is removed there.
MayCall(c, o, x) ==
    /\ o \in IF c = "user" THEN UserCalls ELSE {"AddHost"}
    /\ CASE o = "AddHost" -> x \in Hosts /\ NewHost(x)
         [] o = "RemoveHost" -> x \in rows
         [] o \in {"Search", "JoinGroup"} -> x \in Searches \ (list.searches \cup freed)
         [] o = "Get" -> x \in Gets /\ NewGet(x)
         [] o \in {"GetWait", "GetStop"} -> x \in Gets \ stopped /\ UserGet(x)
         [] OTHER -> x = None

\* Where a call begins: with a lock, unless it has to do with a peer or the window before.
Begin(c, o) ==
    CASE o = "AddHost" /\ c = "user" -> "connect"
      [] o = "Get" -> IF gui THEN "tell" ELSE "request"
      [] o = "Exit" -> "auth"
      [] OTHER -> "lock"

Call(c, o, x) ==
    /\ op[c] = None
    /\ MayCall(c, o, x)
    /\ op' = [op EXCEPT ![c] = o]
    /\ at' = [at EXCEPT ![c] = Begin(c, o)]
    /\ arg' = [arg EXCEPT ![c] = x]
    /\ joins' = IF o = "JoinGroup" THEN joins \cup {x} ELSE joins
    /\ UNCHANGED <<lock, list, freed, todo, host, found, get, fetch, userVars, packets, left, misuse>>

Return(c) ==
    /\ op' = [op EXCEPT ![c] = None]
    /\ at' = [at EXCEPT ![c] = "none"]
    /\ arg' = [arg EXCEPT ![c] = None]

At(c, o, where) == op[c] = o /\ at[c] = where
GoTo(c, where) == at' = [at EXCEPT ![c] = where] /\ UNCHANGED <<op, arg>>

\* Mutant: GetHosts locks another list than the one it walks.
ListOfOther(o) == CASE o = "AddHost" -> "hosts" [] o = "GetHosts" -> "searches" [] OTHER -> "gets"

\* The list that a call locks first: one that may be killed there, or that does more under
\* the lock than to change the list.
ListOf(o) == IF o \in {"AddHost", "GetHosts"} THEN "hosts" ELSE "gets"

CallLock(c) ==
    /\ op[c] \in {"AddHost", "GetHosts", "GetStop"} /\ at[c] = "lock"
    /\ Lock(c, ListOf(op[c]))
    /\ GoTo(c, "body")
    /\ todo' = IF op[c] = "GetHosts" THEN list.hosts ELSE todo
    /\ UNCHANGED <<list, freed, threadVars, userVars, packets, left, misuse>>

\* AddHost waits for the answer of the peer, which may refuse.
Connect ==
    /\ At("user", "AddHost", "connect")
    /\ GoTo("user", "lock") \/ Return("user")
    /\ UNCHANGED <<lock, list, freed, todo, threadVars, userVars, packets, left, misuse>>

\* AddHost, and PortThread for a host that has connected: the host is in the list and
\* shown before its thread is started.  Start writes m_thread when the thread may already
\* have ended, and the window reads the host after AddHost has returned.
AddHost(c) ==
    LET h == arg[c]
    IN  \/ /\ At(c, "AddHost", "body")
           /\ Insert("hosts", h) /\ Unlock("hosts")
           /\ GoTo(c, "open")
           /\ UNCHANGED <<freed, todo, threadVars, userVars, packets, left, misuse>>
        \/ /\ At(c, "AddHost", "open")
           /\ Use("AddHost", h)
           /\ opened' = opened \cup {h}
           /\ GoTo(c, "start")
           /\ UNCHANGED <<lock, list, freed, todo, threadVars, rows, stopped, packets, left>>
        \/ /\ At(c, "AddHost", "start")
           /\ Use("AddHost", h)
           /\ host' = [host EXCEPT ![h] = "receive"]
           /\ GoTo(c, "started")
           /\ UNCHANGED <<lock, list, freed, todo, found, get, joins, fetch, userVars, packets, left>>
        \/ /\ At(c, "AddHost", "started")
           /\ Use("Start", h)
           /\ IF c = "user" /\ gui THEN GoTo(c, "show") ELSE Return(c)
           /\ UNCHANGED <<lock, list, freed, todo, threadVars, userVars, packets, left>>
        \/ /\ At(c, "AddHost", "show")
           /\ Use("AddListItem", h)
           /\ rows' = rows \cup {h}
           /\ Return(c)
           /\ UNCHANGED <<lock, list, freed, todo, threadVars, opened, stopped, packets, left>>

\* PutAuth of PortThread, with a peer that wants a file.
Put ==
    /\ op["port"] = None
    /\ Use("Put", "auth")
    /\ UNCHANGED <<lock, list, freed, callVars, threadVars, userVars, packets, left>>

\* m_close: once for every host.
Closed(call, h) ==
    /\ opened' = opened \ {h}
    /\ Misuses(call, (IF h \notin opened THEN {h} ELSE {}) \cup (freed \cap {h, "trut"}))

\* A thread that was not started, or whose m_thread is not yet written, cannot be killed.
NotKilled(h) == IF host[h] = "none" \/ arg["port"] = h THEN {h} ELSE {}

RemoveHost ==
    LET h == arg["user"]
    IN  \/ /\ At("user", "RemoveHost", "lock")
           /\ Use("RemoveHost", h)
           /\ Within("hosts") /\ Remove("hosts", h)
           /\ GoTo("user", "kill")
           /\ UNCHANGED <<freed, todo, threadVars, userVars, packets, left>>
        \/ /\ At("user", "RemoveHost", "kill")
           /\ Misuses("RemoveHost", NotKilled(h) \cup (freed \cap {h}))
           /\ host' = [host EXCEPT ![h] = "ended"] /\ Killing(h)
           /\ GoTo("user", "close")
           /\ UNCHANGED <<list, freed, todo, found, get, joins, fetch, userVars, packets, left>>
        \/ /\ At("user", "RemoveHost", "close")
           /\ Closed("RemoveHost", h)
           /\ GoTo("user", "free")
           /\ UNCHANGED <<lock, list, freed, todo, threadVars, rows, stopped, packets, left>>
        \/ /\ At("user", "RemoveHost", "free")
           /\ Use("RemoveHost", h)
           /\ freed' = freed \cup {h}
           /\ rows' = rows \ {h}
           /\ Return("user")
           /\ UNCHANGED <<lock, list, todo, threadVars, opened, stopped, packets, left>>

\* A loop over m_hosts holds the lock all the time.
EachHost(o, where) == At("user", o, where) /\ todo # {}

\* Mutant: the lock is not released.
EachDoneLocked(o, where) ==
    /\ At("user", o, where) /\ todo = {}
    /\ Return("user")
    /\ UNCHANGED <<lock, list, freed, todo, threadVars, userVars, packets, left, misuse>>

EachDone(o, where) ==
    /\ At("user", o, where) /\ todo = {}
    /\ Unlock("hosts")
    /\ IF o = "JoinGroup" THEN GoTo("user", "sleep") ELSE Return("user")
    /\ UNCHANGED <<list, freed, todo, threadVars, userVars, packets, left, misuse>>

\* ~Trut, after which there are no calls: m_auth is deleted,
ExitAuth ==
    /\ At("user", "Exit", "auth")
    /\ freed' = freed \cup {"auth"}
    /\ GoTo("user", "lock")
    /\ UNCHANGED <<lock, list, todo, threadVars, userVars, packets, left, misuse>>

\* SearchStop,
ExitSearches ==
    /\ At("user", "Exit", "lock")
    /\ Within("searches")
    /\ freed' = freed \cup list.searches
    /\ list' = [list EXCEPT !.searches = {}]
    /\ GoTo("user", "leave")
    /\ UNCHANGED <<todo, threadVars, userVars, packets, left, misuse>>

\* LeaveAllGroups and RemoveAllShared,
ExitGroups ==
    /\ At("user", "Exit", "leave")
    /\ lock["groups"] = None
    /\ freed' = freed \cup {"groups"}
    /\ GoTo("user", "kill")
    /\ UNCHANGED <<lock, list, todo, threadVars, userVars, packets, left, misuse>>

\* RemoveAllPorts, which kills PortThread wherever it is,
ExitPorts ==
    /\ At("user", "Exit", "kill")
    /\ Killing("port")
    /\ op' = [op EXCEPT !["port"] = "Exit"]
    /\ at' = [at EXCEPT !["port"] = "none", !["user"] = "hosts"]
    /\ UNCHANGED <<list, freed, arg, todo, threadVars, userVars, packets, left, misuse>>

\* and RemoveAllHosts, a host at a time under the lock; then the object itself is gone.
ExitHosts ==
    \/ /\ At("user", "Exit", "hosts")
       /\ Lock("user", "hosts")
       /\ todo' = list.hosts
       /\ GoTo("user", "free")
       /\ UNCHANGED <<list, freed, threadVars, userVars, packets, left, misuse>>
    \/ /\ EachHost("Exit", "free")
       /\ \E h \in todo :
              /\ Remove("hosts", h)
              /\ Killing(h)
              /\ host' = [host EXCEPT ![h] = "ended"]
              /\ opened' = opened \ {h}
              /\ Misuses("Exit", NotKilled(h) \cup ({h} \ opened) \cup (freed \cap {h}))
              /\ freed' = freed \cup {h}
              /\ todo' = todo \ {h}
       /\ UNCHANGED <<op, at, arg, found, get, joins, fetch, rows, stopped, packets, left>>
    \/ /\ At("user", "Exit", "free") /\ todo = {}
       /\ Unlock("hosts")
       /\ freed' = freed \cup {"trut"}
       /\ GoTo("user", "none")
       /\ UNCHANGED <<list, todo, threadVars, userVars, packets, left, misuse>>

Exit == ExitAuth \/ ExitSearches \/ ExitGroups \/ ExitPorts \/ ExitHosts

GetHosts ==
    \/ /\ EachHost("GetHosts", "body")
       /\ \E h \in todo : Use("GetHosts", h) /\ todo' = todo \ {h}
       /\ UNCHANGED <<lock, list, freed, op, at, arg, threadVars, userVars, packets, left>>
    \/ EachDone("GetHosts", "body")

\* Search, which JoinGroup makes as well: the search is in the list before the request
\* goes to the hosts.
Search(o) ==
    \/ /\ At("user", o, "lock")
       /\ Within("searches") /\ Insert("searches", arg["user"])
       /\ GoTo("user", "hosts")
       /\ UNCHANGED <<freed, todo, threadVars, userVars, packets, left, misuse>>
    \/ /\ At("user", o, "hosts")
       /\ Lock("user", "hosts")
       /\ todo' = list.hosts
       /\ GoTo("user", "send")
       /\ UNCHANGED <<list, freed, threadVars, userVars, packets, left, misuse>>
    \/ EachDone(o, "send")

\* WriteAll to one host after the other, under the lock: each has to read.
Send(o) ==
    /\ EachHost(o, "send")
    /\ \E h \in todo : Use("Search", h) /\ todo' = todo \ {h}
    /\ UNCHANGED <<lock, list, freed, op, at, arg, threadVars, userVars, packets, left>>

\* A HostThread gets the key that the search s was for.
Answered(s) == \E g \in Gets : fetch[g] = s

\* JoinCallback has set the event.
EventSet(s) ==
    \E g \in Gets : fetch[g] = s /\ get[g] \in {"tell", "lock", "remove", "free", "ended"}

\* JoinGroup sleeps, and with no answer stops its search and makes the key; with an answer,
\* or with a key from an earlier JoinGroup, it leaves.  The window waits for the callback.
JoinGroup ==
    LET s == arg["user"]
    IN  \/ /\ At("user", "JoinGroup", "sleep")
           /\ \/ ~Answered(s) /\ GoTo("user", "stop")
              \/ IF gui THEN GoTo("user", "event") ELSE Return("user")
           /\ UNCHANGED <<lock, list, freed, todo, threadVars, userVars, packets, left, misuse>>
        \/ /\ At("user", "JoinGroup", "stop")
           /\ Within("searches") /\ Remove("searches", s)
           /\ freed' = freed \cup {s}
           /\ Return("user")
           /\ UNCHANGED <<todo, threadVars, userVars, packets, left, misuse>>
        \/ /\ At("user", "JoinGroup", "event")
           /\ EventSet(s)
           /\ Return("user")
           /\ UNCHANGED <<lock, list, freed, todo, threadVars, userVars, packets, left, misuse>>

SearchStop ==
    /\ At("user", "SearchStop", "lock")
    /\ Within("searches")
    /\ freed' = freed \cup list.searches
    /\ list' = [list EXCEPT !.searches = {}]
    /\ Return("user")
    /\ UNCHANGED <<todo, threadVars, userVars, packets, left, misuse>>

\* Get waits for the header of the answer.
Request ==
    /\ At("user", "Get", "request")
    /\ GoTo("user", "lock") \/ IF gui THEN GoTo("user", "fail") ELSE Return("user")
    /\ UNCHANGED <<lock, list, freed, todo, threadVars, userVars, packets, left, misuse>>

\* The GUI shows the download first, and a failure: it takes and releases the lock of
\* TransferCallback.
Get ==
    LET g == arg["user"]
    IN  \/ /\ op["user"] = "Get" /\ at["user"] \in {"tell", "fail"}
           /\ Within("transfers")
           /\ IF at["user"] = "tell" THEN GoTo("user", "request") ELSE Return("user")
           /\ UNCHANGED <<list, freed, todo, threadVars, userVars, packets, left, misuse>>
        \/ /\ At("user", "Get", "lock")
           /\ Within("gets") /\ Insert("gets", g)
           /\ GoTo("user", "start")
           /\ UNCHANGED <<freed, todo, threadVars, userVars, packets, left, misuse>>
        \/ /\ At("user", "Get", "start")
           /\ get' = [get EXCEPT ![g] = "run"]
           /\ GoTo("user", "started")
           /\ UNCHANGED <<lock, list, freed, todo, host, found, joins, fetch, userVars, packets, left,
                          misuse>>
        \/ /\ At("user", "Get", "started")
           /\ Use("Start", g)
           /\ Return("user")
           /\ UNCHANGED <<lock, list, freed, todo, threadVars, userVars, packets, left>>

\* GetWait: the lock is released before m_thread is read and waited for.
GetWait ==
    LET g == arg["user"]
    IN  \/ /\ At("user", "GetWait", "lock")
           /\ Within("gets")
           /\ IF g \in list.gets THEN GoTo("user", "wait") ELSE Return("user")
           /\ UNCHANGED <<list, freed, todo, threadVars, userVars, packets, left, misuse>>
        \/ /\ At("user", "GetWait", "wait")
           /\ Use("GetWait", g)
           /\ GoTo("user", "join")
           /\ UNCHANGED <<lock, list, freed, todo, threadVars, userVars, packets, left>>
        \/ /\ At("user", "GetWait", "join")
           /\ get[g] = "ended"
           /\ Return("user")
           /\ UNCHANGED <<lock, list, freed, todo, threadVars, userVars, packets, left, misuse>>

GetStop ==
    LET g == arg["user"]
    IN  \/ /\ At("user", "GetStop", "body") /\ g \in list.gets
           /\ Use("GetStop", g)
           /\ get' = [get EXCEPT ![g] = "ended"]
           /\ Killing(g)
           /\ GoTo("user", "free")
           /\ UNCHANGED <<list, freed, todo, host, found, joins, fetch, userVars, packets, left>>
        \/ /\ At("user", "GetStop", "free")
           /\ Use("GetStop", g)
           /\ Remove("gets", g) /\ Unlock("gets")
           /\ freed' = freed \cup {g}
           /\ stopped' = stopped \cup {g}
           /\ Return("user")
           /\ UNCHANGED <<todo, threadVars, opened, rows, packets, left>>
        \/ /\ At("user", "GetStop", "body") /\ g \notin list.gets
           /\ Unlock("gets")
           /\ stopped' = stopped \cup {g}
           /\ Return("user")
           /\ UNCHANGED <<list, freed, todo, threadVars, opened, rows, packets, left, misuse>>

----------------------------------------------------------------------------
(* HostThread, with what it makes of a packet *)

HostTo(h, where) == host' = [host EXCEPT ![h] = where] /\ UNCHANGED <<get, joins, fetch>>

\* A search response, a search request, or the end of the connection, each of which is
\* met with a lock.
Receive(h) ==
    /\ host[h] = "receive"
    /\ Use("HostThread", h)
    /\ \/ /\ packets < MaxPackets
          /\ packets' = packets + 1
          /\ \/ Lock(h, "searches") /\ HostTo(h, "find")
             \/ Lock(h, "groups") /\ HostTo(h, "list")
          /\ UNCHANGED left
       \/ /\ left' = left \cup {h}
          /\ Lock(h, "hosts") /\ HostTo(h, "remove")
          /\ UNCHANGED packets
    /\ UNCHANGED <<list, freed, callVars, found, userVars>>

\* FindKey, the callback of a search that looks for a key: the download of the key.
FindKey(h) ==
    \E g \in Gets : /\ NewGet(g) /\ found[h] \in joins
                    /\ fetch' = [fetch EXCEPT ![g] = found[h]]
                    /\ found' = [found EXCEPT ![h] = g]
                    /\ host' = [host EXCEPT ![h] = "fetch"]
                    /\ UNCHANGED <<get, joins>>

\* The search is found under the lock and used when the lock has been released.
HandleSearchResponse(h) ==
    \/ /\ host[h] = "find"
       /\ Unlock("searches")
       /\ \/ \E s \in list.searches : found' = [found EXCEPT ![h] = s] /\ HostTo(h, "use")
          \/ HostTo(h, "receive") /\ UNCHANGED found
       /\ UNCHANGED <<list, freed, callVars, userVars, packets, left, misuse>>
    \/ /\ host[h] = "use"
       /\ Use("HandleSearchResponse", found[h])
       /\ \/ FindKey(h)
          \/ found' = [found EXCEPT ![h] = None] /\ HostTo(h, "receive")
       /\ UNCHANGED <<lock, list, freed, callVars, userVars, packets, left>>

\* So is the group of a search request, and what is shared in it.
HandleSearchRequest(h) ==
    \/ /\ host[h] = "list"
       /\ Unlock("groups")
       /\ found' = [found EXCEPT ![h] = IF "groups" \in freed THEN None ELSE "groups"]
       /\ HostTo(h, "answer")
       /\ UNCHANGED <<list, freed, callVars, userVars, packets, left, misuse>>
    \/ /\ host[h] = "answer"
       /\ Use("HandleSearchRequest", found[h])
       /\ found' = [found EXCEPT ![h] = None]
       /\ HostTo(h, "receive")
       /\ UNCHANGED <<lock, list, freed, callVars, userVars, packets, left>>

\* FetchKey calls back with the context of a JoinGroup of the window, on the stack of OnJoingroup.
Context(s) == IF gui /\ ~(op["user"] = "JoinGroup" /\ arg["user"] = s) THEN {s} ELSE {}

\* Get in a HostThread, for the header of the key.
FetchRequest(h) ==
    /\ host[h] = "fetch"
    /\ Uses("Get", {"auth", "groups"})
    /\ \/ Lock(h, "gets") /\ HostTo(h, "insert")
       \/ HostTo(h, "event") /\ UNCHANGED lock
    /\ UNCHANGED <<list, freed, callVars, found, userVars, packets, left>>

\* The rest of this Get; it may fail.  JoinCallback sets the event before it has read the
\* rest of its context.
FetchStart(h) ==
    LET g == found[h]
        ToReceive == host' = [host EXCEPT ![h] = "receive"] /\ found' = [found EXCEPT ![h] = None]
    IN  \/ /\ host[h] = "insert"
           /\ Insert("gets", g) /\ Unlock("gets")
           /\ HostTo(h, "start")
           /\ UNCHANGED <<freed, callVars, found, userVars, packets, left, misuse>>
        \/ /\ host[h] = "start"
           /\ host' = [host EXCEPT ![h] = "started"]
           /\ get' = [get EXCEPT ![g] = "run"]
           /\ UNCHANGED <<lock, list, freed, callVars, found, joins, fetch, userVars, packets, left,
                          misuse>>
        \/ /\ host[h] = "started"
           /\ Use("Start", g)
           /\ ToReceive
           /\ UNCHANGED <<lock, list, freed, callVars, get, joins, fetch, userVars, packets, left>>
        \/ /\ host[h] = "event"
           /\ Misuses("FetchKey", Context(fetch[g]) \cup (freed \cap {"groups"}))
           /\ get' = [get EXCEPT ![g] = "ended"]
           /\ IF gui THEN host' = [host EXCEPT ![h] = "pref"] /\ UNCHANGED found ELSE ToReceive
           /\ UNCHANGED <<lock, list, freed, callVars, joins, fetch, userVars, packets, left>>
        \/ /\ host[h] = "pref"
           /\ Misuses("JoinCallback", Context(fetch[g]))
           /\ ToReceive
           /\ UNCHANGED <<lock, list, freed, callVars, get, joins, fetch, userVars, packets, left>>

HostEnd(h) ==
    \/ /\ host[h] = "remove"
       /\ Use("HostThread", h)
       /\ Remove("hosts", h) /\ Unlock("hosts")
       /\ HostTo(h, "close")
       /\ UNCHANGED <<freed, callVars, found, userVars, packets, left>>
    \/ /\ host[h] = "close"
       /\ Closed("HostThread", h)
       /\ HostTo(h, "free")
       /\ UNCHANGED <<lock, list, freed, callVars, found, rows, stopped, packets, left>>
    \/ /\ host[h] = "free"
       /\ Use("HostThread", h)
       /\ freed' = freed \cup {h}
       /\ HostTo(h, "ended")
       /\ UNCHANGED <<lock, list, callVars, found, userVars, packets, left>>

----------------------------------------------------------------------------
(* GetThread *)

GetTo(g, where) == get' = [get EXCEPT ![g] = where] /\ UNCHANGED <<host, found, joins, fetch>>

\* FetchKey, the callback of the download of a key, is told of its end.
FetchKey(g, where) ==
    /\ fetch[g] # None /\ get[g] = where
    /\ Misuses("FetchKey", Context(fetch[g]) \cup (freed \cap {g, "groups"}))
    /\ GetTo(g, IF where = "run" /\ gui THEN "tell" ELSE "lock")
    /\ UNCHANGED <<lock, list, freed, callVars, userVars, packets, left>>

\* Any other callback is told of the File, which its owner keeps until it is told of the
\* end, or until GetStop; more may come.
Tell(g, where) ==
    /\ fetch[g] = None /\ get[g] = where
    /\ Misuses("GetThread", {g} \cap (freed \cup stopped))
    /\ GetTo(g, "run") \/ GetTo(g, "lock")
    /\ UNCHANGED <<list, freed, callVars, userVars, packets, left>>

\* Something has come, or the end; the callback of the GUI takes the lock, and holds it
\* until the window has been told.
Download(g) ==
    \/ FetchKey(g, "run")
    \/ ~gui /\ Tell(g, "run") /\ UNCHANGED lock
    \/ /\ gui /\ fetch[g] = None /\ get[g] = "run"
       /\ Use("GetThread", g)
       /\ Lock(g, "transfers") /\ GetTo(g, "tell")
       /\ UNCHANGED <<list, freed, callVars, userVars, packets, left>>

Window(g) ==
    \/ FetchKey(g, "tell")
    \/ op["user"] = None /\ Tell(g, "tell") /\ Unlock("transfers")

\* The download has ended, and the GetContext goes.
GetThread(g) ==
    \/ /\ get[g] = "lock"
       /\ Use("GetThread", "trut")
       /\ Lock(g, "gets")
       /\ GetTo(g, "remove")
       /\ UNCHANGED <<list, freed, callVars, userVars, packets, left>>
    \/ /\ get[g] = "remove"
       /\ Use("GetThread", g)
       /\ Remove("gets", g) /\ Unlock("gets")
       /\ GetTo(g, "free")
       /\ UNCHANGED <<freed, callVars, userVars, packets, left>>
    \/ /\ get[g] = "free"
       /\ Use("GetThread", g)
       /\ freed' = freed \cup {g}
       /\ GetTo(g, "ended")
       /\ UNCHANGED <<lock, list, callVars, userVars, packets, left>>

----------------------------------------------------------------------------
\* Nothing is undefined so far.
Sound == misuse = {} /\ UNCHANGED gui

Searching == {"Search", "JoinGroup"}

\* The steps of a thread, and those that need something of a peer.
CallStep(c) == Sound /\ (CallLock(c) \/ AddHost(c))
UserStep ==
    /\ Sound
    /\ \/ RemoveHost \/ Exit \/ GetHosts \/ SearchStop \/ JoinGroup \/ Get \/ GetWait \/ GetStop
       \/ \E o \in Searching : Search(o)
HostStep(h) ==
    Sound /\ (HandleSearchResponse(h) \/ HandleSearchRequest(h) \/ FetchStart(h) \/ HostEnd(h))
GetStep(g) == Sound /\ (Window(g) \/ GetThread(g))
PeerStep ==
    /\ Sound
    /\ \/ Connect \/ Put \/ Request
       \/ \E o \in Searching : Send(o)
       \/ \E h \in Hosts : Receive(h) \/ FetchRequest(h)
       \/ \E g \in Gets : Download(g)

Next ==
    \/ Sound /\ \E c \in Callers, o \in Calls, x \in Objects \cup {None} : Call(c, o, x)
    \/ \E c \in Callers : CallStep(c)
    \/ UserStep
    \/ \E h \in Hosts : HostStep(h)
    \/ \E g \in Gets : GetStep(g)
    \/ PeerStep

\* A thread that can go on does; what a peer sends is up to the peer.
Spec ==
    /\ Init /\ [][Next]_vars
    /\ WF_vars(CallStep("user") \/ UserStep)
    /\ WF_vars(CallStep("port"))
    /\ \A h \in Hosts : WF_vars(HostStep(h))
    /\ \A g \in Gets : WF_vars(GetStep(g))

----------------------------------------------------------------------------
\* Of what is in the three lists, a search is used after it was freed only by the
\* HandleSearchResponse that has found it; a download only by GetWait and by Start, which
\* writes m_thread; and a host only when its thread has left its loop by itself, by the
\* AddHost that Start is part of, by the window, or by a RemoveHost, and at Exit when
\* PortThread was killed while it added the host.  So no loop over the hosts meets a freed
\* one, GetStop never kills or frees a download that ends by itself, and no callback comes
\* after it.  Other threads go on with what Exit deletes besides, and a key may be called
\* back for after the JoinGroup of the window has returned.  A killed thread takes the lock
\* of m_gets with it only if it was a HostThread in FindKey, and that of m_hosts only if it
\* was about to end by itself, or if it was PortThread.
UsedAlive ==
    /\ \A m \in misuse :
           \/ m.of \in Searches /\ m.call \in {"HandleSearchResponse", "FetchKey", "JoinCallback"}
           \/ m.of \in Gets /\ m.call \in {"GetWait", "Start"}
           \/ m.of \in left /\ m.call \in {"Start", "AddListItem", "RemoveHost"}
           \/ m.of = arg["port"] /\ m.call = "Exit"
           \/ m.of \in Parts /\ op["user"] = "Exit"
    /\ lock["gets"] = Killed => \E h \in Hosts : host[h] = "ended" /\ found[h] \in Gets
    /\ lock["hosts"] = Killed => left # {} \/ arg["port"] # None

\* The user waits for something that nobody has to do: a peer that reads or answers, the
\* download of GetWait, the callback of JoinGroup in the window, or a callback with the
\* lock of TransferCallback that waits for the window.
Waits ==
    \/ at["user"] \in {"connect", "request", "send"}
    \/ At("user", "GetWait", "join")
    \/ At("user", "JoinGroup", "event")
    \/ at["user"] \in {"tell", "fail"} /\ lock["transfers"] \in Gets

\* Every call of the user returns, unless it waits for such a thing for ever, or a Kill has
\* hit the owner of a lock.
UserReturns ==
    op["user"] # None ~> \/ at["user"] = "none"
                         \/ misuse # {}
                         \/ \E l \in Locks : lock[l] = Killed
                         \/ []Waits
=============================================================================

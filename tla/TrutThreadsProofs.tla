------------------------- MODULE TrutThreadsProofs --------------------------
(***************************************************************************)
(* Proofs about module TrutThreads: who owns what at each step, so that    *)
(* what is freed is used, and a lock is lost, only where UsedAlive says.   *)
(***************************************************************************)
EXTENDS TrutThreads, TLAPS

\* Where a caller is in its call, and with what; only Exit deletes the parts of Trut.
CallInv ==
    /\ \A c \in Callers : op[c] = None => arg[c] = None
    /\ op["port"] \in {None, "AddHost", "Exit"}
    /\ op["port"] = "Exit" <=> op["user"] = "Exit" /\ at["user"] \in {"hosts", "free", "none"}
    /\ freed \cap Parts # {} => op["user"] = "Exit"
    /\ \A c \in Callers : op[c] = "AddHost" =>
           arg[c] \in Hosts
           /\ at[c] \in {"connect", "lock", "body", "open", "start", "started", "show"}
    /\ op["user"] = "RemoveHost" => arg["user"] \in Hosts /\ at["user"] \in {"lock", "kill", "close", "free"}
    /\ op["user"] = "Exit" => at["user"] \in {"auth", "lock", "leave", "kill", "hosts", "free", "none"}
    /\ op["user"] = "GetHosts" => at["user"] \in {"lock", "body"}
    /\ op["user"] = "SearchStop" => at["user"] = "lock"
    /\ op["user"] = "Search" => arg["user"] \in Searches /\ at["user"] \in {"lock", "hosts", "send"}
    /\ op["user"] = "JoinGroup" =>
           arg["user"] \in Searches /\ at["user"] \in {"lock", "hosts", "send", "sleep", "stop", "event"}
    /\ op["user"] = "Get" =>
           arg["user"] \in Gets /\ at["user"] \in {"tell", "request", "fail", "lock", "start", "started"}
    /\ op["user"] = "GetWait" => arg["user"] \in Gets /\ at["user"] \in {"lock", "wait", "join"}
    /\ op["user"] = "GetStop" => arg["user"] \in Gets /\ at["user"] \in {"lock", "body", "free"}

\* The caller c is at a place where it holds the lock of the list l.
Holds(c, l) ==
    \/ op[c] \in {"AddHost", "GetHosts", "GetStop"} /\ at[c] = "body" /\ l = ListOf(op[c])
    \/ l = "hosts" /\ (At(c, "Search", "send") \/ At(c, "JoinGroup", "send") \/ At(c, "Exit", "free"))
    \/ l = "gets" /\ At(c, "GetStop", "free")

\* The lock of a list is with the thread that is at such a place.
LockInv ==
    /\ \A c \in Callers, l \in Lists : Holds(c, l) <=> lock[l] = c
    /\ \A h \in Hosts : /\ host[h] = "remove" <=> lock["hosts"] = h
                        /\ host[h] = "find" <=> lock["searches"] = h
                        /\ host[h] = "insert" <=> lock["gets"] = h
    /\ \A g \in Gets : /\ get[g] = "remove" <=> lock["gets"] = g
                       /\ lock["hosts"] # g /\ lock["searches"] # g
    /\ lock["hosts"] = Killed => left # {} \/ (op["port"] = "Exit" /\ arg["port"] # None)

\* A loop over the hosts has those before it that are in the list.
InLoop ==
    \/ At("user", "GetHosts", "body") \/ At("user", "Exit", "free")
    \/ At("user", "Search", "send") \/ At("user", "JoinGroup", "send")
LoopInv == InLoop => todo \subseteq list["hosts"]

\* c has put the host h into the list and not yet started its thread, or never will.
Adding(c, h) ==
    /\ arg[c] = h
    /\ \/ op[c] = "AddHost" /\ at[c] \in {"open", "start"}
       \/ c = "port" /\ op["port"] = "Exit"

\* Where a HostThread makes a download, the first of them before the download has a thread.
Fetching == {"fetch", "insert", "start", "event"}
Fetches == Fetching \cup {"started", "pref"}

\* Where a HostThread is in its loop.
Running == {"receive", "find", "use", "list", "answer"} \cup Fetches

\* AddHost before and after it starts the thread of its host.
AddInv ==
    /\ \A c \in Callers : op[c] = "AddHost" =>
           /\ arg[c] \notin rows
           /\ at[c] \notin {"started", "show"} => host[arg[c]] = "none" /\ arg[c] \notin freed
           /\ at[c] \in {"connect", "lock", "body"} => arg[c] \notin list["hosts"]
           /\ at[c] = "start" => arg[c] \in opened
           /\ at[c] \in {"started", "show"} =>
                  /\ host[arg[c]] # "none"
                  /\ arg[c] \in freed \/ host[arg[c]] = "ended" => arg[c] \in left
    /\ op["user"] = "AddHost" => arg["port"] # arg["user"]

\* The life of a host.
HostInv ==
    /\ \A h \in list["hosts"] :
           \/ host[h] \in Running \cup {"remove"}
           \/ host[h] = "none" /\ \E c \in Callers : Adding(c, h)
    /\ \A h \in Hosts :
           /\ host[h] \in Running \cup {"remove", "close"} => h \in opened
           /\ host[h] \in Running \cup {"remove", "close", "free"} => h \notin freed
           /\ host[h] \in {"remove", "close", "free"} => h \in left
    /\ \A h \in rows :
           /\ host[h] # "none"
           /\ op["user"] # "Exit" /\ h \in freed => h \in left
           /\ op["user"] # "Exit" /\ host[h] = "ended" =>
                  h \in left \/ (op["user"] = "RemoveHost" /\ arg["user"] = h)
    /\ op["user"] = "RemoveHost" =>
           /\ arg["user"] \in rows
           /\ at["user"] # "lock" => arg["user"] \notin list["hosts"]
           /\ at["user"] # "free" => arg["user"] \in opened \/ arg["user"] \in left
           /\ at["user"] \in {"close", "free"} =>
                  arg["user"] \notin freed /\ host[arg["user"]] = "ended"

\* What a HostThread has found; a download of a key belongs to one HostThread, and to no user.
FetchInv ==
    /\ \A h \in Hosts :
           /\ host[h] = "use" => found[h] \in Searches
           /\ host[h] = "answer" => found[h] \in {"groups", None}
           /\ host[h] \in Fetches => found[h] \in Gets /\ fetch[found[h]] # None
           /\ host[h] \in Fetching => get[found[h]] = "none"
           /\ host[h] = "start" => found[h] \in list["gets"]
    /\ \A h, i \in Hosts : host[h] \in Fetching /\ host[i] \in Fetching /\ found[h] = found[i] => h = i
    /\ op["user"] \in {"Get", "GetStop"} => fetch[arg["user"]] = None

\* The life of a search, and of a download.
GetInv ==
    /\ op["user"] \in {"Search", "JoinGroup"} /\ at["user"] = "lock" => arg["user"] \notin freed
    /\ \A g \in Gets :
           /\ get[g] \in {"run", "tell", "lock", "remove"} => g \in list["gets"]
           /\ get[g] # "ended" => g \notin freed
           /\ get[g] = "free" => g \notin list["gets"]
           /\ g \in stopped => get[g] \in {"free", "ended"}
    /\ op["user"] = "Get" /\ at["user"] # "started" => get[arg["user"]] = "none"
    /\ At("user", "Get", "start") => arg["user"] \in list["gets"]
    /\ op["user"] = "GetStop" => get[arg["user"]] # "none"
    /\ At("user", "GetStop", "free") => get[arg["user"]] = "ended" /\ arg["user"] \in list["gets"]

\* What holds as long as nothing is undefined, and what that was.
Inv == CallInv /\ LockInv /\ LoopInv /\ AddInv /\ HostInv /\ FetchInv /\ GetInv
IInv == TypeOK /\ (misuse = {} => Inv) /\ UsedAlive

----------------------------------------------------------------------------
(* The initial states *)

LEMMA InitIInv == ASSUME Init PROVE IInv
<1> USE ThreadsAssumption DEF Init, Callers, Calls, Lists
<1>1. TypeOK
  BY DEF TypeOK
<1>2. CallInv
  BY DEF CallInv, Parts
<1>3. LockInv
  BY DEF LockInv, Holds, At, Locks
<1>4. LoopInv
  BY DEF LoopInv, InLoop, At
<1>5. AddInv
  BY DEF AddInv
<1>6. HostInv
  BY DEF HostInv, Running, Fetches, Fetching
<1>7. FetchInv
  BY DEF FetchInv, Fetches, Fetching
<1>8. GetInv
  BY DEF GetInv, At
<1> QED BY <1>1, <1>2, <1>3, <1>4, <1>5, <1>6, <1>7, <1>8 DEF IInv, Inv, UsedAlive, Locks

----------------------------------------------------------------------------
(* The steps *)

LEMMA CallPreserves ==
    ASSUME IInv, Sound, NEW c \in Callers, NEW o \in Calls, NEW x \in Objects \cup {None},
           Call(c, o, x)
    PROVE  IInv'
<1> USE ThreadsAssumption DEF Callers, Calls, Lists, At, callVars, threadVars, userVars, Call, MayCall, UserCalls,
        NewHost, NewGet, Unused, UserGet, Begin
<1>0. misuse = {} /\ TypeOK /\ CallInv /\ LockInv /\ LoopInv /\ AddInv /\ HostInv /\ FetchInv /\ GetInv /\ UsedAlive
  BY DEF IInv, Inv, Sound
<1>1. TypeOK'
  BY <1>0 DEF TypeOK, Sound
<1>2. misuse' = {}
  BY <1>0
<1>3. CallInv'
  BY <1>0 DEF TypeOK, CallInv
<1>4. LockInv'
  BY <1>0 DEF TypeOK, CallInv, LockInv, Locks, Holds, ListOf
<1>5. LoopInv'
  BY <1>0 DEF TypeOK, LoopInv, InLoop
<1>6. AddInv'
  BY <1>0 DEF TypeOK, CallInv, AddInv, HostInv
<1>7. HostInv'
  BY <1>0 DEF TypeOK, CallInv, AddInv, HostInv, Adding, Running, Fetches, Fetching
<1>8. FetchInv'
  BY <1>0 DEF TypeOK, CallInv, FetchInv, Fetches, Fetching
<1>9. GetInv'
  BY <1>0 DEF TypeOK, CallInv, GetInv
<1>10. lock'["gets"] = Killed => \E i \in Hosts : host'[i] = "ended" /\ found'[i] \in Gets
  BY <1>0 DEF TypeOK, Locks, UsedAlive
<1> QED
  BY <1>1, <1>2, <1>3, <1>4, <1>5, <1>6, <1>7, <1>8, <1>9, <1>10 DEF IInv, Inv, UsedAlive, LockInv

LEMMA CallLockPreserves ==
    ASSUME IInv, Sound, NEW c \in Callers, CallLock(c)
    PROVE  IInv'
<1> USE ThreadsAssumption DEF Callers, Calls, Lists, At, callVars, threadVars, userVars, CallLock, Lock, GoTo, ListOf
<1>0. misuse = {} /\ TypeOK /\ CallInv /\ LockInv /\ LoopInv /\ AddInv /\ HostInv /\ FetchInv /\ GetInv /\ UsedAlive
  BY DEF IInv, Inv, Sound
<1>1. TypeOK'
  BY <1>0 DEF TypeOK, Threads, Sound
<1>2. misuse' = {}
  BY <1>0
<1>3. CallInv'
  BY <1>0 DEF TypeOK, CallInv
<1>4. LockInv'
  BY <1>0 DEF TypeOK, CallInv, LockInv, Locks, Holds, ListOf
<1>5. LoopInv'
  BY <1>0 DEF TypeOK, LoopInv, InLoop
<1>6. AddInv'
  BY <1>0 DEF TypeOK, CallInv, AddInv
<1>7. HostInv'
  BY <1>0 DEF TypeOK, CallInv, AddInv, HostInv, Adding, Running, Fetches, Fetching
<1>8. FetchInv'
  BY <1>0 DEF TypeOK, CallInv, FetchInv, Fetches, Fetching
<1>9. GetInv'
  BY <1>0 DEF TypeOK, CallInv, GetInv
<1>10. lock'["gets"] = Killed => \E i \in Hosts : host'[i] = "ended" /\ found'[i] \in Gets
  BY <1>0 DEF TypeOK, Locks, UsedAlive
<1> QED
  BY <1>1, <1>2, <1>3, <1>4, <1>5, <1>6, <1>7, <1>8, <1>9, <1>10 DEF IInv, Inv, UsedAlive, LockInv

LEMMA ConnectPreserves ==
    ASSUME IInv, Sound, Connect
    PROVE  IInv'
<1> USE ThreadsAssumption DEF Callers, Calls, Lists, At, callVars, threadVars, userVars, Connect, GoTo, Return
<1>0. misuse = {} /\ TypeOK /\ CallInv /\ LockInv /\ LoopInv /\ AddInv /\ HostInv /\ FetchInv /\ GetInv /\ UsedAlive
  BY DEF IInv, Inv, Sound
<1>1. TypeOK'
  BY <1>0 DEF TypeOK, Sound
<1>2. misuse' = {}
  BY <1>0
<1>3. CallInv'
  BY <1>0 DEF TypeOK, CallInv
<1>4. LockInv'
  BY <1>0 DEF TypeOK, CallInv, LockInv, Locks, Holds, ListOf
<1>5. LoopInv'
  BY <1>0 DEF TypeOK, LoopInv, InLoop
<1>6. AddInv'
  BY <1>0 DEF TypeOK, CallInv, AddInv
<1>7. HostInv'
  BY <1>0 DEF TypeOK, CallInv, AddInv, HostInv, Adding, Running, Fetches, Fetching
<1>8. FetchInv'
  BY <1>0 DEF TypeOK, CallInv, FetchInv, Fetches, Fetching
<1>9. GetInv'
  BY <1>0 DEF TypeOK, CallInv, GetInv
<1>10. lock'["gets"] = Killed => \E i \in Hosts : host'[i] = "ended" /\ found'[i] \in Gets
  BY <1>0 DEF TypeOK, Locks, UsedAlive
<1> QED
  BY <1>1, <1>2, <1>3, <1>4, <1>5, <1>6, <1>7, <1>8, <1>9, <1>10 DEF IInv, Inv, UsedAlive, LockInv

LEMMA AddHostPreserves ==
    ASSUME IInv, Sound, NEW c \in Callers, AddHost(c)
    PROVE  IInv'
<1> USE ThreadsAssumption DEF Callers, Calls, Lists, At, callVars, threadVars, userVars, AddHost, Insert, Unlock, GoTo,
        Use, Uses, Misuses, Return
<1>0. misuse = {} /\ TypeOK /\ CallInv /\ LockInv /\ LoopInv /\ AddInv /\ HostInv /\ FetchInv /\ GetInv /\ UsedAlive
  BY DEF IInv, Inv, Sound
<1>1. TypeOK'
  BY <1>0 DEF TypeOK, CallInv, AddInv, Sound
<1>2. \A m \in misuse' : /\ m.call \in {"Start", "AddListItem"} /\ m.of \in left'
  BY <1>0 DEF CallInv, AddInv
<1>3. ASSUME misuse' = {} PROVE CallInv'
  BY <1>0, <1>3 DEF TypeOK, CallInv
<1>4. ASSUME misuse' = {} PROVE LockInv'
  BY <1>0, <1>4 DEF TypeOK, CallInv, LockInv, Locks, Holds, ListOf, AddInv
<1>5. ASSUME misuse' = {} PROVE LoopInv'
  BY <1>0, <1>5 DEF TypeOK, LoopInv, InLoop
<1>6. ASSUME misuse' = {} PROVE AddInv'
  BY <1>0, <1>6 DEF TypeOK, CallInv, AddInv
<1>7. ASSUME misuse' = {} PROVE HostInv'
  BY <1>0, <1>7 DEF TypeOK, CallInv, AddInv, HostInv, Adding, Running, Fetches, Fetching
<1>8. ASSUME misuse' = {} PROVE FetchInv'
  BY <1>0, <1>8 DEF TypeOK, CallInv, FetchInv, Fetches, Fetching
<1>9. ASSUME misuse' = {} PROVE GetInv'
  BY <1>0, <1>9 DEF TypeOK, CallInv, GetInv
<1>10. lock'["gets"] = Killed => \E i \in Hosts : host'[i] = "ended" /\ found'[i] \in Gets
  <2>1. lock'["gets"] = lock["gets"] /\ found' = found
    BY <1>0 DEF TypeOK, Locks
  <2>2. \A i \in Hosts : host[i] = "ended" => host'[i] = "ended"
    BY <1>0 DEF TypeOK, AddInv
  <2> QED
    BY <1>0, <2>1, <2>2 DEF UsedAlive
<1>11. lock'["hosts"] = Killed => left' # {} \/ arg'["port"] # None
  BY <1>0 DEF TypeOK, CallInv, LockInv, HostInv, AddInv, Locks, UsedAlive
<1>12. UsedAlive'
  BY <1>2, <1>10, <1>11 DEF UsedAlive
<1> QED
  BY <1>1, <1>3, <1>4, <1>5, <1>6, <1>7, <1>8, <1>9, <1>12 DEF IInv, Inv

LEMMA PutPreserves ==
    ASSUME IInv, Sound, Put
    PROVE  IInv'
<1> USE ThreadsAssumption DEF Callers, Calls, Lists, At, callVars, threadVars, userVars, Put, Use, Uses, Misuses
<1>0. misuse = {} /\ TypeOK /\ CallInv /\ LockInv /\ LoopInv /\ AddInv /\ HostInv /\ FetchInv /\ GetInv /\ UsedAlive
  BY DEF IInv, Inv, Sound
<1>1. TypeOK'
  BY <1>0 DEF TypeOK, Sound
<1>2. \A m \in misuse' : m.of \in Parts /\ op'["user"] = "Exit"
  BY <1>0 DEF CallInv, Parts
<1>3. ASSUME misuse' = {} PROVE CallInv'
  BY <1>0, <1>3 DEF TypeOK, CallInv
<1>4. ASSUME misuse' = {} PROVE LockInv'
  BY <1>0, <1>4 DEF TypeOK, CallInv, LockInv, Locks, Holds, ListOf
<1>5. ASSUME misuse' = {} PROVE LoopInv'
  BY <1>0, <1>5 DEF TypeOK, LoopInv, InLoop
<1>6. ASSUME misuse' = {} PROVE AddInv'
  BY <1>0, <1>6 DEF TypeOK, CallInv, AddInv
<1>7. ASSUME misuse' = {} PROVE HostInv'
  BY <1>0, <1>7 DEF TypeOK, CallInv, AddInv, HostInv, Adding, Running, Fetches, Fetching
<1>8. ASSUME misuse' = {} PROVE FetchInv'
  BY <1>0, <1>8 DEF TypeOK, CallInv, FetchInv, Fetches, Fetching
<1>9. ASSUME misuse' = {} PROVE GetInv'
  BY <1>0, <1>9 DEF TypeOK, CallInv, GetInv
<1>10. lock'["gets"] = Killed => \E i \in Hosts : host'[i] = "ended" /\ found'[i] \in Gets
  BY <1>0 DEF TypeOK, Locks, UsedAlive
<1>11. lock'["hosts"] = Killed => left' # {} \/ arg'["port"] # None
  BY <1>0 DEF TypeOK, Locks, UsedAlive
<1>12. UsedAlive'
  BY <1>2, <1>10, <1>11 DEF UsedAlive
<1> QED
  BY <1>1, <1>3, <1>4, <1>5, <1>6, <1>7, <1>8, <1>9, <1>12 DEF IInv, Inv

LEMMA RemoveHostPreserves ==
    ASSUME IInv, Sound, RemoveHost
    PROVE  IInv'
<1> USE ThreadsAssumption DEF Callers, Calls, Lists, At, callVars, threadVars, userVars, RemoveHost, Within, Remove, GoTo,
        Use, Uses, Misuses, NotKilled, Return, Killing, Closed
<1>0. misuse = {} /\ TypeOK /\ CallInv /\ LockInv /\ LoopInv /\ AddInv /\ HostInv /\ FetchInv /\ GetInv /\ UsedAlive
  BY DEF IInv, Inv, Sound
<1>1. TypeOK'
  BY <1>0 DEF TypeOK, CallInv, HostInv, Sound
<1>2. \A m \in misuse' : m.call = "RemoveHost" /\ m.of \in left'
  <2>1. CASE At("user", "RemoveHost", "lock")
    BY <1>0, <2>1 DEF CallInv, HostInv
  <2>2. CASE At("user", "RemoveHost", "kill")
    <3>1. arg["port"] # arg["user"] /\ host[arg["user"]] # "none"
      BY <1>0, <2>2 DEF CallInv, AddInv, HostInv
    <3> QED
      BY <1>0, <2>2, <3>1 DEF CallInv, HostInv
  <2>3. CASE At("user", "RemoveHost", "close")
    BY <1>0, <2>3 DEF CallInv, HostInv, Parts
  <2>4. CASE At("user", "RemoveHost", "free")
    BY <1>0, <2>4 DEF CallInv, HostInv
  <2> QED
    BY <2>1, <2>2, <2>3, <2>4
<1>3. ASSUME misuse' = {} PROVE CallInv'
  BY <1>0, <1>3 DEF TypeOK, CallInv
<1>4. ASSUME misuse' = {} PROVE LockInv'
  <2>1. CASE At("user", "RemoveHost", "kill")
    BY <1>0, <2>1 DEF TypeOK, CallInv, HostInv, LockInv, Locks, Holds, ListOf
  <2>2. CASE ~At("user", "RemoveHost", "kill")
    BY <1>0, <2>2 DEF TypeOK, CallInv, LockInv, Locks, Holds, ListOf
  <2> QED
    BY <2>1, <2>2
<1>5. ASSUME misuse' = {} PROVE LoopInv'
  BY <1>0, <1>5 DEF TypeOK, LoopInv, InLoop
<1>6. ASSUME misuse' = {} PROVE AddInv'
  BY <1>0, <1>6 DEF TypeOK, CallInv, AddInv, HostInv
<1>7. ASSUME misuse' = {} PROVE HostInv'
  <2>1. CASE At("user", "RemoveHost", "lock")
    BY <1>0, <1>7, <2>1 DEF TypeOK, CallInv, AddInv, HostInv, Adding, Running, Fetches, Fetching
  <2>2. CASE At("user", "RemoveHost", "kill")
    <3> DEFINE x == arg["user"]
    <3>0. x \notin freed
      <4>1. misuse' = {[call |-> "RemoveHost", of |-> i] : i \in NotKilled(x) \cup (freed \cap {x})}
        BY <1>0, <2>2
      <4> QED
        BY ONLY <4>1, misuse' = {}, <1>7
    <3>1. x \in Hosts /\ x \in rows /\ x \notin list["hosts"] /\ x \notin freed
      BY <1>0, <2>2, <3>0 DEF CallInv, HostInv
    <3>2. /\ host' = [host EXCEPT ![x] = "ended"] /\ at' = [at EXCEPT !["user"] = "close"]
          /\ UNCHANGED <<op, arg, list, freed, rows, opened, left>>
      BY <1>0, <2>2
    <3>3. op["user"] = "RemoveHost" /\ at["user"] = "kill"
      BY <2>2
    <3> HIDE DEF x
    <3>5. \A h \in list'["hosts"] :
             \/ host'[h] \in Running \cup {"remove"}
             \/ host'[h] = "none" /\ \E c \in Callers : Adding(c, h)'
      <4> SUFFICES ASSUME NEW h \in list["hosts"]
                   PROVE  \/ host[h] \in Running \cup {"remove"}
                          \/ host[h] = "none" /\ \E c \in Callers : Adding(c, h)'
        BY <1>0, <3>1, <3>2 DEF TypeOK
      <4>1. \A c \in Callers : Adding(c, h) => Adding(c, h)'
        BY <3>2, <3>3, <1>0 DEF Adding, TypeOK
      <4> QED
        BY <1>0, <4>1 DEF HostInv
    <3>6. HostInv!2' /\ HostInv!3' /\ HostInv!4'
      BY <1>0, <3>1, <3>2, <3>3 DEF TypeOK, HostInv, Running, Fetches, Fetching, x
    <3> QED
      BY <3>5, <3>6 DEF HostInv
  <2>3. CASE At("user", "RemoveHost", "close")
    BY <1>0, <1>7, <2>3 DEF TypeOK, CallInv, AddInv, HostInv, Adding, Running, Fetches, Fetching
  <2>4. CASE At("user", "RemoveHost", "free")
    BY <1>0, <1>7, <2>4 DEF TypeOK, CallInv, AddInv, HostInv, Adding, Running, Fetches, Fetching
  <2> QED
    BY <2>1, <2>2, <2>3, <2>4
<1>8. ASSUME misuse' = {} PROVE FetchInv'
  BY <1>0, <1>8 DEF TypeOK, CallInv, FetchInv, Fetches, Fetching
<1>9. ASSUME misuse' = {} PROVE GetInv'
  BY <1>0, <1>9 DEF TypeOK, CallInv, GetInv
<1>10. lock'["gets"] = Killed => \E i \in Hosts : host'[i] = "ended" /\ found'[i] \in Gets
  BY <1>0 DEF TypeOK, CallInv, LockInv, FetchInv, Fetches, Fetching, Locks, UsedAlive
<1>11. lock'["hosts"] = Killed => left' # {} \/ arg'["port"] # None
  BY <1>0 DEF TypeOK, CallInv, LockInv, HostInv, AddInv, Locks, UsedAlive
<1>12. UsedAlive'
  BY <1>2, <1>10, <1>11 DEF UsedAlive
<1> QED
  BY <1>1, <1>3, <1>4, <1>5, <1>6, <1>7, <1>8, <1>9, <1>12 DEF IInv, Inv

LEMMA ExitAuthPreserves ==
    ASSUME IInv, Sound, ExitAuth
    PROVE  IInv'
<1> USE ThreadsAssumption DEF Callers, Calls, Lists, At, callVars, threadVars, userVars, ExitAuth, GoTo, Parts
<1>0. misuse = {} /\ TypeOK /\ CallInv /\ LockInv /\ LoopInv /\ AddInv /\ HostInv /\ FetchInv /\ GetInv /\ UsedAlive
  BY DEF IInv, Inv, Sound
<1>1. TypeOK'
  BY <1>0 DEF TypeOK, Sound
<1>2. misuse' = {}
  BY <1>0
<1>3. CallInv'
  BY <1>0 DEF TypeOK, CallInv
<1>4. LockInv'
  BY <1>0 DEF TypeOK, CallInv, LockInv, Locks, Holds, ListOf
<1>5. LoopInv'
  BY <1>0 DEF TypeOK, LoopInv, InLoop
<1>6. AddInv'
  BY <1>0 DEF TypeOK, CallInv, AddInv
<1>7. HostInv'
  BY <1>0 DEF TypeOK, CallInv, AddInv, HostInv, Adding, Running, Fetches, Fetching
<1>8. FetchInv'
  BY <1>0 DEF TypeOK, CallInv, FetchInv, Fetches, Fetching
<1>9. GetInv'
  BY <1>0 DEF TypeOK, CallInv, GetInv
<1>10. lock'["gets"] = Killed => \E i \in Hosts : host'[i] = "ended" /\ found'[i] \in Gets
  BY <1>0 DEF TypeOK, Locks, UsedAlive
<1> QED
  BY <1>1, <1>2, <1>3, <1>4, <1>5, <1>6, <1>7, <1>8, <1>9, <1>10 DEF IInv, Inv, UsedAlive, LockInv

LEMMA ExitSearchesPreserves ==
    ASSUME IInv, Sound, ExitSearches
    PROVE  IInv'
<1> USE ThreadsAssumption DEF Callers, Calls, Lists, At, callVars, threadVars, userVars, ExitSearches, Within, GoTo, Parts
<1>0. misuse = {} /\ TypeOK /\ CallInv /\ LockInv /\ LoopInv /\ AddInv /\ HostInv /\ FetchInv /\ GetInv /\ UsedAlive
  BY DEF IInv, Inv, Sound
<1>1. TypeOK'
  BY <1>0 DEF TypeOK, Sound
<1>2. misuse' = {}
  BY <1>0
<1>3. CallInv'
  BY <1>0 DEF TypeOK, CallInv
<1>4. LockInv'
  BY <1>0 DEF TypeOK, CallInv, LockInv, Locks, Holds, ListOf
<1>5. LoopInv'
  BY <1>0 DEF TypeOK, LoopInv, InLoop
<1>6. AddInv'
  BY <1>0 DEF TypeOK, CallInv, AddInv
<1>7. HostInv'
  BY <1>0 DEF TypeOK, CallInv, AddInv, HostInv, Adding, Running, Fetches, Fetching
<1>8. FetchInv'
  BY <1>0 DEF TypeOK, CallInv, FetchInv, Fetches, Fetching
<1>9. GetInv'
  BY <1>0 DEF TypeOK, CallInv, GetInv
<1>10. lock'["gets"] = Killed => \E i \in Hosts : host'[i] = "ended" /\ found'[i] \in Gets
  BY <1>0 DEF TypeOK, Locks, UsedAlive
<1> QED
  BY <1>1, <1>2, <1>3, <1>4, <1>5, <1>6, <1>7, <1>8, <1>9, <1>10 DEF IInv, Inv, UsedAlive, LockInv

LEMMA ExitGroupsPreserves ==
    ASSUME IInv, Sound, ExitGroups
    PROVE  IInv'
<1> USE ThreadsAssumption DEF Callers, Calls, Lists, At, callVars, threadVars, userVars, ExitGroups, GoTo, Parts
<1>0. misuse = {} /\ TypeOK /\ CallInv /\ LockInv /\ LoopInv /\ AddInv /\ HostInv /\ FetchInv /\ GetInv /\ UsedAlive
  BY DEF IInv, Inv, Sound
<1>1. TypeOK'
  BY <1>0 DEF TypeOK, Sound
<1>2. misuse' = {}
  BY <1>0
<1>3. CallInv'
  BY <1>0 DEF TypeOK, CallInv
<1>4. LockInv'
  BY <1>0 DEF TypeOK, CallInv, LockInv, Locks, Holds, ListOf
<1>5. LoopInv'
  BY <1>0 DEF TypeOK, LoopInv, InLoop
<1>6. AddInv'
  BY <1>0 DEF TypeOK, CallInv, AddInv
<1>7. HostInv'
  BY <1>0 DEF TypeOK, CallInv, AddInv, HostInv, Adding, Running, Fetches, Fetching
<1>8. FetchInv'
  BY <1>0 DEF TypeOK, CallInv, FetchInv, Fetches, Fetching
<1>9. GetInv'
  BY <1>0 DEF TypeOK, CallInv, GetInv
<1>10. lock'["gets"] = Killed => \E i \in Hosts : host'[i] = "ended" /\ found'[i] \in Gets
  BY <1>0 DEF TypeOK, Locks, UsedAlive
<1> QED
  BY <1>1, <1>2, <1>3, <1>4, <1>5, <1>6, <1>7, <1>8, <1>9, <1>10 DEF IInv, Inv, UsedAlive, LockInv

LEMMA ExitPortsPreserves ==
    ASSUME IInv, Sound, ExitPorts
    PROVE  IInv'
<1> USE ThreadsAssumption DEF Callers, Calls, Lists, At, callVars, threadVars, userVars, ExitPorts, Killing
<1>0. misuse = {} /\ TypeOK /\ CallInv /\ LockInv /\ LoopInv /\ AddInv /\ HostInv /\ FetchInv /\ GetInv /\ UsedAlive
  BY DEF IInv, Inv, Sound
<1>1. TypeOK'
  BY <1>0 DEF TypeOK, Sound
<1>2. misuse' = {}
  BY <1>0
<1>3. CallInv'
  BY <1>0 DEF TypeOK, CallInv
<1>4. LockInv'
  BY <1>0 DEF TypeOK, CallInv, LockInv, Locks, Holds, ListOf
<1>5. LoopInv'
  BY <1>0 DEF TypeOK, LoopInv, InLoop
<1>6. AddInv'
  BY <1>0 DEF TypeOK, CallInv, AddInv
<1>7. HostInv'
  BY <1>0 DEF TypeOK, CallInv, AddInv, HostInv, Adding, Running, Fetches, Fetching
<1>8. FetchInv'
  BY <1>0 DEF TypeOK, CallInv, FetchInv, Fetches, Fetching
<1>9. GetInv'
  BY <1>0 DEF TypeOK, CallInv, GetInv
<1>10. lock'["gets"] = Killed => \E i \in Hosts : host'[i] = "ended" /\ found'[i] \in Gets
  BY <1>0 DEF TypeOK, CallInv, LockInv, Holds, ListOf, Locks, UsedAlive
<1> QED
  BY <1>1, <1>2, <1>3, <1>4, <1>5, <1>6, <1>7, <1>8, <1>9, <1>10 DEF IInv, Inv, UsedAlive, LockInv

LEMMA ExitHostsPreserves ==
    ASSUME IInv, Sound, ExitHosts
    PROVE  IInv'
<1> USE ThreadsAssumption DEF Callers, Calls, Lists, At, callVars, threadVars, userVars, ExitHosts, Lock, GoTo, EachHost,
        Remove, Killing, Unlock, Misuses, NotKilled, Parts
<1>0. misuse = {} /\ TypeOK /\ CallInv /\ LockInv /\ LoopInv /\ AddInv /\ HostInv /\ FetchInv /\ GetInv /\ UsedAlive
  BY DEF IInv, Inv, Sound
<1>1. TypeOK'
  BY <1>0 DEF TypeOK, Threads, LoopInv, InLoop, Sound
<1>2. \A m \in misuse' : m.call = "Exit" /\ m.of = arg'["port"]
  <2> SUFFICES ASSUME NEW m \in misuse' PROVE m.call = "Exit" /\ m.of = arg["port"]
    BY <1>0
  <2>1. PICK h \in todo : m = [call |-> "Exit", of |-> h] /\ (h \in freed \/ h \in NotKilled(h) \/ h \notin opened)
    BY <1>0
  <2>2. At("user", "Exit", "free") /\ h \in list["hosts"] /\ h \notin freed
    BY <1>0, <2>1 DEF TypeOK, LoopInv, InLoop
  <2>3. CASE host[h] = "none"
    BY <1>0, <2>1, <2>2, <2>3 DEF TypeOK, HostInv, Adding, Running, Fetches, Fetching
  <2>4. CASE host[h] # "none"
    BY <1>0, <2>1, <2>2, <2>4 DEF TypeOK, HostInv
  <2> QED
    BY <2>3, <2>4
<1>3. ASSUME misuse' = {} PROVE CallInv'
  BY <1>0, <1>3 DEF TypeOK, CallInv
<1>4. ASSUME misuse' = {} PROVE LockInv'
  BY <1>0, <1>4 DEF TypeOK, CallInv, LockInv, Locks, Holds, ListOf
<1>5. ASSUME misuse' = {} PROVE LoopInv'
  BY <1>0, <1>5 DEF TypeOK, LoopInv, InLoop
<1>6. ASSUME misuse' = {} PROVE AddInv'
  BY <1>0, <1>6 DEF TypeOK, CallInv, AddInv
<1>7. ASSUME misuse' = {} PROVE HostInv'
  <2>1. CASE At("user", "Exit", "hosts")
    BY <1>0, <1>7, <2>1 DEF TypeOK, CallInv, HostInv, Adding
  <2>2. CASE At("user", "Exit", "free") /\ todo # {}
    BY <1>0, <1>7, <2>2 DEF TypeOK, CallInv, HostInv, Adding, Running, Fetches, Fetching
  <2>3. CASE At("user", "Exit", "free") /\ todo = {}
    BY <1>0, <1>7, <2>3 DEF TypeOK, CallInv, HostInv, Adding
  <2> QED
    BY <2>1, <2>2, <2>3
<1>8. ASSUME misuse' = {} PROVE FetchInv'
  BY <1>0, <1>8 DEF TypeOK, CallInv, FetchInv, Fetches, Fetching
<1>9. ASSUME misuse' = {} PROVE GetInv'
  BY <1>0, <1>9 DEF TypeOK, CallInv, GetInv
<1>10. lock'["gets"] = Killed => \E i \in Hosts : host'[i] = "ended" /\ found'[i] \in Gets
  BY <1>0 DEF TypeOK, CallInv, LockInv, FetchInv, Fetches, Fetching, Locks, UsedAlive
<1>11. lock'["hosts"] = Killed => left' # {} \/ arg'["port"] # None
  BY <1>0 DEF TypeOK, CallInv, LockInv, HostInv, AddInv, Locks, UsedAlive
<1>12. UsedAlive'
  BY <1>2, <1>10, <1>11 DEF UsedAlive
<1> QED
  BY <1>1, <1>3, <1>4, <1>5, <1>6, <1>7, <1>8, <1>9, <1>12 DEF IInv, Inv

LEMMA GetHostsPreserves ==
    ASSUME IInv, Sound, GetHosts
    PROVE  IInv'
<1> USE ThreadsAssumption DEF Callers, Calls, Lists, At, callVars, threadVars, userVars, GetHosts, EachHost, EachDone,
        Use, Uses, Misuses, Return, Unlock
<1>0. misuse = {} /\ TypeOK /\ CallInv /\ LockInv /\ LoopInv /\ AddInv /\ HostInv /\ FetchInv /\ GetInv /\ UsedAlive
  BY DEF IInv, Inv, Sound
<1>1. TypeOK'
  BY <1>0 DEF TypeOK, Sound
<1>2. misuse' = {}
  <2>1. todo # {} /\ At("user", "GetHosts", "body") => todo \cap freed = {}
    BY <1>0 DEF TypeOK, LoopInv, InLoop
  <2> QED
    BY <1>0, <2>1
<1>3. CallInv'
  BY <1>0 DEF TypeOK, CallInv
<1>4. LockInv'
  BY <1>0 DEF TypeOK, CallInv, LockInv, Locks, Holds, ListOf
<1>5. LoopInv'
  BY <1>0 DEF TypeOK, LoopInv, InLoop
<1>6. AddInv'
  BY <1>0 DEF TypeOK, CallInv, AddInv
<1>7. HostInv'
  BY <1>0 DEF TypeOK, CallInv, AddInv, HostInv, Adding, Running, Fetches, Fetching
<1>8. FetchInv'
  BY <1>0 DEF TypeOK, CallInv, FetchInv, Fetches, Fetching
<1>9. GetInv'
  BY <1>0 DEF TypeOK, CallInv, GetInv
<1>10. lock'["gets"] = Killed => \E i \in Hosts : host'[i] = "ended" /\ found'[i] \in Gets
  BY <1>0 DEF TypeOK, Locks, UsedAlive
<1> QED
  BY <1>1, <1>2, <1>3, <1>4, <1>5, <1>6, <1>7, <1>8, <1>9, <1>10 DEF IInv, Inv, UsedAlive, LockInv

LEMMA SearchPreserves ==
    ASSUME IInv, Sound, NEW o \in Searching, Search(o)
    PROVE  IInv'
<1> USE ThreadsAssumption DEF Callers, Calls, Lists, At, callVars, threadVars, userVars, Searching, Search, Within,
        Insert, Unlock, GoTo, Lock, EachDone, Return
<1>0. misuse = {} /\ TypeOK /\ CallInv /\ LockInv /\ LoopInv /\ AddInv /\ HostInv /\ FetchInv /\ GetInv /\ UsedAlive
  BY DEF IInv, Inv, Sound
<1>1. TypeOK'
  BY <1>0 DEF TypeOK, CallInv, GetInv, Threads, Objects, Sound
<1>2. misuse' = {}
  BY <1>0
<1>3. CallInv'
  BY <1>0 DEF TypeOK, CallInv
<1>4. LockInv'
  BY <1>0 DEF TypeOK, CallInv, LockInv, Locks, Holds, ListOf
<1>5. LoopInv'
  BY <1>0 DEF TypeOK, LoopInv, InLoop
<1>6. AddInv'
  BY <1>0 DEF TypeOK, CallInv, AddInv
<1>7. HostInv'
  BY <1>0 DEF TypeOK, CallInv, AddInv, HostInv, Adding, Running, Fetches, Fetching
<1>8. FetchInv'
  BY <1>0 DEF TypeOK, CallInv, FetchInv, Fetches, Fetching
<1>9. GetInv'
  BY <1>0 DEF TypeOK, CallInv, GetInv
<1>10. lock'["gets"] = Killed => \E i \in Hosts : host'[i] = "ended" /\ found'[i] \in Gets
  BY <1>0 DEF TypeOK, Locks, UsedAlive
<1> QED
  BY <1>1, <1>2, <1>3, <1>4, <1>5, <1>6, <1>7, <1>8, <1>9, <1>10 DEF IInv, Inv, UsedAlive, LockInv

LEMMA SendPreserves ==
    ASSUME IInv, Sound, NEW o \in Searching, Send(o)
    PROVE  IInv'
<1> USE ThreadsAssumption DEF Callers, Calls, Lists, At, callVars, threadVars, userVars, Searching, Send, EachHost, Use,
        Uses, Misuses
<1>0. misuse = {} /\ TypeOK /\ CallInv /\ LockInv /\ LoopInv /\ AddInv /\ HostInv /\ FetchInv /\ GetInv /\ UsedAlive
  BY DEF IInv, Inv, Sound
<1>1. TypeOK'
  BY <1>0 DEF TypeOK, Sound
<1>2. misuse' = {}
  BY <1>0 DEF TypeOK, LoopInv, InLoop
<1>3. CallInv'
  BY <1>0 DEF TypeOK, CallInv
<1>4. LockInv'
  BY <1>0 DEF TypeOK, CallInv, LockInv, Locks, Holds, ListOf
<1>5. LoopInv'
  BY <1>0 DEF TypeOK, LoopInv, InLoop
<1>6. AddInv'
  BY <1>0 DEF TypeOK, CallInv, AddInv
<1>7. HostInv'
  BY <1>0 DEF TypeOK, CallInv, AddInv, HostInv, Adding, Running, Fetches, Fetching
<1>8. FetchInv'
  BY <1>0 DEF TypeOK, CallInv, FetchInv, Fetches, Fetching
<1>9. GetInv'
  BY <1>0 DEF TypeOK, CallInv, GetInv
<1>10. lock'["gets"] = Killed => \E i \in Hosts : host'[i] = "ended" /\ found'[i] \in Gets
  BY <1>0 DEF TypeOK, Locks, UsedAlive
<1> QED
  BY <1>1, <1>2, <1>3, <1>4, <1>5, <1>6, <1>7, <1>8, <1>9, <1>10 DEF IInv, Inv, UsedAlive, LockInv

LEMMA JoinGroupPreserves ==
    ASSUME IInv, Sound, JoinGroup
    PROVE  IInv'
<1> USE ThreadsAssumption DEF Callers, Calls, Lists, At, callVars, threadVars, userVars, JoinGroup, Within, Remove, GoTo,
        Return
<1>0. misuse = {} /\ TypeOK /\ CallInv /\ LockInv /\ LoopInv /\ AddInv /\ HostInv /\ FetchInv /\ GetInv /\ UsedAlive
  BY DEF IInv, Inv, Sound
<1>1. TypeOK'
  BY <1>0 DEF TypeOK, CallInv, Objects, Sound
<1>2. misuse' = {}
  BY <1>0
<1>3. CallInv'
  BY <1>0 DEF TypeOK, CallInv
<1>4. LockInv'
  BY <1>0 DEF TypeOK, CallInv, LockInv, Locks, Holds, ListOf
<1>5. LoopInv'
  BY <1>0 DEF TypeOK, LoopInv, InLoop
<1>6. AddInv'
  BY <1>0 DEF TypeOK, CallInv, AddInv
<1>7. HostInv'
  BY <1>0 DEF TypeOK, CallInv, AddInv, HostInv, Adding, Running, Fetches, Fetching
<1>8. FetchInv'
  BY <1>0 DEF TypeOK, CallInv, FetchInv, Fetches, Fetching
<1>9. GetInv'
  BY <1>0 DEF TypeOK, CallInv, GetInv
<1>10. lock'["gets"] = Killed => \E i \in Hosts : host'[i] = "ended" /\ found'[i] \in Gets
  BY <1>0 DEF TypeOK, Locks, UsedAlive
<1> QED
  BY <1>1, <1>2, <1>3, <1>4, <1>5, <1>6, <1>7, <1>8, <1>9, <1>10 DEF IInv, Inv, UsedAlive, LockInv

LEMMA SearchStopPreserves ==
    ASSUME IInv, Sound, SearchStop
    PROVE  IInv'
<1> USE ThreadsAssumption DEF Callers, Calls, Lists, At, callVars, threadVars, userVars, SearchStop, Within, Return
<1>0. misuse = {} /\ TypeOK /\ CallInv /\ LockInv /\ LoopInv /\ AddInv /\ HostInv /\ FetchInv /\ GetInv /\ UsedAlive
  BY DEF IInv, Inv, Sound
<1>1. TypeOK'
  BY <1>0 DEF TypeOK, Sound
<1>2. misuse' = {}
  BY <1>0
<1>3. CallInv'
  BY <1>0 DEF TypeOK, CallInv
<1>4. LockInv'
  BY <1>0 DEF TypeOK, CallInv, LockInv, Locks, Holds, ListOf
<1>5. LoopInv'
  BY <1>0 DEF TypeOK, LoopInv, InLoop
<1>6. AddInv'
  BY <1>0 DEF TypeOK, CallInv, AddInv
<1>7. HostInv'
  BY <1>0 DEF TypeOK, CallInv, AddInv, HostInv, Adding, Running, Fetches, Fetching
<1>8. FetchInv'
  BY <1>0 DEF TypeOK, CallInv, FetchInv, Fetches, Fetching
<1>9. GetInv'
  BY <1>0 DEF TypeOK, CallInv, GetInv
<1>10. lock'["gets"] = Killed => \E i \in Hosts : host'[i] = "ended" /\ found'[i] \in Gets
  BY <1>0 DEF TypeOK, Locks, UsedAlive
<1> QED
  BY <1>1, <1>2, <1>3, <1>4, <1>5, <1>6, <1>7, <1>8, <1>9, <1>10 DEF IInv, Inv, UsedAlive, LockInv

LEMMA RequestPreserves ==
    ASSUME IInv, Sound, Request
    PROVE  IInv'
<1> USE ThreadsAssumption DEF Callers, Calls, Lists, At, callVars, threadVars, userVars, Request, GoTo, Return
<1>0. misuse = {} /\ TypeOK /\ CallInv /\ LockInv /\ LoopInv /\ AddInv /\ HostInv /\ FetchInv /\ GetInv /\ UsedAlive
  BY DEF IInv, Inv, Sound
<1>1. TypeOK'
  BY <1>0 DEF TypeOK, Sound
<1>2. misuse' = {}
  BY <1>0
<1>3. CallInv'
  BY <1>0 DEF TypeOK, CallInv
<1>4. LockInv'
  BY <1>0 DEF TypeOK, CallInv, LockInv, Locks, Holds, ListOf
<1>5. LoopInv'
  BY <1>0 DEF TypeOK, LoopInv, InLoop
<1>6. AddInv'
  BY <1>0 DEF TypeOK, CallInv, AddInv
<1>7. HostInv'
  BY <1>0 DEF TypeOK, CallInv, AddInv, HostInv, Adding, Running, Fetches, Fetching
<1>8. FetchInv'
  BY <1>0 DEF TypeOK, CallInv, FetchInv, Fetches, Fetching
<1>9. GetInv'
  BY <1>0 DEF TypeOK, CallInv, GetInv
<1>10. lock'["gets"] = Killed => \E i \in Hosts : host'[i] = "ended" /\ found'[i] \in Gets
  BY <1>0 DEF TypeOK, Locks, UsedAlive
<1> QED
  BY <1>1, <1>2, <1>3, <1>4, <1>5, <1>6, <1>7, <1>8, <1>9, <1>10 DEF IInv, Inv, UsedAlive, LockInv

LEMMA GetPreserves ==
    ASSUME IInv, Sound, Get
    PROVE  IInv'
<1> USE ThreadsAssumption DEF Callers, Calls, Lists, At, callVars, threadVars, userVars, Get, Within, GoTo, Insert, Use,
        Uses, Misuses, Return
<1>0. misuse = {} /\ TypeOK /\ CallInv /\ LockInv /\ LoopInv /\ AddInv /\ HostInv /\ FetchInv /\ GetInv /\ UsedAlive
  BY DEF IInv, Inv, Sound
<1>1. TypeOK'
  BY <1>0 DEF TypeOK, CallInv, GetInv, Objects, Sound
<1>2. \A m \in misuse' : m.call = "Start" /\ m.of \in Gets
  BY <1>0 DEF CallInv
<1>3. ASSUME misuse' = {} PROVE CallInv'
  BY <1>0, <1>3 DEF TypeOK, CallInv
<1>4. ASSUME misuse' = {} PROVE LockInv'
  BY <1>0, <1>4 DEF TypeOK, CallInv, LockInv, Locks, Holds, ListOf, GetInv
<1>5. ASSUME misuse' = {} PROVE LoopInv'
  BY <1>0, <1>5 DEF TypeOK, LoopInv, InLoop
<1>6. ASSUME misuse' = {} PROVE AddInv'
  BY <1>0, <1>6 DEF TypeOK, CallInv, AddInv
<1>7. ASSUME misuse' = {} PROVE HostInv'
  BY <1>0, <1>7 DEF TypeOK, CallInv, AddInv, HostInv, Adding, Running, Fetches, Fetching
<1>8. ASSUME misuse' = {} PROVE FetchInv'
  BY <1>0, <1>8 DEF TypeOK, CallInv, FetchInv, Fetches, Fetching
<1>9. ASSUME misuse' = {} PROVE GetInv'
  BY <1>0, <1>9 DEF TypeOK, CallInv, GetInv
<1>10. lock'["gets"] = Killed => \E i \in Hosts : host'[i] = "ended" /\ found'[i] \in Gets
  BY <1>0 DEF TypeOK, Locks, UsedAlive
<1>11. lock'["hosts"] = Killed => left' # {} \/ arg'["port"] # None
  BY <1>0 DEF TypeOK, Locks, UsedAlive
<1>12. UsedAlive'
  BY <1>2, <1>10, <1>11 DEF UsedAlive
<1> QED
  BY <1>1, <1>3, <1>4, <1>5, <1>6, <1>7, <1>8, <1>9, <1>12 DEF IInv, Inv

LEMMA GetWaitPreserves ==
    ASSUME IInv, Sound, GetWait
    PROVE  IInv'
<1> USE ThreadsAssumption DEF Callers, Calls, Lists, At, callVars, threadVars, userVars, GetWait, Within, GoTo, Return,
        Use, Uses, Misuses
<1>0. misuse = {} /\ TypeOK /\ CallInv /\ LockInv /\ LoopInv /\ AddInv /\ HostInv /\ FetchInv /\ GetInv /\ UsedAlive
  BY DEF IInv, Inv, Sound
<1>1. TypeOK'
  BY <1>0 DEF TypeOK, Sound
<1>2. \A m \in misuse' : m.call = "GetWait" /\ m.of \in Gets
  BY <1>0 DEF CallInv
<1>3. ASSUME misuse' = {} PROVE CallInv'
  BY <1>0, <1>3 DEF TypeOK, CallInv
<1>4. ASSUME misuse' = {} PROVE LockInv'
  BY <1>0, <1>4 DEF TypeOK, CallInv, LockInv, Locks, Holds, ListOf
<1>5. ASSUME misuse' = {} PROVE LoopInv'
  BY <1>0, <1>5 DEF TypeOK, LoopInv, InLoop
<1>6. ASSUME misuse' = {} PROVE AddInv'
  BY <1>0, <1>6 DEF TypeOK, CallInv, AddInv
<1>7. ASSUME misuse' = {} PROVE HostInv'
  BY <1>0, <1>7 DEF TypeOK, CallInv, AddInv, HostInv, Adding, Running, Fetches, Fetching
<1>8. ASSUME misuse' = {} PROVE FetchInv'
  BY <1>0, <1>8 DEF TypeOK, CallInv, FetchInv, Fetches, Fetching
<1>9. ASSUME misuse' = {} PROVE GetInv'
  BY <1>0, <1>9 DEF TypeOK, CallInv, GetInv
<1>10. lock'["gets"] = Killed => \E i \in Hosts : host'[i] = "ended" /\ found'[i] \in Gets
  BY <1>0 DEF TypeOK, Locks, UsedAlive
<1>11. lock'["hosts"] = Killed => left' # {} \/ arg'["port"] # None
  BY <1>0 DEF TypeOK, Locks, UsedAlive
<1>12. UsedAlive'
  BY <1>2, <1>10, <1>11 DEF UsedAlive
<1> QED
  BY <1>1, <1>3, <1>4, <1>5, <1>6, <1>7, <1>8, <1>9, <1>12 DEF IInv, Inv

LEMMA GetStopPreserves ==
    ASSUME IInv, Sound, GetStop
    PROVE  IInv'
<1> USE ThreadsAssumption DEF Callers, Calls, Lists, At, callVars, threadVars, userVars, GetStop, GoTo, Unlock, Return,
        Use, Uses, Misuses, Killing, Remove
<1>0. misuse = {} /\ TypeOK /\ CallInv /\ LockInv /\ LoopInv /\ AddInv /\ HostInv /\ FetchInv /\ GetInv /\ UsedAlive
  BY DEF IInv, Inv, Sound
<1>1. TypeOK'
  BY <1>0 DEF TypeOK, CallInv, GetInv, Objects, Sound
<1>2. misuse' = {}
  BY <1>0 DEF TypeOK, CallInv, GetInv
<1>3. CallInv'
  BY <1>0 DEF TypeOK, CallInv
<1>4. LockInv'
  BY <1>0 DEF TypeOK, CallInv, LockInv, Locks, Holds, ListOf
<1>5. LoopInv'
  BY <1>0 DEF TypeOK, LoopInv, InLoop
<1>6. AddInv'
  BY <1>0 DEF TypeOK, CallInv, AddInv
<1>7. HostInv'
  BY <1>0 DEF TypeOK, CallInv, AddInv, HostInv, Adding, Running, Fetches, Fetching
<1>8. FetchInv'
  BY <1>0 DEF TypeOK, CallInv, FetchInv, Fetches, Fetching
<1>9. GetInv'
  BY <1>0 DEF TypeOK, CallInv, GetInv
<1>10. lock'["gets"] = Killed => \E i \in Hosts : host'[i] = "ended" /\ found'[i] \in Gets
  <2>1. lock'["gets"] # Killed
    BY <1>0 DEF TypeOK, LockInv, Holds, ListOf, Locks
  <2> QED
    BY <2>1
<1> QED
  BY <1>1, <1>2, <1>3, <1>4, <1>5, <1>6, <1>7, <1>8, <1>9, <1>10 DEF IInv, Inv, UsedAlive, LockInv

LEMMA ReceivePreserves ==
    ASSUME IInv, Sound, NEW h \in Hosts, Receive(h)
    PROVE  IInv'
<1> USE ThreadsAssumption DEF Callers, Calls, Lists, At, callVars, threadVars, userVars, Receive, Use, Uses, Misuses,
        HostTo, Lock
<1>0. misuse = {} /\ TypeOK /\ CallInv /\ LockInv /\ LoopInv /\ AddInv /\ HostInv /\ FetchInv /\ GetInv /\ UsedAlive
  BY DEF IInv, Inv, Sound
<1>1. TypeOK'
  BY <1>0 DEF TypeOK, Threads, Sound
<1>2. misuse' = {}
  BY <1>0 DEF HostInv, Running
<1>3. CallInv'
  BY <1>0 DEF TypeOK, CallInv
<1>4. LockInv'
  BY <1>0 DEF TypeOK, CallInv, LockInv, Locks, Holds, ListOf
<1>5. LoopInv'
  BY <1>0 DEF TypeOK, LoopInv, InLoop
<1>6. AddInv'
  BY <1>0 DEF TypeOK, CallInv, AddInv
<1>7. HostInv'
  BY <1>0 DEF TypeOK, CallInv, AddInv, HostInv, Adding, Running, Fetches, Fetching
<1>8. FetchInv'
  BY <1>0 DEF TypeOK, CallInv, FetchInv, Fetches, Fetching
<1>9. GetInv'
  BY <1>0 DEF TypeOK, CallInv, GetInv
<1>10. lock'["gets"] = Killed => \E i \in Hosts : host'[i] = "ended" /\ found'[i] \in Gets
  BY <1>0 DEF TypeOK, Locks, UsedAlive
<1> QED
  BY <1>1, <1>2, <1>3, <1>4, <1>5, <1>6, <1>7, <1>8, <1>9, <1>10 DEF IInv, Inv, UsedAlive, LockInv

LEMMA HandleSearchResponsePreserves ==
    ASSUME IInv, Sound, NEW h \in Hosts, HandleSearchResponse(h)
    PROVE  IInv'
<1> USE ThreadsAssumption DEF Callers, Calls, Lists, At, callVars, threadVars, userVars, HandleSearchResponse, FindKey,
        NewGet, Unused, Unlock, HostTo, Use, Uses, Misuses
<1>0. misuse = {} /\ TypeOK /\ CallInv /\ LockInv /\ LoopInv /\ AddInv /\ HostInv /\ FetchInv /\ GetInv /\ UsedAlive
  BY DEF IInv, Inv, Sound
<1>1. TypeOK'
  BY <1>0 DEF TypeOK, Sound
<1>2. \A m \in misuse' : m.call = "HandleSearchResponse" /\ m.of \in Searches
  BY <1>0 DEF FetchInv
<1>3. ASSUME misuse' = {} PROVE CallInv'
  BY <1>0, <1>3 DEF TypeOK, CallInv
<1>4. ASSUME misuse' = {} PROVE LockInv'
  BY <1>0, <1>4 DEF TypeOK, CallInv, LockInv, Locks, Holds, ListOf
<1>5. ASSUME misuse' = {} PROVE LoopInv'
  BY <1>0, <1>5 DEF TypeOK, LoopInv, InLoop
<1>6. ASSUME misuse' = {} PROVE AddInv'
  BY <1>0, <1>6 DEF TypeOK, CallInv, AddInv
<1>7. ASSUME misuse' = {} PROVE HostInv'
  BY <1>0, <1>7 DEF TypeOK, CallInv, AddInv, HostInv, Adding, Running, Fetches, Fetching
<1>8. ASSUME misuse' = {} PROVE FetchInv'
  BY <1>0, <1>8 DEF TypeOK, CallInv, FetchInv, Fetches, Fetching
<1>9. ASSUME misuse' = {} PROVE GetInv'
  BY <1>0, <1>9 DEF TypeOK, CallInv, GetInv
<1>10. lock'["gets"] = Killed => \E i \in Hosts : host'[i] = "ended" /\ found'[i] \in Gets
  BY <1>0 DEF TypeOK, Locks, UsedAlive
<1>11. lock'["hosts"] = Killed => left' # {} \/ arg'["port"] # None
  BY <1>0 DEF TypeOK, Locks, UsedAlive
<1>12. UsedAlive'
  BY <1>2, <1>10, <1>11 DEF UsedAlive
<1> QED
  BY <1>1, <1>3, <1>4, <1>5, <1>6, <1>7, <1>8, <1>9, <1>12 DEF IInv, Inv

LEMMA HandleSearchRequestPreserves ==
    ASSUME IInv, Sound, NEW h \in Hosts, HandleSearchRequest(h)
    PROVE  IInv'
<1> USE ThreadsAssumption DEF Callers, Calls, Lists, At, callVars, threadVars, userVars, HandleSearchRequest, Unlock,
        HostTo, Use, Uses, Misuses
<1>0. misuse = {} /\ TypeOK /\ CallInv /\ LockInv /\ LoopInv /\ AddInv /\ HostInv /\ FetchInv /\ GetInv /\ UsedAlive
  BY DEF IInv, Inv, Sound
<1>1. TypeOK'
  BY <1>0 DEF TypeOK, Sound
<1>2. \A m \in misuse' : m.of \in Parts /\ op'["user"] = "Exit"
  BY <1>0 DEF TypeOK, CallInv, FetchInv, Parts, Objects
<1>3. ASSUME misuse' = {} PROVE CallInv'
  BY <1>0, <1>3 DEF TypeOK, CallInv
<1>4. ASSUME misuse' = {} PROVE LockInv'
  BY <1>0, <1>4 DEF TypeOK, CallInv, LockInv, Locks, Holds, ListOf
<1>5. ASSUME misuse' = {} PROVE LoopInv'
  BY <1>0, <1>5 DEF TypeOK, LoopInv, InLoop
<1>6. ASSUME misuse' = {} PROVE AddInv'
  BY <1>0, <1>6 DEF TypeOK, CallInv, AddInv
<1>7. ASSUME misuse' = {} PROVE HostInv'
  BY <1>0, <1>7 DEF TypeOK, CallInv, AddInv, HostInv, Adding, Running, Fetches, Fetching
<1>8. ASSUME misuse' = {} PROVE FetchInv'
  BY <1>0, <1>8 DEF TypeOK, CallInv, FetchInv, Fetches, Fetching
<1>9. ASSUME misuse' = {} PROVE GetInv'
  BY <1>0, <1>9 DEF TypeOK, CallInv, GetInv
<1>10. lock'["gets"] = Killed => \E i \in Hosts : host'[i] = "ended" /\ found'[i] \in Gets
  BY <1>0 DEF TypeOK, Locks, UsedAlive
<1>11. lock'["hosts"] = Killed => left' # {} \/ arg'["port"] # None
  BY <1>0 DEF TypeOK, Locks, UsedAlive
<1>12. UsedAlive'
  BY <1>2, <1>10, <1>11 DEF UsedAlive
<1> QED
  BY <1>1, <1>3, <1>4, <1>5, <1>6, <1>7, <1>8, <1>9, <1>12 DEF IInv, Inv

LEMMA FetchRequestPreserves ==
    ASSUME IInv, Sound, NEW h \in Hosts, FetchRequest(h)
    PROVE  IInv'
<1> USE ThreadsAssumption DEF Callers, Calls, Lists, At, callVars, threadVars, userVars, FetchRequest, Lock, HostTo, Uses,
        Misuses
<1>0. misuse = {} /\ TypeOK /\ CallInv /\ LockInv /\ LoopInv /\ AddInv /\ HostInv /\ FetchInv /\ GetInv /\ UsedAlive
  BY DEF IInv, Inv, Sound
<1>1. TypeOK'
  BY <1>0 DEF TypeOK, Threads, Sound
<1>2. \A m \in misuse' : m.of \in Parts /\ op'["user"] = "Exit"
  BY <1>0 DEF CallInv, Parts
<1>3. ASSUME misuse' = {} PROVE CallInv'
  BY <1>0, <1>3 DEF TypeOK, CallInv
<1>4. ASSUME misuse' = {} PROVE LockInv'
  BY <1>0, <1>4 DEF TypeOK, CallInv, LockInv, Locks, Holds, ListOf
<1>5. ASSUME misuse' = {} PROVE LoopInv'
  BY <1>0, <1>5 DEF TypeOK, LoopInv, InLoop
<1>6. ASSUME misuse' = {} PROVE AddInv'
  BY <1>0, <1>6 DEF TypeOK, CallInv, AddInv
<1>7. ASSUME misuse' = {} PROVE HostInv'
  BY <1>0, <1>7 DEF TypeOK, CallInv, AddInv, HostInv, Adding, Running, Fetches, Fetching
<1>8. ASSUME misuse' = {} PROVE FetchInv'
  BY <1>0, <1>8 DEF TypeOK, CallInv, FetchInv, Fetches, Fetching
<1>9. ASSUME misuse' = {} PROVE GetInv'
  BY <1>0, <1>9 DEF TypeOK, CallInv, GetInv
<1>10. lock'["gets"] = Killed => \E i \in Hosts : host'[i] = "ended" /\ found'[i] \in Gets
  BY <1>0 DEF TypeOK, Locks, UsedAlive
<1>11. lock'["hosts"] = Killed => left' # {} \/ arg'["port"] # None
  BY <1>0 DEF TypeOK, Locks, UsedAlive
<1>12. UsedAlive'
  BY <1>2, <1>10, <1>11 DEF UsedAlive
<1> QED
  BY <1>1, <1>3, <1>4, <1>5, <1>6, <1>7, <1>8, <1>9, <1>12 DEF IInv, Inv

LEMMA FetchStartPreserves ==
    ASSUME IInv, Sound, NEW h \in Hosts, FetchStart(h)
    PROVE  IInv'
<1> USE ThreadsAssumption DEF Callers, Calls, Lists, At, callVars, threadVars, userVars, FetchStart, Insert, Unlock,
        HostTo, Use, Uses, Misuses, Context
<1>0. misuse = {} /\ TypeOK /\ CallInv /\ LockInv /\ LoopInv /\ AddInv /\ HostInv /\ FetchInv /\ GetInv /\ UsedAlive
  BY DEF IInv, Inv, Sound
<1>1. TypeOK'
  BY <1>0 DEF TypeOK, FetchInv, GetInv, Fetches, Fetching, Objects, Sound
<1>2. \A m \in misuse' :
           \/ m.call \in {"FetchKey", "JoinCallback"} /\ m.of \in Searches
           \/ m.call = "Start" /\ m.of \in Gets
           \/ m.of \in Parts /\ op'["user"] = "Exit"
  BY <1>0 DEF TypeOK, CallInv, FetchInv, Fetches, Fetching, Parts
<1>3. ASSUME misuse' = {} PROVE CallInv'
  BY <1>0, <1>3 DEF TypeOK, CallInv
<1>4. ASSUME misuse' = {} PROVE LockInv'
  <2>1. CASE host[h] = "insert"
    BY <1>0, <1>4, <2>1 DEF TypeOK, LockInv, Locks, Holds, ListOf, FetchInv, Fetches, Fetching
  <2>2. CASE host[h] = "start"
    BY <1>0, <1>4, <2>2 DEF TypeOK, LockInv, Locks, Holds, ListOf, FetchInv, Fetches, Fetching
  <2>3. CASE host[h] = "event"
    BY <1>0, <1>4, <2>3 DEF TypeOK, LockInv, Locks, Holds, ListOf, FetchInv, Fetches, Fetching
  <2>4. CASE host[h] \in {"started", "pref"}
    BY <1>0, <1>4, <2>4 DEF TypeOK, LockInv, Locks, Holds, ListOf, FetchInv, Fetches, Fetching
  <2> QED
    BY <2>1, <2>2, <2>3, <2>4
<1>5. ASSUME misuse' = {} PROVE LoopInv'
  BY <1>0, <1>5 DEF TypeOK, LoopInv, InLoop
<1>6. ASSUME misuse' = {} PROVE AddInv'
  BY <1>0, <1>6 DEF TypeOK, CallInv, AddInv
<1>7. ASSUME misuse' = {} PROVE HostInv'
  BY <1>0, <1>7 DEF TypeOK, CallInv, AddInv, HostInv, Adding, Running, Fetches, Fetching
<1>8. ASSUME misuse' = {} PROVE FetchInv'
  BY <1>0, <1>8 DEF TypeOK, CallInv, FetchInv, Fetches, Fetching
<1>9. ASSUME misuse' = {} PROVE GetInv'
  BY <1>0, <1>9 DEF TypeOK, CallInv, GetInv, FetchInv, Fetches, Fetching
<1>10. lock'["gets"] = Killed => \E i \in Hosts : host'[i] = "ended" /\ found'[i] \in Gets
  BY <1>0 DEF TypeOK, Locks, UsedAlive
<1>11. lock'["hosts"] = Killed => left' # {} \/ arg'["port"] # None
  BY <1>0 DEF TypeOK, Locks, UsedAlive
<1>12. UsedAlive'
  BY <1>2, <1>10, <1>11 DEF UsedAlive
<1> QED
  BY <1>1, <1>3, <1>4, <1>5, <1>6, <1>7, <1>8, <1>9, <1>12 DEF IInv, Inv

LEMMA HostEndPreserves ==
    ASSUME IInv, Sound, NEW h \in Hosts, HostEnd(h)
    PROVE  IInv'
<1> USE ThreadsAssumption DEF Callers, Calls, Lists, At, callVars, threadVars, userVars, HostEnd, Use, Uses, Misuses,
        Unlock, Remove, HostTo, Closed
<1>0. misuse = {} /\ TypeOK /\ CallInv /\ LockInv /\ LoopInv /\ AddInv /\ HostInv /\ FetchInv /\ GetInv /\ UsedAlive
  BY DEF IInv, Inv, Sound
<1>1. TypeOK'
  BY <1>0 DEF TypeOK, HostInv, Objects, Running, Fetches, Fetching, Sound
<1>2. \A m \in misuse' : m.of \in Parts /\ op'["user"] = "Exit"
  BY <1>0 DEF CallInv, HostInv, Running, Parts
<1>3. ASSUME misuse' = {} PROVE CallInv'
  BY <1>0, <1>3 DEF TypeOK, CallInv
<1>4. ASSUME misuse' = {} PROVE LockInv'
  BY <1>0, <1>4 DEF TypeOK, CallInv, LockInv, Locks, Holds, ListOf
<1>5. ASSUME misuse' = {} PROVE LoopInv'
  BY <1>0, <1>5 DEF TypeOK, LockInv, LoopInv, InLoop, Holds, ListOf
<1>6. ASSUME misuse' = {} PROVE AddInv'
  BY <1>0, <1>6 DEF TypeOK, CallInv, AddInv, HostInv, Running, Fetches, Fetching
<1>7. ASSUME misuse' = {} PROVE HostInv'
  BY <1>0, <1>7 DEF TypeOK, CallInv, AddInv, HostInv, Adding, Running, Fetches, Fetching
<1>8. ASSUME misuse' = {} PROVE FetchInv'
  BY <1>0, <1>8 DEF TypeOK, CallInv, FetchInv, Fetches, Fetching
<1>9. ASSUME misuse' = {} PROVE GetInv'
  BY <1>0, <1>9 DEF TypeOK, CallInv, GetInv
<1>10. lock'["gets"] = Killed => \E i \in Hosts : host'[i] = "ended" /\ found'[i] \in Gets
  BY <1>0 DEF TypeOK, Locks, UsedAlive
<1>11. lock'["hosts"] = Killed => left' # {} \/ arg'["port"] # None
  BY <1>0 DEF TypeOK, Locks, UsedAlive
<1>12. UsedAlive'
  BY <1>2, <1>10, <1>11 DEF UsedAlive
<1> QED
  BY <1>1, <1>3, <1>4, <1>5, <1>6, <1>7, <1>8, <1>9, <1>12 DEF IInv, Inv

LEMMA FetchKeyPreserves ==
    ASSUME IInv, Sound, NEW g \in Gets, NEW where \in {"run", "tell"}, FetchKey(g, where)
    PROVE  IInv'
<1> USE ThreadsAssumption DEF Callers, Calls, Lists, At, callVars, threadVars, userVars, FetchKey, Misuses, Context, GetTo
<1>0. misuse = {} /\ TypeOK /\ CallInv /\ LockInv /\ LoopInv /\ AddInv /\ HostInv /\ FetchInv /\ GetInv /\ UsedAlive
  BY DEF IInv, Inv, Sound
<1>1. TypeOK'
  BY <1>0 DEF TypeOK, Sound
<1>2. \A m \in misuse' :
           \/ m.call = "FetchKey" /\ m.of \in Searches
           \/ m.of \in Parts /\ op'["user"] = "Exit"
  BY <1>0 DEF TypeOK, CallInv, GetInv, Parts
<1>3. ASSUME misuse' = {} PROVE CallInv'
  BY <1>0, <1>3 DEF TypeOK, CallInv
<1>4. ASSUME misuse' = {} PROVE LockInv'
  BY <1>0, <1>4 DEF TypeOK, CallInv, LockInv, Locks, Holds, ListOf
<1>5. ASSUME misuse' = {} PROVE LoopInv'
  BY <1>0, <1>5 DEF TypeOK, LoopInv, InLoop
<1>6. ASSUME misuse' = {} PROVE AddInv'
  BY <1>0, <1>6 DEF TypeOK, CallInv, AddInv
<1>7. ASSUME misuse' = {} PROVE HostInv'
  BY <1>0, <1>7 DEF TypeOK, CallInv, AddInv, HostInv, Adding, Running, Fetches, Fetching
<1>8. ASSUME misuse' = {} PROVE FetchInv'
  BY <1>0, <1>8 DEF TypeOK, CallInv, FetchInv, Fetches, Fetching
<1>9. ASSUME misuse' = {} PROVE GetInv'
  BY <1>0, <1>9 DEF TypeOK, CallInv, GetInv
<1>10. lock'["gets"] = Killed => \E i \in Hosts : host'[i] = "ended" /\ found'[i] \in Gets
  BY <1>0 DEF TypeOK, Locks, UsedAlive
<1>11. lock'["hosts"] = Killed => left' # {} \/ arg'["port"] # None
  BY <1>0 DEF TypeOK, Locks, UsedAlive
<1>12. UsedAlive'
  BY <1>2, <1>10, <1>11 DEF UsedAlive
<1> QED
  BY <1>1, <1>3, <1>4, <1>5, <1>6, <1>7, <1>8, <1>9, <1>12 DEF IInv, Inv

LEMMA DownloadPreserves ==
    ASSUME IInv, Sound, NEW g \in Gets, Download(g), fetch[g] = None
    PROVE  IInv'
<1> USE ThreadsAssumption DEF Callers, Calls, Lists, At, callVars, threadVars, userVars, Download, FetchKey, Tell, Use,
        Uses, Misuses, Lock, GetTo
<1>0. misuse = {} /\ TypeOK /\ CallInv /\ LockInv /\ LoopInv /\ AddInv /\ HostInv /\ FetchInv /\ GetInv /\ UsedAlive
  BY DEF IInv, Inv, Sound
<1>1. TypeOK'
  BY <1>0 DEF TypeOK, Threads, Sound
<1>2. misuse' = {}
  BY <1>0 DEF GetInv
<1>3. CallInv'
  BY <1>0 DEF TypeOK, CallInv
<1>4. LockInv'
  BY <1>0 DEF TypeOK, CallInv, LockInv, Locks, Holds, ListOf
<1>5. LoopInv'
  BY <1>0 DEF TypeOK, LoopInv, InLoop
<1>6. AddInv'
  BY <1>0 DEF TypeOK, CallInv, AddInv
<1>7. HostInv'
  BY <1>0 DEF TypeOK, CallInv, AddInv, HostInv, Adding, Running, Fetches, Fetching
<1>8. FetchInv'
  BY <1>0 DEF TypeOK, CallInv, FetchInv, Fetches, Fetching
<1>9. GetInv'
  BY <1>0 DEF TypeOK, CallInv, GetInv
<1>10. lock'["gets"] = Killed => \E i \in Hosts : host'[i] = "ended" /\ found'[i] \in Gets
  BY <1>0 DEF TypeOK, Locks, UsedAlive
<1> QED
  BY <1>1, <1>2, <1>3, <1>4, <1>5, <1>6, <1>7, <1>8, <1>9, <1>10 DEF IInv, Inv, UsedAlive, LockInv

LEMMA WindowPreserves ==
    ASSUME IInv, Sound, NEW g \in Gets, Window(g), fetch[g] = None
    PROVE  IInv'
<1> USE ThreadsAssumption DEF Callers, Calls, Lists, At, callVars, threadVars, userVars, Window, FetchKey, Tell, Misuses,
        Unlock, GetTo
<1>0. misuse = {} /\ TypeOK /\ CallInv /\ LockInv /\ LoopInv /\ AddInv /\ HostInv /\ FetchInv /\ GetInv /\ UsedAlive
  BY DEF IInv, Inv, Sound
<1>1. TypeOK'
  BY <1>0 DEF TypeOK, Sound
<1>2. misuse' = {}
  BY <1>0 DEF GetInv
<1>3. CallInv'
  BY <1>0 DEF TypeOK, CallInv
<1>4. LockInv'
  BY <1>0 DEF TypeOK, CallInv, LockInv, Locks, Holds, ListOf
<1>5. LoopInv'
  BY <1>0 DEF TypeOK, LoopInv, InLoop
<1>6. AddInv'
  BY <1>0 DEF TypeOK, CallInv, AddInv
<1>7. HostInv'
  BY <1>0 DEF TypeOK, CallInv, AddInv, HostInv, Adding, Running, Fetches, Fetching
<1>8. FetchInv'
  BY <1>0 DEF TypeOK, CallInv, FetchInv, Fetches, Fetching
<1>9. GetInv'
  BY <1>0 DEF TypeOK, CallInv, GetInv
<1>10. lock'["gets"] = Killed => \E i \in Hosts : host'[i] = "ended" /\ found'[i] \in Gets
  BY <1>0 DEF TypeOK, Locks, UsedAlive
<1> QED
  BY <1>1, <1>2, <1>3, <1>4, <1>5, <1>6, <1>7, <1>8, <1>9, <1>10 DEF IInv, Inv, UsedAlive, LockInv

LEMMA GetThreadPreserves ==
    ASSUME IInv, Sound, NEW g \in Gets, GetThread(g)
    PROVE  IInv'
<1> USE ThreadsAssumption DEF Callers, Calls, Lists, At, callVars, threadVars, userVars, GetThread, Use, Uses, Misuses,
        Lock, Unlock, Remove, GetTo
<1>0. misuse = {} /\ TypeOK /\ CallInv /\ LockInv /\ LoopInv /\ AddInv /\ HostInv /\ FetchInv /\ GetInv /\ UsedAlive
  BY DEF IInv, Inv, Sound
<1>1. TypeOK'
  BY <1>0 DEF TypeOK, GetInv, Threads, Objects, Sound
<1>2. \A m \in misuse' : m.of \in Parts /\ op'["user"] = "Exit"
  BY <1>0 DEF TypeOK, CallInv, GetInv, Parts
<1>3. ASSUME misuse' = {} PROVE CallInv'
  BY <1>0, <1>3 DEF TypeOK, CallInv
<1>4. ASSUME misuse' = {} PROVE LockInv'
  BY <1>0, <1>4 DEF TypeOK, CallInv, LockInv, Locks, Holds, ListOf
<1>5. ASSUME misuse' = {} PROVE LoopInv'
  BY <1>0, <1>5 DEF TypeOK, LoopInv, InLoop
<1>6. ASSUME misuse' = {} PROVE AddInv'
  BY <1>0, <1>6 DEF TypeOK, CallInv, AddInv
<1>7. ASSUME misuse' = {} PROVE HostInv'
  BY <1>0, <1>7 DEF TypeOK, CallInv, AddInv, HostInv, Adding, Running, Fetches, Fetching
<1>8. ASSUME misuse' = {} PROVE FetchInv'
  BY <1>0, <1>8 DEF TypeOK, CallInv, FetchInv, Fetches, Fetching
<1>9. ASSUME misuse' = {} PROVE GetInv'
  BY <1>0, <1>9 DEF TypeOK, CallInv, GetInv
<1>10. lock'["gets"] = Killed => \E i \in Hosts : host'[i] = "ended" /\ found'[i] \in Gets
  BY <1>0 DEF TypeOK, Locks, UsedAlive
<1>11. lock'["hosts"] = Killed => left' # {} \/ arg'["port"] # None
  BY <1>0 DEF TypeOK, Locks, UsedAlive
<1>12. UsedAlive'
  BY <1>2, <1>10, <1>11 DEF UsedAlive
<1> QED
  BY <1>1, <1>3, <1>4, <1>5, <1>6, <1>7, <1>8, <1>9, <1>12 DEF IInv, Inv

----------------------------------------------------------------------------
LEMMA NextPreserves == ASSUME IInv, [Next]_vars PROVE IInv'
<1>1. ASSUME UNCHANGED vars PROVE IInv'
  <2> USE <1>1 DEF vars, callVars, threadVars, userVars
  <2>1. TypeOK' <=> TypeOK
    BY DEF TypeOK
  <2>2. CallInv' <=> CallInv
    BY DEF CallInv
  <2>3. LockInv' <=> LockInv
    BY DEF LockInv, Holds, At
  <2>4. LoopInv' <=> LoopInv
    BY DEF LoopInv, InLoop, At
  <2>5. AddInv' <=> AddInv
    BY DEF AddInv
  <2>6. HostInv' <=> HostInv
    BY DEF HostInv, Adding
  <2>7. FetchInv' <=> FetchInv
    BY DEF FetchInv
  <2>8. GetInv' <=> GetInv
    BY DEF GetInv, At
  <2>9. UsedAlive' <=> UsedAlive
    BY DEF UsedAlive
  <2> QED
    BY <2>1, <2>2, <2>3, <2>4, <2>5, <2>6, <2>7, <2>8, <2>9 DEF IInv, Inv
<1>2. ASSUME Sound, NEW c \in Callers, NEW o \in Calls, NEW x \in Objects \cup {None}, Call(c, o, x)
      PROVE  IInv'
  BY <1>2, CallPreserves
<1>3. ASSUME NEW c \in Callers, CallStep(c) PROVE IInv'
  BY <1>3, CallLockPreserves, AddHostPreserves DEF CallStep
<1>4. ASSUME UserStep PROVE IInv'
  BY <1>4, RemoveHostPreserves, ExitAuthPreserves, ExitSearchesPreserves, ExitGroupsPreserves,
     ExitPortsPreserves, ExitHostsPreserves, GetHostsPreserves, SearchPreserves, SearchStopPreserves,
     JoinGroupPreserves, GetPreserves, GetWaitPreserves, GetStopPreserves DEF UserStep, Exit
<1>5. ASSUME NEW h \in Hosts, HostStep(h) PROVE IInv'
  BY <1>5, HandleSearchResponsePreserves, HandleSearchRequestPreserves, FetchStartPreserves,
     HostEndPreserves DEF HostStep
<1>6. ASSUME Sound, NEW g \in Gets, Window(g) \/ Download(g) PROVE IInv'
  <2>1. CASE fetch[g] = None
    BY <1>6, <2>1, WindowPreserves, DownloadPreserves
  <2>2. CASE fetch[g] # None
    BY <1>6, <2>2, FetchKeyPreserves DEF Window, Download, Tell
  <2> QED
    BY <2>1, <2>2
<1>7. ASSUME NEW g \in Gets, GetStep(g) PROVE IInv'
  BY <1>6, <1>7, GetThreadPreserves DEF GetStep
<1>8. ASSUME PeerStep PROVE IInv'
  BY <1>6, <1>8, ConnectPreserves, PutPreserves, RequestPreserves, SendPreserves, ReceivePreserves,
     FetchRequestPreserves DEF PeerStep
<1> QED
  BY <1>1, <1>2, <1>3, <1>4, <1>5, <1>7, <1>8 DEF Next

LEMMA ThreadsInvariant == Spec => []IInv
<1>1. Init => IInv
  BY InitIInv
<1>2. IInv /\ [Next]_vars => IInv'
  BY NextPreserves
<1> QED
  BY <1>1, <1>2, PTL DEF Spec

\* The types of the threads' state, and that a list holds nothing that has been freed.
THEOREM ThreadsTypeOK == Spec => []TypeOK
<1>1. IInv => TypeOK
  BY DEF IInv
<1> QED
  BY <1>1, ThreadsInvariant, PTL

\* Whatever the threads do, something freed is used, and a lock is lost with a killed
\* thread, only in the ways that UsedAlive allows.
THEOREM ThreadsUsedAlive == Spec => []UsedAlive
<1>1. IInv => UsedAlive
  BY DEF IInv
<1> QED
  BY <1>1, ThreadsInvariant, PTL
=============================================================================

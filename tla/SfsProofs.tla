----------------------------- MODULE SfsProofs ------------------------------
(***************************************************************************)
(* Proofs about module Sfs: clients and servers agree on their keys, and   *)
(* what is got is what was found, for any number of processes, commands    *)
(* and faults.                                                             *)
(***************************************************************************)
EXTENDS Sfs, TLAPS, FiniteSetTheorems, WellFoundedInduction

\* What is on a connection.
Message ==
    {Nothing, Closed}
    \cup [kind : {"auth"}, id : Ids]
    \cup [kind : {"chal"}, nonce : Nat, id : Ids]
    \cup [kind : {"resp"}, resp : Nat, chal : Nat]
    \cup [kind : {"key"}, resp : Nat, keyid : Nat, key : Nat]
    \cup [kind : {"search"}, keyid : Nat, key : Nat]
    \cup [kind : {"list"}, key : Nat, urls : SUBSET Url]
    \cup [kind : {"get"}, keyid : Nat, entry : Nat, shadow : Nat]
    \cup [kind : {"data"}, key : Nat, file : Files]

MsgType ==
    /\ msg \in [Procs -> Message]
    /\ DOMAIN url = Procs /\ DOMAIN got = Procs

\* What TypeOK says of each process and of each key.
Typed ==
    /\ pc \in [Procs -> {"idle", "auth", "resp", "ready", "search", "get"}]
    /\ serving \in [Procs -> BOOLEAN] /\ server \in [Procs -> Procs]
    /\ msg \in [Procs -> Message] /\ resps \in [Procs -> SUBSET Url]
    /\ DOMAIN url = Procs /\ \A p \in Procs : url[p] \in Url \cup {NoUrl}
    /\ chal \in [Procs -> Nat] /\ keyid \in [Procs -> Nat] /\ random \in Nat
    /\ DOMAIN got = Procs /\ DOMAIN files = Procs /\ DOMAIN pending = Procs
    /\ \A s \in Procs : \A c \in pending[s] : c.nonce \in Nat /\ c.id \in Ids

\* The rest of it.
RestTyped ==
    /\ store \in [Procs -> SUBSET Ids]
    /\ pending \in [Procs -> SUBSET [nonce : Nat, id : Ids]]
    /\ \A p \in Procs : got[p] = NoFile \/ got[p] \in [kind : {"file"}, want : Files, file : Files]
    /\ commands \in 0..MaxCommands /\ faults \in 0..MaxFaults
    /\ DOMAIN got = Procs

KeyTyped(k) ==
    /\ k.id \in Ids /\ k.ip \in Hosts /\ k.port \in {0} \cup Procs
    /\ k.keyid \in Nat /\ k.shadow \in Nat /\ k.key \in Nat

KeysTyped ==
    /\ DOMAIN keys = Procs
    /\ \A p \in Procs :
           DOMAIN keys[p] \subseteq Nat /\ \A i \in DOMAIN keys[p] : KeyTyped(keys[p][i])

\* The command of a process, and what is on its connection then.
Flow(p) ==
    /\ pc[p] \in {"idle", "ready"} => msg[p].kind = "nothing"
    /\ pc[p] = "auth" => msg[p].kind \in {"auth", "chal", "closed"}
    /\ pc[p] = "resp" => msg[p].kind \in {"resp", "key", "closed"}
    /\ pc[p] = "search" => msg[p].kind \in {"search", "list", "closed"}
    /\ pc[p] = "get" => msg[p].kind \in {"get", "data", "closed"} /\ url[p] # NoUrl
    /\ pc[p] # "idle" => ~serving[p] /\ server[p] # p
    /\ pc[p] = "idle" => url[p] = NoUrl
    /\ url[p] # NoUrl => url[p].server = server[p]
    /\ \A u \in resps[p] : u.server # p
    /\ msg[p].kind = "auth" => msg[p].id = Identity[p]
    /\ msg[p].kind = "get" => msg[p].entry = url[p].entry /\ msg[p].shadow = url[p].shadow
    /\ msg[p].kind = "list" => \A u \in msg[p].urls : u.server = server[p]
    /\ msg[p].kind = "data" => msg[p].file = url[p].file

FlowInv == \A p \in Procs : Flow(p)

\* A challenge is for the one who gets it.
Handed(p) ==
    /\ msg[p].kind = "chal" =>
           /\ msg[p].nonce < random
           /\ \A c \in pending[server[p]] : c.nonce = msg[p].nonce => c.id = Identity[p]
    /\ msg[p].kind = "resp" =>
           /\ msg[p].resp < random
           /\ \A c \in pending[server[p]] : c.nonce = msg[p].resp => c.id = Identity[p]

NonceInv ==
    /\ \A s \in Procs : \A c \in pending[s] : c.nonce < random
    /\ \A p \in Procs : Handed(p)

\* A list of keys: those that were made come before those that were given, no two of them
\* have the same number, user or value, and numbers are not used again.
KeyList(p) ==
    /\ ~serving[p] => \A i \in DOMAIN keys[p] : keys[p][i].port # 0
    /\ \A i, j \in DOMAIN keys[p] : i < j /\ keys[p][i].port # 0 => keys[p][j].port # 0
    /\ \A i \in DOMAIN keys[p] :
           IF keys[p][i].port = 0
           THEN keys[p][i].shadow \in 1..(random - 1) /\ keys[p][i].keyid < keyid[p]
           ELSE /\ keys[p][i].shadow = 0 /\ keys[p][i].port # p
                /\ keys[p][i].ip = Host[keys[p][i].port]
    /\ \A i, j \in DOMAIN keys[p] :
           /\ keys[p][i].port = 0 /\ keys[p][j].port = 0
           /\ \/ keys[p][i].keyid = keys[p][j].keyid
              \/ keys[p][i].id = keys[p][j].id /\ keys[p][i].ip = keys[p][j].ip
              \/ keys[p][i].key = keys[p][j].key
           => i = j

KeyInv == \A p \in Procs : KeyList(p)

\* The key is one of s: s has made it, or somebody was given it or asks under it there.
KeyFrom(key, s) ==
    \/ \E i \in DOMAIN keys[s] : keys[s][i].port = 0 /\ keys[s][i].key = key
    \/ \E p \in Procs : \E i \in DOMAIN keys[p] : keys[p][i].port = s /\ keys[p][i].key = key
    \/ \E p \in Procs : msg[p].kind \in {"key", "search"} /\ server[p] = s /\ msg[p].key = key

\* The key with this number was made for p if s still has it.
KeyFor(p, s, n, key) ==
    \A i \in DOMAIN keys[s] :
        keys[s][i].port = 0 /\ keys[s][i].key = key =>
            keys[s][i].keyid = n /\ keys[s][i].id = Identity[p]

\* No key is one of two servers, and who was given a key has the number it was made with.
SourceInv ==
    /\ \A s \in Procs, key \in Nat : KeyFrom(key, s) => key < random
    /\ \A s, t \in Procs, key \in Nat : KeyFrom(key, s) /\ KeyFrom(key, t) => s = t
    /\ \A p \in Procs : \A i \in DOMAIN keys[p] :
           keys[p][i].port # 0 => KeyFor(p, keys[p][i].port, keys[p][i].keyid, keys[p][i].key)
    /\ \A p \in Procs :
           msg[p].kind = "key" => KeyFor(p, server[p], msg[p].keyid, msg[p].key)

\* If the key that has hidden the entry number is still there, so is the file.
UrlRight(u) ==
    /\ u.shadow \in 1..(random - 1)
    /\ \A i \in DOMAIN keys[u.server] : keys[u.server][i].shadow = u.shadow =>
           u.entry \in DOMAIN files[u.server] /\ files[u.server][u.entry] = u.file

UrlInv ==
    \A p \in Procs :
        /\ \A u \in resps[p] : UrlRight(u)
        /\ url[p] # NoUrl => UrlRight(url[p])
        /\ msg[p].kind = "list" => \A u \in msg[p].urls : UrlRight(u)

IInv ==
    /\ TypeOK /\ MsgType
    /\ FlowInv /\ NonceInv /\ KeyInv /\ SourceInv /\ UrlInv
    /\ GetRight

----------------------------------------------------------------------------
(* What the kind of a message says of it *)

LEMMA MessageKinds ==
    \A m \in Message :
        /\ m = Nothing <=> m.kind = "nothing"
        /\ m = Closed <=> m.kind = "closed"
        /\ m.kind \in {"nothing", "closed", "auth", "chal", "resp", "key", "search", "list", "get", "data"}
        /\ m.kind = "auth" => m.id \in Ids
        /\ m.kind = "chal" => m.nonce \in Nat /\ m.id \in Ids
        /\ m.kind = "resp" => m.resp \in Nat /\ m.chal \in Nat
        /\ m.kind = "key" => m.keyid \in Nat /\ m.key \in Nat
        /\ m.kind = "search" => m.keyid \in Nat /\ m.key \in Nat
        /\ m.kind = "list" => m.urls \subseteq Url
        /\ m.kind = "get" => m.entry \in Nat /\ m.shadow \in Nat
        /\ m.kind = "data" => m.file \in Files
<1>1. ASSUME NEW m \in Message
      PROVE  \/ m = Nothing
             \/ m = Closed
             \/ m.kind = "auth" /\ m.id \in Ids
             \/ m.kind = "chal" /\ m.nonce \in Nat /\ m.id \in Ids
             \/ m.kind = "resp" /\ m.resp \in Nat /\ m.chal \in Nat
             \/ m.kind = "key" /\ m.keyid \in Nat /\ m.key \in Nat
             \/ m.kind = "search" /\ m.keyid \in Nat /\ m.key \in Nat
             \/ m.kind = "list" /\ m.urls \subseteq Url
             \/ m.kind = "get" /\ m.entry \in Nat /\ m.shadow \in Nat
             \/ m.kind = "data" /\ m.file \in Files
  BY DEF Message
<1>2. Nothing.kind = "nothing" /\ Closed.kind = "closed"
  BY DEF Nothing, Closed
<1> QED
  BY <1>1, <1>2

LEMMA Messages ==
    /\ Nothing \in Message /\ Closed \in Message
    /\ \A id \in Ids : [kind |-> "auth", id |-> id] \in Message
    /\ \A n \in Nat, id \in Ids : [kind |-> "chal", nonce |-> n, id |-> id] \in Message
    /\ \A m, n \in Nat : [kind |-> "resp", resp |-> m, chal |-> n] \in Message
    /\ \A m, n, k \in Nat : [kind |-> "key", resp |-> m, keyid |-> n, key |-> k] \in Message
    /\ \A n, k \in Nat : [kind |-> "search", keyid |-> n, key |-> k] \in Message
    /\ \A k \in Nat, urls \in SUBSET Url : [kind |-> "list", key |-> k, urls |-> urls] \in Message
    /\ \A n, e, x \in Nat : [kind |-> "get", keyid |-> n, entry |-> e, shadow |-> x] \in Message
    /\ \A k \in Nat, f \in Files : [kind |-> "data", key |-> k, file |-> f] \in Message
<1>1. Nothing \in Message /\ Closed \in Message
  BY DEF Message
<1>2. ASSUME NEW id \in Ids PROVE [kind |-> "auth", id |-> id] \in Message
  BY DEF Message
<1>3. ASSUME NEW n \in Nat, NEW id \in Ids PROVE [kind |-> "chal", nonce |-> n, id |-> id] \in Message
  BY DEF Message
<1>4. ASSUME NEW m \in Nat, NEW n \in Nat PROVE [kind |-> "resp", resp |-> m, chal |-> n] \in Message
  BY DEF Message
<1>5. ASSUME NEW m \in Nat, NEW n \in Nat, NEW k \in Nat
      PROVE  [kind |-> "key", resp |-> m, keyid |-> n, key |-> k] \in Message
  BY DEF Message
<1>6. ASSUME NEW n \in Nat, NEW k \in Nat PROVE [kind |-> "search", keyid |-> n, key |-> k] \in Message
  BY DEF Message
<1>7. ASSUME NEW k \in Nat, NEW urls \in SUBSET Url
      PROVE  [kind |-> "list", key |-> k, urls |-> urls] \in Message
  BY DEF Message
<1>8. ASSUME NEW n \in Nat, NEW e \in Nat, NEW x \in Nat
      PROVE  [kind |-> "get", keyid |-> n, entry |-> e, shadow |-> x] \in Message
  BY DEF Message
<1>9. ASSUME NEW k \in Nat, NEW f \in Files PROVE [kind |-> "data", key |-> k, file |-> f] \in Message
  BY DEF Message
<1> QED
  BY <1>1, <1>2, <1>3, <1>4, <1>5, <1>6, <1>7, <1>8, <1>9

LEMMA Urls ==
    ASSUME NEW u \in Url
    PROVE  /\ u \in [kind : {"url"}, server : Procs, keyid : Nat, entry : Nat, shadow : Nat, file : Files]
           /\ u # NoUrl
           /\ u.server \in Procs /\ u.keyid \in Nat /\ u.entry \in Nat /\ u.shadow \in Nat /\ u.file \in Files
<1>1. u.kind = "url" /\ NoUrl.kind = "none"
  BY DEF Url, NoUrl
<1> QED
  BY <1>1 DEF Url

----------------------------------------------------------------------------
(* The list of keys *)

LEMMA Least ==
    ASSUME NEW T, T \subseteq Nat, T # {}
    PROVE  \E i \in T : \A j \in T : i <= j
<1> DEFINE R == OpToRel(<, Nat)
<1>1. IsWellFoundedOn(R, Nat)
  BY Zenon, NatLessThanWellFounded
<1>2. PICK x \in T : \A y \in T : ~ (<<y, x>> \in R)
  <2> HIDE DEF R
  <2> QED
    BY <1>1, WFMin
<1>3. ASSUME NEW y \in T, y < x PROVE <<y, x>> \in R
  BY <1>3 DEF OpToRel
<1>4. ASSUME NEW y \in T PROVE x <= y
  <2> HIDE DEF R
  <2>1. ~(y < x)
    BY <1>2, <1>3
  <2> QED
    BY <2>1
<1> QED
  BY <1>2, <1>4

\* FindKey by place, by identity and place, and by number.
LEMMA KeyAtFinds ==
    ASSUME NEW list \in Seq(Key), NEW ip, NEW port, NEW k \in KeyAt(list, ip, port)
    PROVE  \E i \in DOMAIN list : k = list[i] /\ k.ip = ip /\ k.port = port
<1> DEFINE hits == {j \in DOMAIN list : list[j].ip = ip /\ list[j].port = port}
<1>1. hits # {} /\ k = list[CHOOSE i \in hits : \A j \in hits : i <= j]
  BY DEF KeyAt, First
<1>2. hits \subseteq Nat
  OBVIOUS
<1>3. \E i \in hits : \A j \in hits : i <= j
  <2> HIDE DEF hits
  <2> QED
    BY <1>1, <1>2, Least
<1> QED
  BY <1>1, <1>3

LEMMA KeyOfFinds ==
    ASSUME NEW list \in Seq(Key), NEW id, NEW ip, NEW port
    PROVE  /\ \A k \in KeyOf(list, id, ip, port) :
                  \E i \in DOMAIN list : k = list[i] /\ k.ip = ip /\ k.port = port /\ k.id = id
           /\ KeyOf(list, id, ip, port) = {} =>
                  \A i \in DOMAIN list : ~(list[i].ip = ip /\ list[i].port = port /\ list[i].id = id)
<1> DEFINE hits == {j \in DOMAIN list : list[j].ip = ip /\ list[j].port = port /\ list[j].id = id}
<1>1. CASE hits = {}
  BY <1>1 DEF KeyOf, First
<1>2. CASE hits # {}
  <2>1. KeyOf(list, id, ip, port) = {list[CHOOSE i \in hits : \A j \in hits : i <= j]}
    BY <1>2 DEF KeyOf, First
  <2>2. hits \subseteq Nat
    OBVIOUS
  <2>3. \E i \in hits : \A j \in hits : i <= j
    <3> HIDE DEF hits
    <3> QED
      BY <1>2, <2>2, Least
  <2> QED
    BY <2>1, <2>3
<1> QED
  BY <1>1, <1>2

LEMMA KeyNumberedFinds ==
    ASSUME NEW list \in Seq(Key), NEW n
    PROVE  /\ \A k \in KeyNumbered(list, n) : \E i \in DOMAIN list : k = list[i] /\ k.keyid = n
           /\ \A i \in DOMAIN list : list[i].keyid = n =>
                  \E j \in DOMAIN list : j <= i /\ list[j].keyid = n /\ KeyNumbered(list, n) = {list[j]}
<1> DEFINE hits == {j \in DOMAIN list : list[j].keyid = n}
<1>1. CASE hits = {}
  BY <1>1 DEF KeyNumbered, First
<1>2. CASE hits # {}
  <2>1. KeyNumbered(list, n) = {list[CHOOSE i \in hits : \A j \in hits : i <= j]}
    BY <1>2 DEF KeyNumbered, First
  <2>2. hits \subseteq Nat
    OBVIOUS
  <2>4. \E i \in hits : \A j \in hits : i <= j
    <3> HIDE DEF hits
    <3> QED
      BY <1>2, <2>2, Least
  <2>3. /\ (CHOOSE l \in hits : \A j \in hits : l <= j) \in hits
        /\ \A m \in hits : (CHOOSE l \in hits : \A j \in hits : l <= j) <= m
    BY <2>4
  <2> QED
    BY <2>1, <2>3
<1> QED
  BY <1>1, <1>2

LEMMA Consed ==
    ASSUME NEW list \in Seq(Key), NEW key \in Key
    PROVE  /\ <<key>> \o list \in Seq(Key)
           /\ (<<key>> \o list)[1] = key
           /\ \A i \in DOMAIN (<<key>> \o list) : i = 1 \/ (i - 1 \in DOMAIN list /\ (<<key>> \o list)[i] = list[i - 1])
           /\ 1 \in DOMAIN (<<key>> \o list)
           /\ \A i \in DOMAIN list : i + 1 \in DOMAIN (<<key>> \o list) /\ (<<key>> \o list)[i + 1] = list[i]
OBVIOUS

LEMMA Indices ==
    ASSUME NEW list \in Seq(Key)
    PROVE  DOMAIN list \subseteq Nat /\ \A i \in DOMAIN list : list[i] \in Key /\ KeyTyped(list[i])
<1>1. DOMAIN list \subseteq Nat /\ \A i \in DOMAIN list : list[i] \in Key
  OBVIOUS
<1> QED
  BY <1>1 DEF Key, KeyTyped

----------------------------------------------------------------------------
LEMMA Types == ASSUME TypeOK, MsgType PROVE Typed
BY DEF TypeOK, MsgType, Typed

LEMMA RestTypes == ASSUME TypeOK, MsgType PROVE RestTyped
BY DEF TypeOK, MsgType, RestTyped

LEMMA KeyTypes == ASSUME TypeOK PROVE KeysTyped /\ \A p \in Procs : keys[p] \in Seq(Key)
<1>1. keys \in [Procs -> Seq(Key)]
  BY DEF TypeOK
<1>2. \A p \in Procs : keys[p] \in Seq(Key)
  BY <1>1
<1> QED
  BY <1>1, <1>2, Indices DEF KeysTyped

LEMMA Imported ==
    ASSUME KeysTyped, NEW p \in Procs, keys[p] \in Seq(Key), NEW id \in Ids, NEW s \in Procs,
           NEW shared, shared.keyid \in Nat, shared.key \in Nat,
           NEW new, new = [id |-> id, ip |-> Host[s], port |-> s, keyid |-> shared.keyid,
                           shadow |-> 0, key |-> shared.key],
           NEW list, list = ImportKey(p, id, s, shared)
    PROVE  /\ list \in Seq(Key)
           /\ \A i \in DOMAIN list : list[i] = new \/ \E j \in DOMAIN keys[p] : list[i] = keys[p][j]
<1> DEFINE old == KeyOf(keys[p], id, Host[s], s)
           changed == [i \in DOMAIN keys[p] |-> IF keys[p][i] \in old THEN new ELSE keys[p][i]]
<1>1. new \in Key
  BY DEF Key, Hosts
<1>2. list = IF old = {} THEN <<new>> \o keys[p] ELSE changed
  BY DEF ImportKey
<1> HIDE DEF old
<1>3. \A i \in DOMAIN (<<new>> \o keys[p]) :
          (<<new>> \o keys[p])[i] = new \/ \E j \in DOMAIN keys[p] : (<<new>> \o keys[p])[i] = keys[p][j]
  BY <1>1, Consed
<1>4. changed \in Seq(Key)
  BY <1>1
<1>5. \A i \in DOMAIN changed : changed[i] = new \/ changed[i] = keys[p][i]
  OBVIOUS
<1>6. <<new>> \o keys[p] \in Seq(Key)
  BY <1>1, Consed
<1>7. \A i \in DOMAIN changed : changed[i] = new \/ \E j \in DOMAIN keys[p] : changed[i] = keys[p][j]
  BY <1>5
<1> HIDE DEF changed
<1>8. CASE old = {}
  BY <1>2, <1>3, <1>6, <1>8
<1>9. CASE old # {}
  BY <1>2, <1>4, <1>7, <1>9
<1> QED
  BY <1>8, <1>9

LEMMA InitIInv == ASSUME Init PROVE IInv
<1> USE SfsAssumption, SfsCertificates DEF Init
<1>1. TypeOK
  BY DEF TypeOK, Nothing
<1>2. MsgType
  BY Messages DEF MsgType
<1>3. FlowInv /\ NonceInv
  BY DEF FlowInv, Flow, NonceInv, Handed, Nothing
<1>4. KeyInv /\ SourceInv
  BY DEF KeyInv, KeyList, SourceInv, KeyFrom, Nothing
<1>5. UrlInv /\ GetRight
  BY DEF UrlInv, GetRight, Nothing
<1> QED
  BY <1>1, <1>2, <1>3, <1>4, <1>5 DEF IInv

----------------------------------------------------------------------------
(* A step that leaves the keys alone *)

\* TypeOK' from what the proofs show of a step.
LEMMA TypesBack ==
    ASSUME Typed', RestTyped', FlowInv',
           files' \in [Procs -> Seq(Files)], keys' \in [Procs -> Seq(Key)]
    PROVE  TypeOK' /\ MsgType'
<1>1. MsgType'
  BY DEF MsgType, Typed
<1>2. \A q \in Procs : msg'[q].kind \in {"nothing", "closed", "auth", "chal", "resp", "key",
                                         "search", "list", "get", "data"}
  BY MessageKinds DEF Typed
<1>3. \A q \in Procs : pc'[q] = "idle" => msg'[q] = Nothing
  BY MessageKinds DEF Typed, FlowInv, Flow
<1>4. TypeOK'
  BY <1>2, <1>3 DEF TypeOK, Typed, RestTyped
<1> QED
  BY <1>1, <1>4

LEMMA Wider ==
    ASSUME NEW m \in Nat, NEW n \in Nat, m <= n
    PROVE  \A i \in Int : i \in 1..(m - 1) => i \in 1..(n - 1)
OBVIOUS

\* A step of p's command, on either side.
LEMMA KeysAlone ==
    ASSUME IInv, NEW p \in Procs, Typed', RestTyped',
           UNCHANGED <<serving, files, keys, keyid>>,
           \A q \in Procs : q # p =>
               /\ pc'[q] = pc[q] /\ server'[q] = server[q] /\ url'[q] = url[q]
               /\ msg'[q] = msg[q] /\ resps'[q] = resps[q] /\ got'[q] = got[q],
           Flow(p)', Handed(p)',
           random <= random',
           \A s \in Procs : \A c \in pending'[s] :
               c \in pending[s] \/ (c.nonce = random /\ random < random'),
           msg'[p].kind = "search" => KeyFrom(msg'[p].key, server'[p]),
           msg'[p].kind = "key" => msg'[p] = msg[p] /\ server'[p] = server[p],
           \A u \in resps'[p] : UrlRight(u),
           url'[p] # NoUrl => UrlRight(url'[p]),
           msg'[p].kind = "list" => \A u \in msg'[p].urls : UrlRight(u),
           got'[p] # NoFile => got'[p].file = got'[p].want
    PROVE  IInv'
<1>0. TypeOK /\ MsgType /\ FlowInv /\ NonceInv /\ KeyInv /\ SourceInv /\ UrlInv /\ GetRight
  BY DEF IInv
<1>a. Typed /\ KeysTyped
  BY <1>0, Types, KeyTypes
<1>1. FlowInv'
  <2>1. ASSUME NEW q \in Procs, q # p PROVE Flow(q)'
    BY <1>0, <2>1 DEF FlowInv, Flow
  <2> QED
    BY <2>1 DEF FlowInv
<1>2. TypeOK' /\ MsgType'
  <2>1. files' \in [Procs -> Seq(Files)] /\ keys' \in [Procs -> Seq(Key)]
    BY <1>0 DEF TypeOK
  <2> QED
    BY <1>1, <2>1, TypesBack
<1>3. NonceInv'
  <2>1. \A t \in Procs : \A e \in pending'[t] : e.nonce < random'
    BY <1>0, <1>a DEF NonceInv, Typed
  <2>2. ASSUME NEW q \in Procs, q # p PROVE Handed(q)'
    <3>1. /\ msg[q].kind = "chal" => msg[q].nonce \in Nat
          /\ msg[q].kind = "resp" => msg[q].resp \in Nat
      BY <1>a, MessageKinds DEF Typed
    <3>2. Handed(q) /\ msg'[q] = msg[q] /\ server'[q] = server[q] /\ server[q] \in Procs
      BY <1>0, <1>a, <2>2 DEF NonceInv, Typed
    <3>3. \A e \in pending'[server'[q]] : e \in pending[server[q]] \/ e.nonce = random
      BY <3>2
    <3>4. random \in Nat /\ random' \in Nat
      BY <1>a DEF Typed
    <3> QED
      BY <3>1, <3>2, <3>3, <3>4 DEF Handed
  <2> QED
    BY <2>1, <2>2 DEF NonceInv
<1>4. KeyInv'
  <2>1. \A i \in Int : i \in 1..(random - 1) => i \in 1..(random' - 1)
    <3>1. random \in Nat /\ random' \in Nat
      BY <1>a DEF Typed
    <3> QED
      BY <3>1, Wider
  <2>2. ASSUME NEW q \in Procs PROVE KeyList(q)'
    <3>1. KeyList(q)
      BY <1>0 DEF KeyInv
    <3>2. \A i \in DOMAIN keys[q] : keys[q][i].shadow \in Int
      BY <1>a DEF KeysTyped, KeyTyped
    <3> QED
      BY <2>1, <3>1, <3>2 DEF KeyList
  <2> QED
    BY <2>2 DEF KeyInv
<1>5. SourceInv'
  <2>1. \A t \in Procs, v \in Nat : KeyFrom(v, t)' => KeyFrom(v, t)
    <3>1. \A q \in Procs : msg'[q].kind \in {"key", "search"} => KeyFrom(msg'[q].key, server'[q])
      BY DEF KeyFrom
    <3> QED
      BY <3>1 DEF KeyFrom
  <2>2. /\ \A t \in Procs, v \in Nat : KeyFrom(v, t)' => v < random'
        /\ \A t, u \in Procs, v \in Nat : KeyFrom(v, t)' /\ KeyFrom(v, u)' => t = u
    BY <1>0, <1>a, <2>1 DEF SourceInv, Typed
  <2>3. \A q, t \in Procs, n, v \in Nat : KeyFor(q, t, n, v) => KeyFor(q, t, n, v)'
    BY DEF KeyFor
  <2>4. \A q \in Procs : \A i \in DOMAIN keys'[q] :
            keys'[q][i].port # 0 => KeyFor(q, keys[q][i].port, keys[q][i].keyid, keys[q][i].key)'
    BY <1>0, <1>a, <2>3 DEF SourceInv, KeysTyped, KeyTyped
  <2>5. \A q \in Procs : msg'[q].kind = "key" => KeyFor(q, server[q], msg[q].keyid, msg[q].key)'
    <3>1. \A q \in Procs : msg'[q].kind = "key" => msg'[q] = msg[q] /\ server'[q] = server[q]
      OBVIOUS
    <3>2. \A q \in Procs : msg[q].kind = "key" =>
              msg[q].keyid \in Nat /\ msg[q].key \in Nat /\ server[q] \in Procs
      BY <1>a, MessageKinds DEF Typed
    <3> QED
      BY <1>0, <2>3, <3>1, <3>2 DEF SourceInv
  <2> QED
    BY <2>2, <2>4, <2>5 DEF SourceInv
<1>6. UrlInv'
  <2>1. ASSUME NEW u \in Url, UrlRight(u) PROVE UrlRight(u)'
    BY <1>a, <2>1 DEF UrlRight, Typed
  <2>2. \A q \in Procs : /\ \A u \in resps'[q] : u \in Url /\ UrlRight(u)
                         /\ url'[q] # NoUrl => url'[q] \in Url /\ UrlRight(url'[q])
                         /\ msg'[q].kind = "list" => \A u \in msg'[q].urls : u \in Url /\ UrlRight(u)
    BY <1>0, MessageKinds DEF UrlInv, Typed
  <2> QED
    BY <2>1, <2>2 DEF UrlInv
<1>7. GetRight'
  BY <1>0 DEF GetRight
<1> QED
  BY <1>1, <1>2, <1>3, <1>4, <1>5, <1>6, <1>7 DEF IInv

LEMMA CommandPreserves ==
    ASSUME IInv, NEW p \in Procs, NEW s \in Procs \ {p}, NEW what,
           what = NoUrl \/ (what \in resps[p] /\ what.server = s), Command(p, s, what)
    PROVE  IInv'
<1> USE SfsAssumption DEF clientVars, serverVars, bounds
<1>0. Typed /\ RestTyped /\ KeysTyped /\ FlowInv /\ NonceInv /\ SourceInv /\ UrlInv /\ GetRight
  BY Types, RestTypes, KeyTypes DEF IInv
<1>1. Typed'
  <2>1. [kind |-> "auth", id |-> Identity[p]] \in Message
    BY Messages DEF Ids
  <2> QED
    BY <1>0, <2>1 DEF Typed, Command
<1>2. RestTyped'
  BY <1>0 DEF RestTyped, Command
<1>3. /\ UNCHANGED <<serving, files, keys, keyid>> /\ random <= random'
      /\ \A q \in Procs : q # p =>
             /\ pc'[q] = pc[q] /\ server'[q] = server[q] /\ url'[q] = url[q]
             /\ msg'[q] = msg[q] /\ resps'[q] = resps[q] /\ got'[q] = got[q]
      /\ \A t \in Procs : \A c \in pending'[t] :
             c \in pending[t] \/ (c.nonce = random /\ random < random')
  BY <1>0 DEF Typed, RestTyped, Command
<1>4. Flow(p)'
  BY <1>0 DEF Typed, FlowInv, Flow, Command
<1>5. Handed(p)'
  BY <1>0 DEF Typed, Handed, FlowInv, Flow, Command
<1>6. /\ msg'[p].kind = "search" => KeyFrom(msg'[p].key, server'[p])
      /\ msg'[p].kind = "key" => msg'[p] = msg[p] /\ server'[p] = server[p]
      /\ msg'[p].kind = "list" => \A u \in msg'[p].urls : UrlRight(u)
  BY <1>0 DEF Typed, FlowInv, Flow, Command
<1>7. /\ \A u \in resps'[p] : UrlRight(u)
      /\ url'[p] # NoUrl => UrlRight(url'[p])
      /\ got'[p] # NoFile => got'[p].file = got'[p].want
  BY <1>0 DEF UrlInv, GetRight, Command
<1> QED
  BY <1>1, <1>2, <1>3, <1>4, <1>5, <1>6, <1>7, KeysAlone

LEMMA AuthRespondPreserves ==
    ASSUME IInv, NEW p \in Procs, AuthRespond(p)
    PROVE  IInv'
<1> USE SfsAssumption DEF clientVars, serverVars, bounds
<1>0. Typed /\ RestTyped /\ KeysTyped /\ FlowInv /\ NonceInv /\ SourceInv /\ UrlInv /\ GetRight
  BY Types, RestTypes, KeyTypes DEF IInv
<1>1. Typed'
  <2>1. Nothing \in Message /\ Closed \in Message
    BY Messages
  <2>2. [kind |-> "resp", resp |-> msg[p].nonce, chal |-> random] \in Message
    BY <1>0, MessageKinds, Messages DEF Typed, AuthRespond
  <2>3. msg' \in [Procs -> Message]
    BY <1>0, <2>1, <2>2 DEF Typed, AuthRespond, Write, Ends
  <2> QED
    BY <1>0, <2>3 DEF Typed, AuthRespond, Ends
<1>2. RestTyped'
  <2>1. msg[p].id \in Ids
    BY <1>0, MessageKinds DEF Typed, AuthRespond
  <2> QED
    BY <1>0, <2>1 DEF RestTyped, Inserted, AuthRespond
<1>3. /\ UNCHANGED <<serving, files, keys, keyid>> /\ random <= random'
      /\ \A q \in Procs : q # p =>
             /\ pc'[q] = pc[q] /\ server'[q] = server[q] /\ url'[q] = url[q]
             /\ msg'[q] = msg[q] /\ resps'[q] = resps[q] /\ got'[q] = got[q]
      /\ \A t \in Procs : \A c \in pending'[t] :
             c \in pending[t] \/ (c.nonce = random /\ random < random')
  BY <1>0 DEF Typed, AuthRespond, Write, Ends
<1>4. Flow(p)'
  BY <1>0 DEF Typed, FlowInv, Flow, Nothing, Closed, AuthRespond, Write, Ends
<1>5. Handed(p)'
  <2>1. \/ msg'[p].kind \in {"nothing", "closed"}
        \/ /\ msg'[p].kind = "resp" /\ msg'[p].resp = msg[p].nonce
           /\ msg[p].kind = "chal" /\ server'[p] = server[p]
    BY <1>0 DEF Typed, Nothing, Closed, AuthRespond, Write, Ends
  <2>2. pending' = pending /\ random \in Nat /\ random' \in Nat /\ random <= random'
    BY <1>0 DEF Typed, AuthRespond
  <2>3. msg[p].kind = "chal" => msg[p].nonce \in Nat
    BY <1>0, MessageKinds DEF Typed
  <2> QED
    BY <1>0, <2>1, <2>2, <2>3 DEF NonceInv, Handed
<1>6. /\ msg'[p].kind = "search" => KeyFrom(msg'[p].key, server'[p])
      /\ msg'[p].kind = "key" => msg'[p] = msg[p] /\ server'[p] = server[p]
      /\ msg'[p].kind = "list" => \A u \in msg'[p].urls : UrlRight(u)
  BY <1>0 DEF Typed, Nothing, Closed, AuthRespond, Write, Ends
<1>7. /\ \A u \in resps'[p] : UrlRight(u)
      /\ url'[p] # NoUrl => UrlRight(url'[p])
      /\ got'[p] # NoFile => got'[p].file = got'[p].want
  BY <1>0 DEF Typed, UrlInv, GetRight, AuthRespond, Ends
<1> QED
  BY <1>1, <1>2, <1>3, <1>4, <1>5, <1>6, <1>7, KeysAlone

LEMMA RequestPreserves ==
    ASSUME IInv, NEW p \in Procs, Request(p)
    PROVE  IInv'
<1> USE SfsAssumption DEF clientVars, serverVars, bounds
<1>0. Typed /\ RestTyped /\ KeysTyped /\ FlowInv /\ NonceInv /\ SourceInv /\ UrlInv /\ GetRight
  BY Types, RestTypes, KeyTypes DEF IInv
<1>a. PICK key \in KeyAt(keys[p], Host[server[p]], server[p]) :
          IF url[p] = NoUrl
          THEN /\ pc' = [pc EXCEPT ![p] = "search"]
               /\ Write(p, [kind |-> "search", keyid |-> key.keyid, key |-> key.key])
               /\ resps' = [resps EXCEPT ![p] = {}]
          ELSE /\ pc' = [pc EXCEPT ![p] = "get"]
               /\ Write(p, [kind |-> "get", keyid |-> url[p].keyid, entry |-> url[p].entry,
                            shadow |-> url[p].shadow])
               /\ UNCHANGED resps
  BY DEF Request
<1>b. PICK j \in DOMAIN keys[p] : key = keys[p][j] /\ key.port = server[p]
  <2>1. keys[p] \in Seq(Key)
    BY KeyTypes DEF IInv
  <2> QED
    BY <2>1, KeyAtFinds
<1>c. key.keyid \in Nat /\ key.key \in Nat
  BY <1>0, <1>b DEF KeysTyped, KeyTyped
<1>d. /\ pc[p] = "ready" /\ msg[p].kind = "nothing"
      /\ UNCHANGED <<serverVars, store, keys, server, url, chal, got, random, bounds>>
  BY <1>0 DEF Request, FlowInv, Flow
<1>1. Typed'
  <2>1. Closed \in Message /\ [kind |-> "search", keyid |-> key.keyid, key |-> key.key] \in Message
    BY <1>c, Messages
  <2>2. url[p] # NoUrl => [kind |-> "get", keyid |-> url[p].keyid, entry |-> url[p].entry,
                           shadow |-> url[p].shadow] \in Message
    BY <1>0, Urls, Messages DEF Typed
  <2> QED
    BY <1>0, <1>a, <1>d, <2>1, <2>2 DEF Typed, Write
<1>2. RestTyped'
  BY <1>0, <1>d DEF RestTyped
<1>3. /\ UNCHANGED <<serving, files, keys, keyid>> /\ random <= random'
      /\ \A q \in Procs : q # p =>
             /\ pc'[q] = pc[q] /\ server'[q] = server[q] /\ url'[q] = url[q]
             /\ msg'[q] = msg[q] /\ resps'[q] = resps[q] /\ got'[q] = got[q]
      /\ \A t \in Procs : \A c \in pending'[t] :
             c \in pending[t] \/ (c.nonce = random /\ random < random')
  BY <1>0, <1>a, <1>d DEF Typed, Write
<1>4. Flow(p)'
  BY <1>0, <1>a, <1>d DEF Typed, FlowInv, Flow, Closed, Write
<1>5. Handed(p)'
  BY <1>0, <1>a, <1>d DEF Typed, Handed, Closed, Write
<1>6. /\ msg'[p].kind = "search" => KeyFrom(msg'[p].key, server'[p])
      /\ msg'[p].kind = "key" => msg'[p] = msg[p] /\ server'[p] = server[p]
      /\ msg'[p].kind = "list" => \A u \in msg'[p].urls : UrlRight(u)
  BY <1>0, <1>a, <1>b, <1>d DEF Typed, KeyFrom, Closed, Write
<1>7. /\ \A u \in resps'[p] : UrlRight(u)
      /\ url'[p] # NoUrl => UrlRight(url'[p])
      /\ got'[p] # NoFile => got'[p].file = got'[p].want
  BY <1>0, <1>a, <1>d DEF Typed, UrlInv, GetRight
<1> QED
  BY <1>1, <1>2, <1>3, <1>4, <1>5, <1>6, <1>7, KeysAlone

LEMMA SearchDonePreserves ==
    ASSUME IInv, NEW p \in Procs, SearchDone(p)
    PROVE  IInv'
<1> USE SfsAssumption DEF clientVars, serverVars, bounds
<1>0. Typed /\ RestTyped /\ KeysTyped /\ FlowInv /\ NonceInv /\ SourceInv /\ UrlInv /\ GetRight
  BY Types, RestTypes, KeyTypes DEF IInv
<1>1. Typed'
  BY <1>0, MessageKinds, Messages DEF Typed, SearchDone, Ends
<1>2. RestTyped'
  BY <1>0 DEF RestTyped, SearchDone
<1>3. /\ UNCHANGED <<serving, files, keys, keyid>> /\ random <= random'
      /\ \A q \in Procs : q # p =>
             /\ pc'[q] = pc[q] /\ server'[q] = server[q] /\ url'[q] = url[q]
             /\ msg'[q] = msg[q] /\ resps'[q] = resps[q] /\ got'[q] = got[q]
      /\ \A t \in Procs : \A c \in pending'[t] :
             c \in pending[t] \/ (c.nonce = random /\ random < random')
  BY <1>0 DEF Typed, SearchDone, Ends
<1>4. Flow(p)'
  BY <1>0 DEF Typed, FlowInv, Flow, Nothing, SearchDone, Ends
<1>5. Handed(p)'
  BY <1>0 DEF Handed, Nothing, SearchDone, Ends
<1>6. /\ msg'[p].kind = "search" => KeyFrom(msg'[p].key, server'[p])
      /\ msg'[p].kind = "key" => msg'[p] = msg[p] /\ server'[p] = server[p]
      /\ msg'[p].kind = "list" => \A u \in msg'[p].urls : UrlRight(u)
  BY <1>0 DEF Typed, Nothing, SearchDone, Ends
<1>7. /\ \A u \in resps'[p] : UrlRight(u)
      /\ url'[p] # NoUrl => UrlRight(url'[p])
      /\ got'[p] # NoFile => got'[p].file = got'[p].want
  BY <1>0 DEF UrlInv, GetRight, SearchDone, Ends
<1> QED
  BY <1>1, <1>2, <1>3, <1>4, <1>5, <1>6, <1>7, KeysAlone

LEMMA GetDonePreserves ==
    ASSUME IInv, NEW p \in Procs, GetDone(p)
    PROVE  IInv'
<1> USE SfsAssumption DEF clientVars, serverVars, bounds
<1>0. Typed /\ RestTyped /\ KeysTyped /\ FlowInv /\ NonceInv /\ SourceInv /\ UrlInv /\ GetRight
  BY Types, RestTypes, KeyTypes DEF IInv
<1>1. Typed'
  BY <1>0, Messages DEF Typed, GetDone, Ends
<1>2. RestTyped'
  <2>1. msg[p].file \in Files /\ url[p].file \in Files
    BY <1>0, Urls DEF Typed, FlowInv, Flow, GetDone
  <2> QED
    BY <1>0, <2>1 DEF RestTyped, GetDone
<1>3. /\ UNCHANGED <<serving, files, keys, keyid>> /\ random <= random'
      /\ \A q \in Procs : q # p =>
             /\ pc'[q] = pc[q] /\ server'[q] = server[q] /\ url'[q] = url[q]
             /\ msg'[q] = msg[q] /\ resps'[q] = resps[q] /\ got'[q] = got[q]
      /\ \A t \in Procs : \A c \in pending'[t] :
             c \in pending[t] \/ (c.nonce = random /\ random < random')
  BY <1>0 DEF Typed, GetDone, Ends
<1>4. Flow(p)'
  BY <1>0 DEF Typed, FlowInv, Flow, Nothing, GetDone, Ends
<1>5. Handed(p)'
  BY <1>0 DEF Handed, Nothing, GetDone, Ends
<1>6. /\ msg'[p].kind = "search" => KeyFrom(msg'[p].key, server'[p])
      /\ msg'[p].kind = "key" => msg'[p] = msg[p] /\ server'[p] = server[p]
      /\ msg'[p].kind = "list" => \A u \in msg'[p].urls : UrlRight(u)
  BY <1>0 DEF Nothing, GetDone, Ends
<1>7. /\ \A u \in resps'[p] : UrlRight(u)
      /\ url'[p] # NoUrl => UrlRight(url'[p])
      /\ got'[p] # NoFile => got'[p].file = got'[p].want
  <2>1. /\ \A u \in resps'[p] : UrlRight(u)
        /\ url'[p] # NoUrl => UrlRight(url'[p])
    BY <1>0 DEF UrlInv, GetDone, Ends
  <2>2. msg[p].file = url[p].file
    BY <1>0 DEF FlowInv, Flow, GetDone
  <2>3. got'[p] # NoFile => got'[p].file = got'[p].want
    BY <1>0, <2>2 DEF RestTyped, GetDone
  <2> QED
    BY <2>1, <2>3
<1> QED
  BY <1>1, <1>2, <1>3, <1>4, <1>5, <1>6, <1>7, KeysAlone

LEMMA FailsPreserves ==
    ASSUME IInv, NEW p \in Procs, Fails(p)
    PROVE  IInv'
<1> USE SfsAssumption DEF clientVars, serverVars, bounds
<1>0. Typed /\ RestTyped /\ KeysTyped /\ FlowInv /\ NonceInv /\ SourceInv /\ UrlInv /\ GetRight
  BY Types, RestTypes, KeyTypes DEF IInv
<1>1. Typed'
  BY <1>0, Messages DEF Typed, Fails, Ends
<1>2. RestTyped'
  BY <1>0 DEF RestTyped, Fails
<1>3. /\ UNCHANGED <<serving, files, keys, keyid>> /\ random <= random'
      /\ \A q \in Procs : q # p =>
             /\ pc'[q] = pc[q] /\ server'[q] = server[q] /\ url'[q] = url[q]
             /\ msg'[q] = msg[q] /\ resps'[q] = resps[q] /\ got'[q] = got[q]
      /\ \A t \in Procs : \A c \in pending'[t] :
             c \in pending[t] \/ (c.nonce = random /\ random < random')
  BY <1>0 DEF Typed, Fails, Ends
<1>4. Flow(p)'
  BY <1>0 DEF Typed, FlowInv, Flow, Nothing, Fails, Ends
<1>5. Handed(p)'
  BY <1>0 DEF Handed, Nothing, Closed, Fails, Ends
<1>6. /\ msg'[p].kind = "search" => KeyFrom(msg'[p].key, server'[p])
      /\ msg'[p].kind = "key" => msg'[p] = msg[p] /\ server'[p] = server[p]
      /\ msg'[p].kind = "list" => \A u \in msg'[p].urls : UrlRight(u)
  BY <1>0 DEF Nothing, Closed, Fails, Ends
<1>7. /\ \A u \in resps'[p] : UrlRight(u)
      /\ url'[p] # NoUrl => UrlRight(url'[p])
      /\ got'[p] # NoFile => got'[p].file = got'[p].want
  BY <1>0 DEF UrlInv, GetRight, Fails, Ends
<1> QED
  BY <1>1, <1>2, <1>3, <1>4, <1>5, <1>6, <1>7, KeysAlone

LEMMA AuthDonePreserves ==
    ASSUME IInv, NEW p \in Procs, AuthDone(p)
    PROVE  IInv'
<1> USE SfsAssumption DEF clientVars, serverVars, bounds, Typed, KeysTyped, KeyTyped, RestTyped
<1>0. TypeOK /\ MsgType /\ FlowInv /\ NonceInv /\ KeyInv /\ SourceInv /\ UrlInv /\ GetRight
  BY DEF IInv
<1>a. Typed
  BY <1>0, Types
<1>b. RestTyped
  BY <1>0, RestTypes
<1>k. KeysTyped
  BY <1>0, KeyTypes
<1>c. /\ msg[p].kind = "key" /\ msg[p].keyid \in Nat /\ msg[p].key \in Nat
      /\ server[p] \in Procs /\ server[p] # p /\ ~serving[p] /\ Identity[server[p]] \in Ids
  <2>1. msg[p].kind = "key" /\ pc[p] = "resp"
    BY DEF AuthDone
  <2>2. server[p] \in Procs /\ Identity[server[p]] \in Ids
    BY <1>a DEF Ids
  <2>3. msg[p].keyid \in Nat /\ msg[p].key \in Nat
    BY <1>a, <2>1, MessageKinds
  <2>4. server[p] # p /\ ~serving[p]
    BY <1>0, <2>1 DEF FlowInv, Flow
  <2> QED
    BY <2>1, <2>2, <2>3, <2>4
<1> DEFINE new == [id |-> Identity[server[p]], ip |-> Host[server[p]], port |-> server[p],
                   keyid |-> msg[p].keyid, shadow |-> 0, key |-> msg[p].key]
           list == ImportKey(p, Identity[server[p]], server[p], msg[p])
<1>d. /\ list \in Seq(Key)
      /\ \A i \in DOMAIN list : list[i] = new \/ \E j \in DOMAIN keys[p] : list[i] = keys[p][j]
  <2>1. keys[p] \in Seq(Key)
    BY <1>0, KeyTypes
  <2>2. KeysTyped
    BY <1>0, KeyTypes
  <2>3. /\ new = [id |-> Identity[server[p]], ip |-> Host[server[p]], port |-> server[p],
                  keyid |-> msg[p].keyid, shadow |-> 0, key |-> msg[p].key]
        /\ list = ImportKey(p, Identity[server[p]], server[p], msg[p])
    OBVIOUS
  <2> HIDE DEF KeysTyped, new, list
  <2> QED
    BY <1>c, <2>1, <2>2, <2>3, Imported
<1>e. /\ new.port = server[p] /\ new.ip = Host[server[p]] /\ new.shadow = 0
      /\ new.keyid = msg[p].keyid /\ new.key = msg[p].key
  OBVIOUS
<1> HIDE DEF new
<1>f. keys' = keys \/ keys' = [keys EXCEPT ![p] = list]
  BY DEF AuthDone
<1> HIDE DEF list
<1>g. \A q \in Procs : \A i \in DOMAIN keys'[q] :
          (q = p /\ keys'[p][i] = new) \/ \E j \in DOMAIN keys[q] : keys'[q][i] = keys[q][j]
  BY <1>d, <1>f, <1>k
<1>h. \A q \in Procs \ {p} : keys'[q] = keys[q]
  BY <1>f, <1>k
<1>l. \A i \in DOMAIN keys'[p] : keys'[p][i].port # 0 /\ keys'[p][i].shadow = 0
  BY <1>0, <1>c, <1>e, <1>g, <1>k DEF KeyInv, KeyList
<1>1. MsgType'
  <2>0. Nothing \in Message /\ Closed \in Message
    BY Messages
  <2>1. msg' \in [Procs -> Message]
    BY <1>a, <2>0 DEF AuthDone, Ends
  <2> QED
    BY <1>0, <2>1 DEF MsgType, AuthDone, Ends
<1>2. FlowInv'
  <2>1. ASSUME NEW q \in Procs, q # p PROVE Flow(q)'
    <3>1. /\ pc'[q] = pc[q] /\ msg'[q] = msg[q] /\ url'[q] = url[q] /\ server'[q] = server[q]
          /\ resps'[q] = resps[q] /\ serving'[q] = serving[q]
      BY <1>a, <2>1 DEF AuthDone, Ends
    <3> QED
      BY <1>0, <2>1, <3>1 DEF FlowInv, Flow
  <2>2. Flow(p)'
    BY <1>0, <1>a DEF FlowInv, Flow, Nothing, AuthDone, Ends
  <2> QED
    BY <2>1, <2>2 DEF FlowInv
<1>3. TypeOK'
  <2>1. files' \in [Procs -> Seq(Files)]
    BY <1>0 DEF TypeOK, AuthDone
  <2>2. keys' \in [Procs -> Seq(Key)]
    <3>1. keys \in [Procs -> Seq(Key)]
      BY <1>0 DEF TypeOK
    <3> QED
      BY <1>d, <1>f, <3>1
  <2>3. pending' \in [Procs -> SUBSET [nonce : Nat, id : Ids]]
    BY <1>0 DEF TypeOK, AuthDone
  <2>4. /\ serving' \in [Procs -> BOOLEAN]
        /\ pc' \in [Procs -> {"idle", "auth", "resp", "ready", "search", "get"}]
        /\ server' \in [Procs -> Procs]
        /\ keyid' \in [Procs -> Nat] /\ chal' \in [Procs -> Nat] /\ random' \in Nat
    BY <1>a DEF AuthDone, Ends
  <2>5. store' \in [Procs -> SUBSET Ids]
    BY <1>b DEF AuthDone
  <2>6. commands' \in 0..MaxCommands /\ faults' \in 0..MaxFaults
    BY <1>b DEF AuthDone
  <2>7. \A q \in Procs : url'[q] \in Url \cup {NoUrl}
    BY <1>a DEF AuthDone, Ends
  <2>8. \A q \in Procs : msg'[q].kind \in {"nothing", "closed", "auth", "chal", "resp", "key",
                                         "search", "list", "get", "data"}
    BY <1>1, MessageKinds DEF MsgType
  <2>9. \A q \in Procs : pc'[q] = "idle" => msg'[q] = Nothing
    BY <1>1, <1>2, MessageKinds DEF MsgType, FlowInv, Flow
  <2>10. resps' \in [Procs -> SUBSET Url]
    BY <1>a DEF AuthDone
  <2>11. \A q \in Procs : got'[q] = NoFile \/ got'[q] \in [kind : {"file"}, want : Files, file : Files]
    BY <1>0, <1>a DEF TypeOK, AuthDone
  <2> QED
    BY <2>1, <2>2, <2>3, <2>4, <2>5, <2>6, <2>7, <2>8, <2>9, <2>10, <2>11 DEF TypeOK
<1>4. NonceInv'
  <2>1. \A t \in Procs : \A e \in pending'[t] : e.nonce < random'
    BY <1>0, <1>a DEF NonceInv, AuthDone
  <2>2. ASSUME NEW q \in Procs, q # p PROVE Handed(q)'
    <3>1. /\ msg[q].kind = "chal" => msg[q].nonce \in Nat
          /\ msg[q].kind = "resp" => msg[q].resp \in Nat
      BY <1>a, MessageKinds
    <3>2. msg'[q] = msg[q] /\ server'[q] = server[q]
      BY <1>a, <2>2 DEF AuthDone, Ends
    <3>3. /\ random \in Nat /\ random' \in Nat /\ random <= random'
          /\ \A t \in Procs : \A e \in pending'[t] : e \in pending[t] \/ e.nonce = random
      BY <1>a DEF AuthDone
    <3>4. Handed(q) /\ server[q] \in Procs
      BY <1>0, <1>a DEF NonceInv
    <3>5. \A e \in pending'[server'[q]] : e \in pending[server[q]] \/ e.nonce = random
      BY <3>2, <3>3, <3>4
    <3> QED
      BY <3>1, <3>2, <3>3, <3>4, <3>5 DEF Handed
  <2>3. Handed(p)'
    BY <1>0, <1>a DEF Handed, Nothing, AuthDone, Ends
  <2> QED
    BY <2>1, <2>2, <2>3 DEF NonceInv
<1>5. KeyInv'
  <2>1. \A i \in DOMAIN keys'[p] : keys'[p][i].port # p /\ keys'[p][i].ip = Host[keys'[p][i].port]
    BY <1>0, <1>c, <1>e, <1>g, <1>l, <1>k DEF KeyInv, KeyList
  <2>2. UNCHANGED <<serving, random, keyid>>
    BY DEF AuthDone
  <2>3. KeyList(p)'
    BY <1>l, <2>1 DEF KeyList
  <2>4. ASSUME NEW q \in Procs, q # p PROVE KeyList(q)'
    BY <1>0, <1>h, <2>2, <2>4 DEF KeyInv, KeyList
  <2> QED
    BY <2>3, <2>4 DEF KeyInv
<1>6. SourceInv'
  <2>1. \A t \in Procs, v \in Nat : KeyFrom(v, t)' => KeyFrom(v, t)
    <3> SUFFICES ASSUME NEW t \in Procs, NEW v \in Nat, KeyFrom(v, t)' PROVE KeyFrom(v, t)
      OBVIOUS
    <3>1. CASE \E i \in DOMAIN keys'[t] : keys'[t][i].port = 0 /\ keys'[t][i].key = v
      BY <1>h, <1>l, <3>1 DEF KeyFrom
    <3>2. CASE \E q \in Procs : \E i \in DOMAIN keys'[q] : keys'[q][i].port = t /\ keys'[q][i].key = v
      BY <1>c, <1>e, <1>g, <3>2 DEF KeyFrom
    <3>3. CASE \E q \in Procs : msg'[q].kind \in {"key", "search"} /\ server'[q] = t /\ msg'[q].key = v
      BY <1>a, <3>3 DEF KeyFrom, Nothing, AuthDone, Ends
    <3> QED
      BY <3>1, <3>2, <3>3 DEF KeyFrom
  <2>2. /\ \A t \in Procs, v \in Nat : KeyFrom(v, t)' => v < random'
        /\ \A t, u \in Procs, v \in Nat : KeyFrom(v, t)' /\ KeyFrom(v, u)' => t = u
    BY <1>0, <1>a, <2>1 DEF SourceInv, AuthDone
  <2>3. \A q, t \in Procs, n, v \in Nat : KeyFor(q, t, n, v) => KeyFor(q, t, n, v)'
    BY <1>h, <1>l DEF KeyFor
  <2>4. \A q \in Procs : \A i \in DOMAIN keys'[q] :
            keys'[q][i].port # 0 => KeyFor(q, keys[q][i].port, keys[q][i].keyid, keys[q][i].key)'
    <3> SUFFICES ASSUME NEW q \in Procs, NEW i \in DOMAIN keys'[q], keys'[q][i].port # 0
                 PROVE  KeyFor(q, keys[q][i].port, keys[q][i].keyid, keys[q][i].key)'
      OBVIOUS
    <3>1. CASE q = p /\ keys'[p][i] = new
      BY <1>0, <1>c, <1>e, <2>3, <3>1 DEF SourceInv
    <3>2. ASSUME NEW j \in DOMAIN keys[q], keys'[q][i] = keys[q][j]
          PROVE  KeyFor(q, keys[q][i].port, keys[q][i].keyid, keys[q][i].key)'
      BY <1>0, <1>k, <2>3, <3>2 DEF SourceInv
    <3> QED
      BY <1>g, <3>1, <3>2
  <2>5. \A q \in Procs : msg'[q].kind = "key" => KeyFor(q, server[q], msg[q].keyid, msg[q].key)'
    <3> SUFFICES ASSUME NEW q \in Procs, msg'[q].kind = "key"
                 PROVE  KeyFor(q, server[q], msg[q].keyid, msg[q].key)'
      OBVIOUS
    <3>1. msg'[q] = msg[q] /\ server'[q] = server[q] /\ msg[q].kind = "key"
      BY <1>0, <1>a DEF Nothing, AuthDone, Ends
    <3> QED
      BY <1>0, <1>a, <2>3, <3>1, MessageKinds DEF SourceInv
  <2> QED
    BY <2>2, <2>4, <2>5 DEF SourceInv
<1>7. UrlInv'
  <2>1. \A u \in Url : UrlRight(u) => UrlRight(u)'
    <3> SUFFICES ASSUME NEW u \in Url, UrlRight(u) PROVE UrlRight(u)'
      OBVIOUS
    <3>1. u.server \in Procs /\ u.shadow \in Nat
      BY Urls
    <3>0. UNCHANGED <<files, random>>
      BY DEF AuthDone
    <3>2. CASE u.server = p
      BY <1>l, <3>0, <3>1, <3>2 DEF UrlRight
    <3>3. CASE u.server # p
      BY <1>h, <3>0, <3>1, <3>3 DEF UrlRight
    <3> QED
      BY <3>2, <3>3
  <2>2. \A q \in Procs : \A u \in resps'[q] : UrlRight(u)'
    BY <1>0, <1>a, <2>1 DEF UrlInv, AuthDone
  <2>3. \A q \in Procs : url'[q] # NoUrl => UrlRight(url[q])'
    BY <1>0, <1>a, <2>1 DEF UrlInv, AuthDone, Ends
  <2>4. \A q \in Procs : msg'[q].kind = "list" => \A u \in msg'[q].urls : UrlRight(u)'
    BY <1>0, <1>a, <2>1, MessageKinds DEF UrlInv, Nothing, AuthDone, Ends
  <2> QED
    BY <2>2, <2>3, <2>4 DEF UrlInv
<1>8. GetRight'
  BY <1>0, <1>a DEF GetRight, AuthDone
<1> QED
  BY <1>1, <1>3, <1>2, <1>4, <1>5, <1>6, <1>7, <1>8 DEF IInv

LEMMA SharePreserves ==
    ASSUME IInv, NEW p \in Procs, Share(p)
    PROVE  IInv'
<1> USE SfsAssumption DEF clientVars, serverVars, bounds, Typed, KeysTyped, KeyTyped, RestTyped
<1>0. TypeOK /\ MsgType /\ FlowInv /\ NonceInv /\ KeyInv /\ SourceInv /\ UrlInv /\ GetRight
  BY DEF IInv
<1>a. Typed
  BY <1>0, Types
<1>b. RestTyped
  BY <1>0, RestTypes
<1>k. KeysTyped
  BY <1>0, KeyTypes
<1>1. MsgType'
  BY <1>0, <1>a DEF MsgType, Share
<1>2. FlowInv'
  <2>1. ASSUME NEW q \in Procs, q # p PROVE Flow(q)'
    <3>1. /\ pc'[q] = pc[q] /\ msg'[q] = msg[q] /\ url'[q] = url[q] /\ server'[q] = server[q]
          /\ resps'[q] = resps[q] /\ serving'[q] = serving[q]
      BY <1>a, <2>1 DEF Share
    <3> QED
      BY <1>0, <2>1, <3>1 DEF FlowInv, Flow
  <2>2. Flow(p)'
    BY <1>0, <1>a DEF FlowInv, Flow, Share
  <2> QED
    BY <2>1, <2>2 DEF FlowInv
<1>3. TypeOK'
  <2>1. files' \in [Procs -> Seq(Files)]
    <3>1. Cardinality(Files) \in Nat
      BY FS_CardinalityType
    <3>2. \A scan \in Scans : scan \in Seq(Files)
      <4> SUFFICES ASSUME NEW scan \in Scans PROVE scan \in Seq(Files)
        OBVIOUS
      <4>1. scan \in [1..Cardinality(Files) -> Files]
        BY DEF Scans
      <4> QED
        BY <3>1, <4>1
    <3>3. files \in [Procs -> Seq(Files)]
      BY <1>0 DEF TypeOK
    <3> QED
      BY <3>2, <3>3 DEF Share
  <2>2. keys' \in [Procs -> Seq(Key)]
    BY <1>0 DEF TypeOK, Share
  <2>3. pending' \in [Procs -> SUBSET [nonce : Nat, id : Ids]]
    BY <1>0 DEF TypeOK, Share
  <2>4. /\ serving' \in [Procs -> BOOLEAN]
        /\ pc' \in [Procs -> {"idle", "auth", "resp", "ready", "search", "get"}]
        /\ server' \in [Procs -> Procs]
        /\ keyid' \in [Procs -> Nat] /\ chal' \in [Procs -> Nat] /\ random' \in Nat
    BY <1>a DEF Share
  <2>5. store' \in [Procs -> SUBSET Ids]
    BY <1>b DEF Share
  <2>6. commands' \in 0..MaxCommands /\ faults' \in 0..MaxFaults
    BY <1>b DEF Share
  <2>7. \A q \in Procs : url'[q] \in Url \cup {NoUrl}
    BY <1>a DEF Share
  <2>8. \A q \in Procs : msg'[q].kind \in {"nothing", "closed", "auth", "chal", "resp", "key",
                                         "search", "list", "get", "data"}
    BY <1>1, MessageKinds DEF MsgType
  <2>9. \A q \in Procs : pc'[q] = "idle" => msg'[q] = Nothing
    BY <1>1, <1>2, MessageKinds DEF MsgType, FlowInv, Flow
  <2>10. resps' \in [Procs -> SUBSET Url]
    BY <1>a DEF Share
  <2>11. \A q \in Procs : got'[q] = NoFile \/ got'[q] \in [kind : {"file"}, want : Files, file : Files]
    BY <1>0, <1>a DEF TypeOK, Share
  <2> QED
    BY <2>1, <2>2, <2>3, <2>4, <2>5, <2>6, <2>7, <2>8, <2>9, <2>10, <2>11 DEF TypeOK
<1>4. NonceInv'
  <2>1. \A t \in Procs : \A e \in pending'[t] : e.nonce < random'
    BY <1>0, <1>a DEF NonceInv, Share
  <2>2. ASSUME NEW q \in Procs, q # p PROVE Handed(q)'
    <3>1. /\ msg[q].kind = "chal" => msg[q].nonce \in Nat
          /\ msg[q].kind = "resp" => msg[q].resp \in Nat
      BY <1>a, MessageKinds
    <3>2. msg'[q] = msg[q] /\ server'[q] = server[q]
      BY <1>a, <2>2 DEF Share
    <3>3. /\ random \in Nat /\ random' \in Nat /\ random <= random'
          /\ \A t \in Procs : \A e \in pending'[t] : e \in pending[t] \/ e.nonce = random
      BY <1>a DEF Share
    <3>4. Handed(q) /\ server[q] \in Procs
      BY <1>0, <1>a DEF NonceInv
    <3>5. \A e \in pending'[server'[q]] : e \in pending[server[q]] \/ e.nonce = random
      BY <3>2, <3>3, <3>4
    <3> QED
      BY <3>1, <3>2, <3>3, <3>4, <3>5 DEF Handed
  <2>3. Handed(p)'
    BY <1>0, <1>a DEF Handed, FlowInv, Flow, Share
  <2> QED
    BY <2>1, <2>2, <2>3 DEF NonceInv
<1>5. KeyInv'
  <2>1. UNCHANGED <<keys, keyid, random>> /\ \A q \in Procs : serving[q] => serving'[q]
    BY <1>a DEF Share
  <2>2. ASSUME NEW q \in Procs PROVE KeyList(q)'
    <3>1. KeyList(q)
      BY <1>0 DEF KeyInv
    <3> QED
      BY <2>1, <3>1 DEF KeyList
  <2> QED
    BY <2>2 DEF KeyInv
<1>6. SourceInv'
  <2>1. \A t \in Procs, v \in Nat : KeyFrom(v, t)' => KeyFrom(v, t)
    <3>1. \A q \in Procs : msg'[q].kind \in {"key", "search"} => msg'[q] = msg[q] /\ server'[q] = server[q]
      BY <1>0, <1>a DEF Share
    <3>2. keys' = keys
      BY DEF Share
    <3> QED
      BY <3>1, <3>2 DEF KeyFrom
  <2>2. /\ \A t \in Procs, v \in Nat : KeyFrom(v, t)' => v < random'
        /\ \A t, u \in Procs, v \in Nat : KeyFrom(v, t)' /\ KeyFrom(v, u)' => t = u
    BY <1>0, <1>a, <2>1 DEF SourceInv, Share
  <2>3. \A q, t \in Procs, n, v \in Nat : KeyFor(q, t, n, v) => KeyFor(q, t, n, v)'
    BY <1>0, <1>a, <1>k DEF KeyFor, Share
  <2>4. \A q \in Procs : \A i \in DOMAIN keys'[q] :
            keys'[q][i].port # 0 => KeyFor(q, keys[q][i].port, keys[q][i].keyid, keys[q][i].key)'
    BY <1>0, <1>a, <1>k, <2>3 DEF SourceInv, Share
  <2>5. \A q \in Procs : msg'[q].kind = "key" => KeyFor(q, server[q], msg[q].keyid, msg[q].key)'
    BY <1>0, <1>a, <2>3, MessageKinds DEF SourceInv, Nothing, Closed, Share
  <2> QED
    BY <2>2, <2>4, <2>5 DEF SourceInv
<1>7. UrlInv'
  <2>1. \A u \in Url : UrlRight(u) => UrlRight(u)'
    <3> SUFFICES ASSUME NEW u \in Url, UrlRight(u) PROVE UrlRight(u)'
      OBVIOUS
    <3>1. \A i \in DOMAIN keys[p] : keys[p][i].shadow # u.shadow
      BY <1>0, <1>k DEF KeyInv, KeyList, UrlRight, Share
    <3>2. \A q \in Procs : q # p => files'[q] = files[q]
      BY <1>a DEF Share
    <3>3. UNCHANGED <<keys, random>>
      BY DEF Share
    <3> QED
      BY <1>k, <3>1, <3>2, <3>3, Urls DEF UrlRight
  <2>2. \A q \in Procs : \A u \in resps'[q] : UrlRight(u)'
    BY <1>0, <1>a, <2>1 DEF UrlInv, Share
  <2>3. \A q \in Procs : url'[q] # NoUrl => UrlRight(url[q])'
    BY <1>0, <1>a, <2>1 DEF UrlInv, Share
  <2>4. \A q \in Procs : msg'[q].kind = "list" => \A u \in msg'[q].urls : UrlRight(u)'
    BY <1>0, <1>a, <2>1, MessageKinds DEF UrlInv, Share
  <2> QED
    BY <2>2, <2>3, <2>4 DEF UrlInv
<1>8. GetRight'
  BY <1>0, <1>a DEF GetRight, Share
<1> QED
  BY <1>1, <1>3, <1>2, <1>4, <1>5, <1>6, <1>7, <1>8 DEF IInv

LEMMA HandleAuthPreserves ==
    ASSUME IInv, NEW p \in Procs, HandleAuth(p)
    PROVE  IInv'
<1> USE SfsAssumption DEF clientVars, serverVars, bounds
<1>0. Typed /\ RestTyped /\ KeysTyped /\ FlowInv /\ NonceInv /\ SourceInv /\ UrlInv /\ GetRight
  BY Types, RestTypes, KeyTypes DEF IInv
<1>1. Typed'
  <2>1. [kind |-> "chal", nonce |-> random, id |-> Identity[server[p]]] \in Message
    BY <1>0, Messages DEF Typed, Ids
  <2>2. msg[p].id \in Ids
    BY <1>0, MessageKinds DEF Typed, HandleAuth, Asks
  <2> QED
    BY <1>0, <2>1, <2>2 DEF Typed, HandleAuth, Answer
<1>2. RestTyped'
  <2>1. [nonce |-> random, id |-> msg[p].id] \in [nonce : Nat, id : Ids]
    BY <1>0, MessageKinds DEF Typed, HandleAuth, Asks
  <2> QED
    BY <1>0, <2>1 DEF RestTyped, HandleAuth
<1>3. /\ UNCHANGED <<serving, files, keys, keyid>> /\ random <= random'
      /\ \A q \in Procs : q # p =>
             /\ pc'[q] = pc[q] /\ server'[q] = server[q] /\ url'[q] = url[q]
             /\ msg'[q] = msg[q] /\ resps'[q] = resps[q] /\ got'[q] = got[q]
      /\ \A t \in Procs : \A c \in pending'[t] :
             c \in pending[t] \/ (c.nonce = random /\ random < random')
  BY <1>0 DEF Typed, HandleAuth, Answer
<1>4. Flow(p)'
  BY <1>0 DEF FlowInv, Flow, HandleAuth, Asks, Answer
<1>5. Handed(p)'
  <2>1. msg'[p] = [kind |-> "chal", nonce |-> random, id |-> Identity[server[p]]]
    BY <1>0 DEF Typed, HandleAuth, Answer
  <2>2. random' = random + 1 /\ random \in Nat
    BY <1>0 DEF Typed, HandleAuth
  <2>3. /\ server'[p] = server[p]
        /\ pending'[server[p]] = pending[server[p]] \cup {[nonce |-> random, id |-> msg[p].id]}
    BY <1>0 DEF Typed, HandleAuth
  <2>4. msg[p].id = Identity[p]
    BY <1>0 DEF FlowInv, Flow, HandleAuth, Asks
  <2>5. \A c \in pending[server[p]] : c.nonce \in Nat /\ c.nonce < random
    BY <1>0 DEF Typed, NonceInv
  <2> QED
    BY <2>1, <2>2, <2>3, <2>4, <2>5 DEF Handed
<1>6. /\ msg'[p].kind = "search" => KeyFrom(msg'[p].key, server'[p])
      /\ msg'[p].kind = "key" => msg'[p] = msg[p] /\ server'[p] = server[p]
      /\ msg'[p].kind = "list" => \A u \in msg'[p].urls : UrlRight(u)
  BY <1>0 DEF HandleAuth, Asks, Answer
<1>7. /\ \A u \in resps'[p] : UrlRight(u)
      /\ url'[p] # NoUrl => UrlRight(url'[p])
      /\ got'[p] # NoFile => got'[p].file = got'[p].want
  BY <1>0 DEF UrlInv, GetRight, HandleAuth
<1> QED
  BY <1>1, <1>2, <1>3, <1>4, <1>5, <1>6, <1>7, KeysAlone

LEMMA HandleRespPreserves ==
    ASSUME IInv, NEW p \in Procs, HandleResp(p)
    PROVE  IInv'
<1> USE SfsAssumption DEF clientVars, serverVars, bounds, Typed, KeysTyped, KeyTyped, RestTyped
<1>0. TypeOK /\ MsgType /\ FlowInv /\ NonceInv /\ KeyInv /\ SourceInv /\ UrlInv /\ GetRight
  BY DEF IInv
<1>a. Typed
  BY <1>0, Types
<1>b. RestTyped
  BY <1>0, RestTypes
<1>k. KeysTyped
  BY <1>0, KeyTypes
<1>s. PICK s \in Procs : s = server[p]
  BY <1>a
<1> DEFINE new == [id |-> Identity[p], ip |-> Host[p], port |-> 0, keyid |-> keyid[s],
                   shadow |-> random, key |-> random + 1]
<1>c. PICK c \in pending[s] :
          /\ c.nonce = msg[p].resp
          /\ pending' = [pending EXCEPT ![s] = @ \ {c}]
          /\ IF HasKey(s, c.id, Host[p])
             THEN UNCHANGED <<keys, keyid, random>>
             ELSE /\ keys' = [keys EXCEPT ![s] = NewKey(s, c.id, Host[p])]
                  /\ keyid' = [keyid EXCEPT ![s] = @ + 1]
                  /\ random' = random + 2
          /\ \E key \in KeyOf(keys'[s], c.id, Host[p], 0) :
                 Answer(p, [kind |-> "key", resp |-> msg[p].chal,
                            keyid |-> key.keyid, key |-> key.key])
  BY <1>s DEF HandleResp, Verified
<1>d. /\ UNCHANGED <<serving, files, store, clientVars, bounds>>
      /\ s \in Procs /\ serving[s] /\ msg[p].kind = "resp" /\ msg[p].chal \in Nat
      /\ pc[p] = "resp" /\ s # p /\ Identity[p] \in Ids /\ c.id = Identity[p]
  <2>1. /\ UNCHANGED <<serving, files, store, clientVars, bounds>>
        /\ s \in Procs /\ serving[s] /\ msg[p].kind = "resp" /\ Identity[p] \in Ids
    BY <1>a, <1>s DEF HandleResp, Asks, Ids
  <2>2. pc[p] = "resp" /\ s # p /\ msg[p].chal \in Nat
    BY <1>0, <1>a, <1>s, <2>1, MessageKinds DEF FlowInv, Flow
  <2>3. c.id = Identity[p]
    BY <1>0, <1>c, <1>s, <2>1 DEF NonceInv, Handed
  <2> QED
    BY <2>1, <2>2, <2>3
<1>e. /\ new \in Key /\ new.id = Identity[p] /\ new.ip = Host[p] /\ new.port = 0
      /\ new.keyid = keyid[s] /\ new.shadow = random /\ new.key = random + 1
  <2>1. /\ new.id = Identity[p] /\ new.ip = Host[p] /\ new.port = 0
        /\ new.keyid = keyid[s] /\ new.shadow = random /\ new.key = random + 1
    OBVIOUS
  <2>2. Identity[p] \in Ids /\ Host[p] \in Hosts /\ keyid[s] \in Nat /\ random \in Nat /\ random + 1 \in Nat
    BY <1>a, <1>d DEF Hosts
  <2>3. new \in Key
    BY <2>2 DEF Key
  <2> QED
    BY <2>1, <2>3
<1>f. \/ UNCHANGED <<keys, keyid, random>>
      \/ /\ \A i \in DOMAIN keys[s] : ~(keys[s][i].ip = Host[p] /\ keys[s][i].port = 0 /\ keys[s][i].id = Identity[p])
         /\ keys' = [keys EXCEPT ![s] = <<new>> \o keys[s]]
         /\ keyid' = [keyid EXCEPT ![s] = @ + 1]
         /\ random' = random + 2
  <2>1. keys[s] \in Seq(Key)
    BY <1>0, <1>d, KeyTypes
  <2>2. NewKey(s, c.id, Host[p]) = <<new>> \o keys[s]
    BY <1>d DEF NewKey
  <2>3. ~HasKey(s, c.id, Host[p]) =>
            \A i \in DOMAIN keys[s] : ~(keys[s][i].ip = Host[p] /\ keys[s][i].port = 0 /\ keys[s][i].id = Identity[p])
    <3>0. c.id = Identity[p]
      BY <1>d
    <3>1. ~HasKey(s, c.id, Host[p]) <=> KeyOf(keys[s], Identity[p], Host[p], 0) = {}
      BY <3>0 DEF HasKey
    <3>2. KeyOf(keys[s], Identity[p], Host[p], 0) = {} =>
              \A i \in DOMAIN keys[s] : ~(keys[s][i].ip = Host[p] /\ keys[s][i].port = 0 /\ keys[s][i].id = Identity[p])
      BY <2>1, KeyOfFinds
    <3> QED
      BY <3>1, <3>2
  <2> HIDE DEF new
  <2> QED
    BY <1>c, <2>2, <2>3
<1> HIDE DEF new
<1>g. keys' \in [Procs -> Seq(Key)]
  <2>1. keys \in [Procs -> Seq(Key)]
    BY <1>0 DEF TypeOK
  <2>2. <<new>> \o keys[s] \in Seq(Key)
    BY <1>d, <1>e, <2>1, Consed
  <2> QED
    BY <1>f, <2>1, <2>2
<1>h. PICK n \in DOMAIN keys'[s] :
          /\ keys'[s][n].id = Identity[p] /\ keys'[s][n].port = 0
          /\ msg' = [msg EXCEPT ![p] = [kind |-> "key", resp |-> msg[p].chal,
                                        keyid |-> keys'[s][n].keyid, key |-> keys'[s][n].key]]
  <2>1. keys'[s] \in Seq(Key)
    BY <1>d, <1>g
  <2>2. PICK key \in KeyOf(keys'[s], c.id, Host[p], 0) :
            msg' = [msg EXCEPT ![p] = [kind |-> "key", resp |-> msg[p].chal,
                                       keyid |-> key.keyid, key |-> key.key]]
    BY <1>c DEF Answer
  <2>3. \E i \in DOMAIN keys'[s] : key = keys'[s][i] /\ key.port = 0 /\ key.id = c.id
    BY <2>1, KeyOfFinds
  <2> QED
    BY <1>d, <2>2, <2>3
<1>i. keys'[s][n].keyid \in Nat /\ keys'[s][n].key \in Nat
  <2>1. keys'[s] \in Seq(Key)
    BY <1>d, <1>g
  <2> QED
    BY <2>1, Indices
<1>j. /\ \A q \in Procs \ {s} : keys'[q] = keys[q]
      /\ keys' # keys =>
             \A i \in DOMAIN keys'[s] :
                 /\ i \in Nat
                 /\ \/ i = 1 /\ keys'[s][i] = new
                    \/ i # 1 /\ i - 1 \in DOMAIN keys[s] /\ keys'[s][i] = keys[s][i - 1]
  <2>1. keys[s] \in Seq(Key)
    BY <1>0, <1>d, KeyTypes
  <2>2. /\ <<new>> \o keys[s] \in Seq(Key)
        /\ \A i \in DOMAIN (<<new>> \o keys[s]) :
               \/ i = 1 /\ (<<new>> \o keys[s])[i] = new
               \/ i # 1 /\ i - 1 \in DOMAIN keys[s] /\ (<<new>> \o keys[s])[i] = keys[s][i - 1]
    BY <1>e, <2>1
  <2>3. DOMAIN (<<new>> \o keys[s]) \subseteq Nat
    BY <2>2
  <2> QED
    BY <1>d, <1>f, <1>k, <2>2, <2>3
<1>m. /\ DOMAIN keys' = Procs
      /\ \A q \in Procs : \A i \in DOMAIN keys'[q] :
             \/ q = s /\ keys' # keys /\ keys'[q][i] = new
             \/ \E j \in DOMAIN keys[q] : keys'[q][i] = keys[q][j]
  BY <1>d, <1>f, <1>g, <1>j
<1>o. /\ keyid' \in [Procs -> Nat] /\ random' \in Nat /\ random <= random'
      /\ pending' \in [Procs -> SUBSET [nonce : Nat, id : Ids]]
      /\ \A q \in Procs : pending'[q] \subseteq pending[q]
  <2>1. pending \in [Procs -> SUBSET [nonce : Nat, id : Ids]]
    BY <1>0 DEF TypeOK
  <2>2. /\ pending' \in [Procs -> SUBSET [nonce : Nat, id : Ids]]
        /\ \A q \in Procs : pending'[q] \subseteq pending[q]
    BY <1>c, <1>d, <2>1
  <2>3. keyid' \in [Procs -> Nat] /\ random' \in Nat /\ random <= random'
    BY <1>a, <1>f
  <2> QED
    BY <2>2, <2>3
<1>r. keys' = keys => keyid' = keyid /\ random' = random
  <2>1. keys[s] \in Seq(Key)
    BY <1>0, <1>d, KeyTypes
  <2>2. <<new>> \o keys[s] # keys[s]
    BY <1>e, <2>1
  <2> QED
    BY <1>d, <1>f, <1>k, <2>2
<1>q. random \in Nat \ {0}
  BY <1>0, <1>a, <1>c, <1>d DEF NonceInv
<1>p. \A q \in Procs : KeyFrom(random + 1, q) => FALSE
  BY <1>0, <1>a DEF SourceInv
<1>1. MsgType'
  <2>1. [kind |-> "key", resp |-> msg[p].chal,
         keyid |-> keys'[s][n].keyid, key |-> keys'[s][n].key] \in Message
    BY <1>d, <1>i, Messages
  <2>2. msg' \in [Procs -> Message]
    BY <1>a, <1>h, <2>1
  <2> QED
    BY <1>0, <1>d, <2>2 DEF MsgType
<1>2. FlowInv'
  <2>1. ASSUME NEW q \in Procs, q # p PROVE Flow(q)'
    BY <1>0, <1>a, <1>d, <1>h, <2>1 DEF FlowInv, Flow
  <2>2. Flow(p)'
    BY <1>0, <1>a, <1>d, <1>h DEF FlowInv, Flow
  <2> QED
    BY <2>1, <2>2 DEF FlowInv
<1>3. TypeOK'
  <2>1. files' \in [Procs -> Seq(Files)]
    BY <1>0, <1>d DEF TypeOK
  <2>2. keys' \in [Procs -> Seq(Key)]
    BY <1>g
  <2>3. pending' \in [Procs -> SUBSET [nonce : Nat, id : Ids]]
    BY <1>o
  <2>4. /\ serving' \in [Procs -> BOOLEAN]
        /\ pc' \in [Procs -> {"idle", "auth", "resp", "ready", "search", "get"}]
        /\ server' \in [Procs -> Procs]
        /\ keyid' \in [Procs -> Nat] /\ chal' \in [Procs -> Nat] /\ random' \in Nat
    BY <1>a, <1>d, <1>o
  <2>5. store' \in [Procs -> SUBSET Ids]
    BY <1>b, <1>d
  <2>6. commands' \in 0..MaxCommands /\ faults' \in 0..MaxFaults
    BY <1>b, <1>d
  <2>7. \A q \in Procs : url'[q] \in Url \cup {NoUrl}
    BY <1>a, <1>d
  <2>8. \A q \in Procs : msg'[q].kind \in {"nothing", "closed", "auth", "chal", "resp", "key",
                                         "search", "list", "get", "data"}
    BY <1>1, MessageKinds DEF MsgType
  <2>9. \A q \in Procs : pc'[q] = "idle" => msg'[q] = Nothing
    BY <1>1, <1>2, MessageKinds DEF MsgType, FlowInv, Flow
  <2>10. resps' \in [Procs -> SUBSET Url]
    BY <1>a, <1>d
  <2>11. \A q \in Procs : got'[q] = NoFile \/ got'[q] \in [kind : {"file"}, want : Files, file : Files]
    BY <1>0, <1>d DEF TypeOK
  <2> QED
    BY <2>1, <2>2, <2>3, <2>4, <2>5, <2>6, <2>7, <2>8, <2>9, <2>10, <2>11 DEF TypeOK
<1>4. NonceInv'
  <2>1. \A t \in Procs : \A e \in pending'[t] : e.nonce < random'
    <3> SUFFICES ASSUME NEW t \in Procs, NEW e \in pending[t] PROVE e.nonce < random'
      BY <1>o
    <3> QED
      BY <1>0, <1>a, <1>o DEF NonceInv
  <2>2. ASSUME NEW q \in Procs, q # p PROVE Handed(q)'
    <3>1. /\ msg[q].kind = "chal" => msg[q].nonce \in Nat
          /\ msg[q].kind = "resp" => msg[q].resp \in Nat
      BY <1>a, MessageKinds
    <3>2. msg'[q] = msg[q] /\ server'[q] = server[q]
      BY <1>a, <1>d, <1>h, <2>2
    <3>3. /\ random \in Nat /\ random' \in Nat /\ random <= random'
          /\ \A t \in Procs : \A e \in pending'[t] : e \in pending[t] \/ e.nonce = random
      BY <1>a, <1>o
    <3>4. Handed(q) /\ server[q] \in Procs
      BY <1>0, <1>a DEF NonceInv
    <3>5. \A e \in pending'[server'[q]] : e \in pending[server[q]] \/ e.nonce = random
      BY <3>2, <3>3, <3>4
    <3> QED
      BY <3>1, <3>2, <3>3, <3>4, <3>5 DEF Handed
  <2>3. Handed(p)'
    <3>1. msg'[p].kind = "key"
      BY <1>a, <1>h
    <3> QED
      BY <3>1 DEF Handed
  <2> QED
    BY <2>1, <2>2, <2>3 DEF NonceInv
<1>5. KeyInv'
  <2>1. CASE keys' = keys
    <3>1. UNCHANGED <<serving, keys, keyid, random>>
      BY <1>d, <1>r, <2>1
    <3> QED
      BY <1>0, <3>1 DEF KeyInv, KeyList
  <2>2. CASE keys' # keys
    <3>0. keyid' = [keyid EXCEPT ![s] = @ + 1] /\ random' = random + 2 /\ serving' = serving
      BY <1>d, <1>f, <2>2
    <3>1. \A i \in DOMAIN keys[s] :
              /\ keys[s][i].port = 0 => keys[s][i].keyid # new.keyid /\ keys[s][i].key # new.key
              /\ ~(keys[s][i].port = 0 /\ keys[s][i].id = new.id /\ keys[s][i].ip = new.ip)
      <4>1. \A i \in DOMAIN keys[s] : keys[s][i].port = 0 => KeyFrom(keys[s][i].key, s)
        BY <1>d DEF KeyFrom
      <4>2. \A i \in DOMAIN keys[s] : keys[s][i].port = 0 => keys[s][i].keyid < keyid[s]
        BY <1>0, <1>d DEF KeyInv, KeyList
      <4> QED
        BY <1>d, <1>e, <1>f, <1>k, <1>p, <2>2, <4>1, <4>2
    <3>2. \A i, j \in DOMAIN keys'[s] : i < j /\ keys'[s][i].port # 0 => keys'[s][j].port # 0
      <4> SUFFICES ASSUME NEW i \in DOMAIN keys'[s], NEW j \in DOMAIN keys'[s],
                          i < j, keys'[s][i].port # 0
                   PROVE  keys'[s][j].port # 0
        OBVIOUS
      <4>1. i # 1
        BY <1>e, <1>j, <2>2
      <4>2. /\ i \in Nat /\ i - 1 \in DOMAIN keys[s] /\ keys'[s][i] = keys[s][i - 1]
        BY <1>j, <2>2, <4>1
      <4>3. i - 1 \in Nat
        BY <1>k, <4>2
      <4>4. /\ j \in Nat /\ j - 1 \in DOMAIN keys[s] /\ keys'[s][j] = keys[s][j - 1]
        BY <1>j, <2>2, <4>2, <4>3
      <4>5. i - 1 < j - 1
        BY <4>2, <4>4
      <4> QED
        BY <1>0, <4>2, <4>4, <4>5 DEF KeyInv, KeyList
    <3>3. \A i \in DOMAIN keys'[s] :
              IF keys'[s][i].port = 0
              THEN keys'[s][i].shadow \in 1..(random' - 1) /\ keys'[s][i].keyid < keyid'[s]
              ELSE /\ keys'[s][i].shadow = 0 /\ keys'[s][i].port # s
                   /\ keys'[s][i].ip = Host[keys'[s][i].port]
      BY <1>0, <1>a, <1>d, <1>e, <1>j, <1>k, <1>q, <2>2, <3>0 DEF KeyInv, KeyList
    <3>4. \A i, j \in DOMAIN keys'[s] :
              /\ keys'[s][i].port = 0 /\ keys'[s][j].port = 0
              /\ \/ keys'[s][i].keyid = keys'[s][j].keyid
                 \/ keys'[s][i].id = keys'[s][j].id /\ keys'[s][i].ip = keys'[s][j].ip
                 \/ keys'[s][i].key = keys'[s][j].key
              => i = j
      <4> SUFFICES ASSUME NEW i \in DOMAIN keys'[s], NEW j \in DOMAIN keys'[s],
                          keys'[s][i].port = 0, keys'[s][j].port = 0,
                          \/ keys'[s][i].keyid = keys'[s][j].keyid
                          \/ keys'[s][i].id = keys'[s][j].id /\ keys'[s][i].ip = keys'[s][j].ip
                          \/ keys'[s][i].key = keys'[s][j].key
                   PROVE  i = j
        OBVIOUS
      <4>1. CASE i = 1 \/ j = 1
        BY <1>j, <2>2, <3>1, <4>1
      <4>2. CASE i # 1 /\ j # 1
        <5>1. i - 1 = j - 1
          BY <1>0, <1>d, <1>j, <2>2, <4>2 DEF KeyInv, KeyList
        <5> QED
          BY <1>j, <2>2, <5>1
      <4> QED
        BY <4>1, <4>2
    <3>5. ASSUME NEW q \in Procs, q # s
          PROVE  keys'[q] = keys[q] /\ keyid'[q] = keyid[q] /\ serving'[q] = serving[q]
      BY <1>a, <1>j, <3>0, <3>5
    <3>6. \A i \in Int : i \in 1..(random - 1) => i \in 1..(random' - 1)
      BY <1>a, <3>0
    <3>7. KeyList(s)'
      BY <1>d, <3>0, <3>2, <3>3, <3>4 DEF KeyList
    <3>8. ASSUME NEW q \in Procs, q # s PROVE KeyList(q)'
      BY <1>0, <1>k, <3>5, <3>6, <3>8 DEF KeyInv, KeyList
    <3> QED
      BY <3>7, <3>8 DEF KeyInv
  <2> QED
    BY <2>1, <2>2
<1>6. SourceInv'
  <2>1. \A t \in Procs, v \in Nat :
            KeyFrom(v, t)' => KeyFrom(v, t) \/ (v = random + 1 /\ t = s /\ keys' # keys)
    <3> SUFFICES ASSUME NEW t \in Procs, NEW v \in Nat, KeyFrom(v, t)'
                 PROVE  KeyFrom(v, t) \/ (v = random + 1 /\ t = s /\ keys' # keys)
      OBVIOUS
    <3>1. ASSUME NEW i \in DOMAIN keys'[t], keys'[t][i].port = 0, keys'[t][i].key = v
          PROVE  KeyFrom(v, t) \/ (v = random + 1 /\ t = s /\ keys' # keys)
      BY <1>e, <1>m, <3>1 DEF KeyFrom
    <3>2. ASSUME NEW q \in Procs, NEW i \in DOMAIN keys'[q], keys'[q][i].port = t, keys'[q][i].key = v
          PROVE  KeyFrom(v, t)
      BY <1>e, <1>m, <3>2 DEF KeyFrom
    <3>3. ASSUME NEW q \in Procs, msg'[q].kind \in {"key", "search"}, server'[q] = t, msg'[q].key = v
          PROVE  KeyFrom(v, t) \/ (v = random + 1 /\ t = s /\ keys' # keys)
      <4>1. CASE q = p
        <5>1. server' = server
          BY <1>d
        <5>2. t = s /\ v = keys'[s][n].key
          BY <1>a, <1>h, <1>s, <3>3, <4>1, <5>1
        <5> QED
          BY <1>h, <3>1, <5>2
      <4>2. CASE q # p
        BY <1>a, <1>d, <1>h, <3>3, <4>2 DEF KeyFrom
      <4> QED
        BY <4>1, <4>2
    <3> QED
      BY <3>1, <3>2, <3>3 DEF KeyFrom
  <2>2. /\ \A t \in Procs, key \in Nat : KeyFrom(key, t)' => key < random'
        /\ \A t, u \in Procs, key \in Nat : KeyFrom(key, t)' /\ KeyFrom(key, u)' => t = u
    <3>1. keys' # keys => random' = random + 2
      BY <1>f
    <3> QED
      BY <1>0, <1>a, <1>o, <1>p, <2>1, <3>1 DEF SourceInv
  <2>3. \A q, t \in Procs, m, v \in Nat : KeyFor(q, t, m, v) /\ v < random => KeyFor(q, t, m, v)'
    BY <1>a, <1>e, <1>m DEF KeyFor
  <2>4. \A q \in Procs : \A i \in DOMAIN keys'[q] :
            keys'[q][i].port # 0 => KeyFor(q, keys[q][i].port, keys[q][i].keyid, keys[q][i].key)'
    <3> SUFFICES ASSUME NEW q \in Procs, NEW i \in DOMAIN keys'[q], keys'[q][i].port # 0
                 PROVE  KeyFor(q, keys[q][i].port, keys[q][i].keyid, keys[q][i].key)'
      OBVIOUS
    <3>1. PICK j \in DOMAIN keys[q] : keys'[q][i] = keys[q][j]
      BY <1>e, <1>m
    <3>2. keys[q][j].key < random
      BY <1>0, <1>k, <3>1 DEF SourceInv, KeyFrom
    <3> QED
      BY <1>0, <1>k, <2>3, <3>1, <3>2 DEF SourceInv
  <2>5. \A q \in Procs : msg'[q].kind = "key" => KeyFor(q, server[q], msg[q].keyid, msg[q].key)'
    <3> SUFFICES ASSUME NEW q \in Procs, msg'[q].kind = "key"
                 PROVE  KeyFor(q, server[q], msg[q].keyid, msg[q].key)'
      OBVIOUS
    <3>1. CASE q = p
      <4>1. msg'[p].keyid = keys'[s][n].keyid /\ msg'[p].key = keys'[s][n].key /\ server'[p] = s
        BY <1>a, <1>d, <1>h, <1>s
      <4>2. \A i \in DOMAIN keys'[s] : keys'[s][i].port = 0 /\ keys'[s][i].key = keys'[s][n].key => i = n
        BY <1>5, <1>d, <1>h DEF KeyInv, KeyList
      <4> QED
        BY <1>h, <3>1, <4>1, <4>2 DEF KeyFor
    <3>2. CASE q # p
      <4>1. msg'[q] = msg[q] /\ server'[q] = server[q]
        BY <1>a, <1>d, <1>h, <3>2
      <4>2. msg[q].keyid \in Nat /\ msg[q].key \in Nat /\ msg[q].kind = "key" /\ server[q] \in Procs
        BY <1>a, <4>1, MessageKinds
      <4>3. msg[q].key < random
        BY <1>0, <4>2 DEF SourceInv, KeyFrom
      <4> QED
        BY <1>0, <2>3, <4>1, <4>2, <4>3 DEF SourceInv
    <3> QED
      BY <3>1, <3>2
  <2> QED
    BY <2>2, <2>4, <2>5 DEF SourceInv
<1>7. UrlInv'
  <2>1. \A u \in Url : UrlRight(u) => UrlRight(u)'
    <3> SUFFICES ASSUME NEW u \in Url, UrlRight(u) PROVE UrlRight(u)'
      OBVIOUS
    <3>1. files' = files /\ u.server \in Procs /\ u.shadow \in Nat
      BY <1>d, Urls
    <3>2. u.shadow \in 1..(random' - 1) /\ u.shadow # random
      BY <1>a, <1>o DEF UrlRight
    <3>3. ASSUME NEW i \in DOMAIN keys'[u.server], keys'[u.server][i].shadow = u.shadow
          PROVE  \E j \in DOMAIN keys[u.server] : keys[u.server][j].shadow = u.shadow
      BY <1>e, <1>m, <3>1, <3>2, <3>3
    <3> QED
      BY <3>1, <3>2, <3>3 DEF UrlRight
  <2>2. \A q \in Procs : \A u \in resps'[q] : UrlRight(u)'
    BY <1>0, <1>a, <1>d, <2>1 DEF UrlInv
  <2>3. \A q \in Procs : url'[q] # NoUrl => UrlRight(url[q])'
    BY <1>0, <1>a, <1>d, <2>1 DEF UrlInv
  <2>4. \A q \in Procs : msg'[q].kind = "list" => \A u \in msg'[q].urls : UrlRight(u)'
    BY <1>0, <1>a, <1>h, <2>1, MessageKinds DEF UrlInv
  <2> QED
    BY <2>2, <2>3, <2>4 DEF UrlInv
<1>8. GetRight'
  BY <1>0, <1>d DEF GetRight
<1> QED
  BY <1>1, <1>3, <1>2, <1>4, <1>5, <1>6, <1>7, <1>8 DEF IInv

LEMMA ExpirePreserves ==
    ASSUME IInv, NEW p \in Procs, Expire(p)
    PROVE  IInv'
<1> USE SfsAssumption DEF clientVars, serverVars, bounds
<1>0. Typed /\ RestTyped /\ KeysTyped /\ FlowInv /\ NonceInv /\ SourceInv /\ UrlInv /\ GetRight
  BY Types, RestTypes, KeyTypes DEF IInv
<1>1. Typed'
  BY <1>0 DEF Typed, Expire
<1>2. RestTyped'
  BY <1>0 DEF RestTyped, Expire
<1>3. /\ UNCHANGED <<serving, files, keys, keyid>> /\ random <= random'
      /\ \A q \in Procs : q # p =>
             /\ pc'[q] = pc[q] /\ server'[q] = server[q] /\ url'[q] = url[q]
             /\ msg'[q] = msg[q] /\ resps'[q] = resps[q] /\ got'[q] = got[q]
      /\ \A t \in Procs : \A c \in pending'[t] :
             c \in pending[t] \/ (c.nonce = random /\ random < random')
  BY <1>0 DEF Typed, Expire
<1>4. Flow(p)'
  BY <1>0 DEF FlowInv, Flow, Expire
<1>5. Handed(p)'
  BY <1>0 DEF NonceInv, Handed, Expire
<1>6. /\ msg'[p].kind = "search" => KeyFrom(msg'[p].key, server'[p])
      /\ msg'[p].kind = "key" => msg'[p] = msg[p] /\ server'[p] = server[p]
      /\ msg'[p].kind = "list" => \A u \in msg'[p].urls : UrlRight(u)
  <2>1. msg'[p] = msg[p] /\ server'[p] = server[p]
    BY DEF Expire
  <2>2. msg[p].kind = "search" => KeyFrom(msg[p].key, server[p])
    BY DEF KeyFrom
  <2>3. msg[p].kind = "list" => \A u \in msg[p].urls : UrlRight(u)
    BY <1>0 DEF UrlInv
  <2> QED
    BY <2>1, <2>2, <2>3
<1>7. /\ \A u \in resps'[p] : UrlRight(u)
      /\ url'[p] # NoUrl => UrlRight(url'[p])
      /\ got'[p] # NoFile => got'[p].file = got'[p].want
  BY <1>0 DEF UrlInv, GetRight, Expire
<1> QED
  BY <1>1, <1>2, <1>3, <1>4, <1>5, <1>6, <1>7, KeysAlone

LEMMA RestartPreserves ==
    ASSUME IInv, NEW p \in Procs, Restart(p)
    PROVE  IInv'
<1> USE SfsAssumption DEF clientVars, serverVars, bounds, Typed, KeysTyped, KeyTyped, RestTyped
<1>0. TypeOK /\ MsgType /\ FlowInv /\ NonceInv /\ KeyInv /\ SourceInv /\ UrlInv /\ GetRight
  BY DEF IInv
<1>a. Typed
  BY <1>0, Types
<1>b. RestTyped
  BY <1>0, RestTypes
<1>k. KeysTyped
  BY <1>0, KeyTypes
<1>1. MsgType'
  BY <1>0, <1>a, Messages DEF MsgType, Restart
<1>2. FlowInv'
  <2>1. ASSUME NEW q \in Procs, q # p PROVE Flow(q)'
    BY <1>0, <1>a, <2>1, MessageKinds DEF FlowInv, Flow, Closed, Restart
  <2>2. Flow(p)'
    BY <1>0, <1>a DEF Flow, Nothing, Restart
  <2> QED
    BY <2>1, <2>2 DEF FlowInv
<1>3. TypeOK'
  <2>1. files' \in [Procs -> Seq(Files)]
    BY <1>0 DEF TypeOK, Restart
  <2>2. keys' \in [Procs -> Seq(Key)]
    BY <1>0 DEF TypeOK, Restart
  <2>3. pending' \in [Procs -> SUBSET [nonce : Nat, id : Ids]]
    BY <1>0 DEF TypeOK, Restart
  <2>4. /\ serving' \in [Procs -> BOOLEAN]
        /\ pc' \in [Procs -> {"idle", "auth", "resp", "ready", "search", "get"}]
        /\ server' \in [Procs -> Procs]
        /\ keyid' \in [Procs -> Nat] /\ chal' \in [Procs -> Nat] /\ random' \in Nat
    BY <1>a DEF Restart
  <2>5. store' \in [Procs -> SUBSET Ids]
    BY <1>b DEF Restart
  <2>6. commands' \in 0..MaxCommands /\ faults' \in 0..MaxFaults
    BY <1>b DEF Restart
  <2>7. \A q \in Procs : url'[q] \in Url \cup {NoUrl}
    BY <1>a DEF Restart
  <2>8. \A q \in Procs : msg'[q].kind \in {"nothing", "closed", "auth", "chal", "resp", "key",
                                         "search", "list", "get", "data"}
    BY <1>1, MessageKinds DEF MsgType
  <2>9. \A q \in Procs : pc'[q] = "idle" => msg'[q] = Nothing
    BY <1>1, <1>2, MessageKinds DEF MsgType, FlowInv, Flow
  <2>10. resps' \in [Procs -> SUBSET Url]
    BY <1>a DEF Restart
  <2>11. \A q \in Procs : got'[q] = NoFile \/ got'[q] \in [kind : {"file"}, want : Files, file : Files]
    BY <1>0, <1>a DEF TypeOK, Restart
  <2> QED
    BY <2>1, <2>2, <2>3, <2>4, <2>5, <2>6, <2>7, <2>8, <2>9, <2>10, <2>11 DEF TypeOK
<1>4. NonceInv'
  <2>1. \A t \in Procs : \A e \in pending'[t] : e.nonce < random'
    BY <1>0, <1>a DEF NonceInv, Restart
  <2>2. ASSUME NEW q \in Procs, q # p PROVE Handed(q)'
    <3>1. /\ msg[q].kind = "chal" => msg[q].nonce \in Nat
          /\ msg[q].kind = "resp" => msg[q].resp \in Nat
      BY <1>a, MessageKinds
    <3>2. (msg'[q] = msg[q] \/ msg'[q].kind = "closed") /\ server'[q] = server[q]
      BY <1>a, <2>2 DEF Closed, Restart
    <3>3. /\ random \in Nat /\ random' \in Nat /\ random <= random'
          /\ \A t \in Procs : \A e \in pending'[t] : e \in pending[t] \/ e.nonce = random
      BY <1>a DEF Restart
    <3>4. Handed(q) /\ server[q] \in Procs
      BY <1>0, <1>a DEF NonceInv
    <3>5. \A e \in pending'[server'[q]] : e \in pending[server[q]] \/ e.nonce = random
      BY <3>2, <3>3, <3>4
    <3> QED
      BY <3>1, <3>2, <3>3, <3>4, <3>5 DEF Handed
  <2>3. Handed(p)'
    BY <1>0, <1>a DEF Handed, Nothing, Restart
  <2> QED
    BY <2>1, <2>2, <2>3 DEF NonceInv
<1>5. KeyInv'
  <2>1. KeyList(p)'
    BY <1>a, <1>k DEF KeyList, Restart
  <2>2. ASSUME NEW q \in Procs, q # p PROVE KeyList(q)'
    <3>1. keys'[q] = keys[q] /\ keyid'[q] = keyid[q] /\ serving'[q] = serving[q] /\ random' = random
      BY <1>a, <1>k, <2>2 DEF Restart
    <3> QED
      BY <1>0, <3>1 DEF KeyInv, KeyList
  <2> QED
    BY <2>1, <2>2 DEF KeyInv
<1>6. SourceInv'
  <2>1. \A t \in Procs, v \in Nat : KeyFrom(v, t)' => KeyFrom(v, t)
    BY <1>0, <1>a, <1>k DEF KeyFrom, Nothing, Closed, Restart
  <2>2. /\ \A t \in Procs, v \in Nat : KeyFrom(v, t)' => v < random'
        /\ \A t, u \in Procs, v \in Nat : KeyFrom(v, t)' /\ KeyFrom(v, u)' => t = u
    BY <1>0, <1>a, <2>1 DEF SourceInv, Restart
  <2>3. \A q, t \in Procs, n, v \in Nat : KeyFor(q, t, n, v) => KeyFor(q, t, n, v)'
    BY <1>0, <1>a, <1>k DEF KeyFor, Restart
  <2>4. \A q \in Procs : \A i \in DOMAIN keys'[q] :
            keys'[q][i].port # 0 => KeyFor(q, keys[q][i].port, keys[q][i].keyid, keys[q][i].key)'
    <3>1. \A q \in Procs : keys'[q] = IF q = p THEN <<>> ELSE keys[q]
      BY <1>k DEF Restart
    <3>2. ASSUME NEW q \in Procs, NEW i \in DOMAIN keys'[q], keys'[q][i].port # 0
          PROVE  KeyFor(q, keys[q][i].port, keys[q][i].keyid, keys[q][i].key)'
      <4>1. q # p /\ keys'[q] = keys[q]
        BY <3>1, <3>2
      <4>2. KeyFor(q, keys[q][i].port, keys[q][i].keyid, keys[q][i].key)
        BY <1>0, <3>2, <4>1 DEF SourceInv
      <4>3. keys[q][i].port \in Procs /\ keys[q][i].keyid \in Nat /\ keys[q][i].key \in Nat
        BY <1>k, <3>2, <4>1
      <4> QED
        BY <2>3, <4>1, <4>2, <4>3
    <3> QED
      BY <3>2
  <2>5. \A q \in Procs : msg'[q].kind = "key" => KeyFor(q, server[q], msg[q].keyid, msg[q].key)'
    BY <1>0, <1>a, <2>3, MessageKinds DEF SourceInv, Nothing, Closed, Restart
  <2> QED
    BY <2>2, <2>4, <2>5 DEF SourceInv
<1>7. UrlInv'
  <2>1. \A u \in Url : UrlRight(u) => UrlRight(u)'
    <3>1. \A q \in Procs : q # p => keys'[q] = keys[q] /\ files'[q] = files[q]
      BY <1>a, <1>k DEF Restart
    <3>2. keys'[p] = <<>> /\ random' = random
      BY <1>k DEF Restart
    <3> SUFFICES ASSUME NEW u \in Url, UrlRight(u) PROVE UrlRight(u)'
      OBVIOUS
    <3>3. u.server \in Procs
      BY Urls
    <3>4. CASE u.server = p
      BY <3>2, <3>4 DEF UrlRight
    <3>5. CASE u.server # p
      BY <3>1, <3>2, <3>3, <3>5 DEF UrlRight
    <3> QED
      BY <3>4, <3>5
  <2>2. \A q \in Procs : \A u \in resps'[q] : UrlRight(u)'
    BY <1>0, <1>a, <2>1 DEF UrlInv, Restart
  <2>3. \A q \in Procs : url'[q] # NoUrl => UrlRight(url[q])'
    BY <1>0, <1>a, <2>1 DEF UrlInv, Restart
  <2>4. \A q \in Procs : msg'[q].kind = "list" => \A u \in msg'[q].urls : UrlRight(u)'
    BY <1>0, <1>a, <2>1, MessageKinds DEF UrlInv, Nothing, Closed, Restart
  <2> QED
    BY <2>2, <2>3, <2>4 DEF UrlInv
<1>8. GetRight'
  BY <1>0, <1>a DEF GetRight, Restart
<1> QED
  BY <1>1, <1>3, <1>2, <1>4, <1>5, <1>6, <1>7, <1>8 DEF IInv

\* An answer without a key, and the end of a connection.
LEMMA AnswerPreserves ==
    ASSUME IInv, NEW p \in Procs, NEW a \in Message, msg[p].kind # "nothing", msg' = [msg EXCEPT ![p] = a],
           UNCHANGED <<serverVars, store, keys, clientVars, random, commands>>, faults' \in 0..MaxFaults,
           a.kind \in {"closed", "list", "data"},
           a.kind = "list" =>
               msg[p].kind = "search" /\ \A u \in a.urls : u.server = server[p] /\ UrlRight(u),
           a.kind = "data" => msg[p].kind = "get" /\ a.file = url[p].file
    PROVE  IInv'
<1> USE DEF clientVars, serverVars
<1>0. Typed /\ RestTyped /\ FlowInv /\ UrlInv /\ GetRight
  BY Types, RestTypes DEF IInv
<1>1. Typed'
  BY <1>0 DEF Typed
<1>2. RestTyped'
  BY <1>0 DEF RestTyped
<1>3. /\ random <= random' /\ msg'[p] = a
      /\ \A q \in Procs : q # p => msg'[q] = msg[q]
  BY <1>0 DEF Typed
<1>4. Flow(p)'
  BY <1>0, <1>3 DEF FlowInv, Flow
<1>5. Handed(p)'
  BY <1>3 DEF Handed
<1>6. /\ \A u \in resps'[p] : UrlRight(u)
      /\ url'[p] # NoUrl => UrlRight(url'[p])
      /\ got'[p] # NoFile => got'[p].file = got'[p].want
  BY <1>0 DEF UrlInv, GetRight
<1> QED
  BY <1>1, <1>2, <1>3, <1>4, <1>5, <1>6, KeysAlone

LEMMA RefuseRespPreserves == ASSUME IInv, NEW p \in Procs, RefuseResp(p) PROVE IInv'
<1>1. /\ Closed \in Message /\ Closed.kind = "closed" /\ msg[p].kind # "nothing"
      /\ msg' = [msg EXCEPT ![p] = Closed]
      /\ UNCHANGED <<serverVars, store, keys, clientVars, random, bounds>>
  BY Messages DEF RefuseResp, Asks, Answer, Closed
<1>2. faults' \in 0..MaxFaults
  BY <1>1, RestTypes DEF IInv, RestTyped, bounds
<1> QED
  BY <1>1, <1>2, AnswerPreserves DEF bounds

LEMMA LosePreserves == ASSUME IInv, NEW p \in Procs, Lose(p) PROVE IInv'
<1>1. /\ Closed \in Message /\ Closed.kind = "closed" /\ msg[p].kind # "nothing"
      /\ msg' = [msg EXCEPT ![p] = Closed]
      /\ UNCHANGED <<serverVars, store, keys, clientVars, random, commands>>
  <2>1. msg[p] \in Message
    BY Types DEF IInv, Typed
  <2> QED
    BY <2>1, Messages, MessageKinds DEF Lose
<1>2. faults' \in 0..MaxFaults
  BY RestTypes, SfsAssumption DEF IInv, RestTyped, Lose
<1> QED
  BY <1>1, <1>2, AnswerPreserves


LEMMA HandleSearchPreserves == ASSUME IInv, NEW p \in Procs, HandleSearch(p) PROVE IInv'
<1> DEFINE s == server[p]
           found(k) == {[kind |-> "url", server |-> s, keyid |-> k.keyid, entry |-> EntryInUrl(s, i),
                         shadow |-> k.shadow, file |-> files[s][i]] : i \in DOMAIN files[s]}
<1>0. Typed /\ KeysTyped /\ FlowInv /\ KeyInv /\ SourceInv /\ s \in Procs /\ msg[p] \in Message
  BY Types, KeyTypes DEF IInv, Typed
<1>1. /\ msg[p].kind = "search"
      /\ UNCHANGED <<serverVars, store, keys, clientVars, random, bounds>>
  BY DEF HandleSearch, Asks
<1>2. PICK a : /\ msg' = [msg EXCEPT ![p] = a]
               /\ \/ a = Closed
                  \/ \E k \in KeyNumbered(keys[s], msg[p].keyid) :
                         k.key = msg[p].key /\ a = [kind |-> "list", key |-> k.key, urls |-> found(k)]
  BY DEF HandleSearch, Answer
<1>3. faults' \in 0..MaxFaults
  BY <1>1, RestTypes DEF IInv, RestTyped, bounds
<1>4. CASE a = Closed
  <2>1. a \in Message /\ a.kind = "closed"
    BY <1>4, Messages DEF Closed
  <2> QED
    BY <1>1, <1>2, <1>3, <2>1, AnswerPreserves DEF bounds
<1>5. ASSUME NEW k \in KeyNumbered(keys[s], msg[p].keyid), k.key = msg[p].key,
             a = [kind |-> "list", key |-> k.key, urls |-> found(k)]
      PROVE  IInv'
  <2>1. PICK j \in DOMAIN keys[s] : k = keys[s][j] /\ k.keyid = msg[p].keyid
    <3>1. keys[s] \in Seq(Key)
      BY <1>0, KeyTypes DEF IInv
    <3> QED
      BY <3>1, KeyNumberedFinds
  <2>2. KeyTyped(k)
    BY <1>0, <2>1 DEF KeysTyped
  <2>3. k.port = 0
    <3>1. msg[p].key \in Nat
      BY <1>0, <1>1, MessageKinds
    <3>2. KeyFrom(msg[p].key, s)
      BY <1>1 DEF KeyFrom
    <3>3. k.port # 0 => KeyFrom(msg[p].key, k.port) /\ k.port # s
      BY <1>0, <1>5, <2>1 DEF KeyFrom, KeyInv, KeyList
    <3> QED
      BY <1>0, <2>2, <3>1, <3>2, <3>3 DEF SourceInv, KeyTyped
  <2>4. k.shadow \in 1..(random - 1)
    BY <1>0, <2>1, <2>3 DEF KeyInv, KeyList
  <2>5. files[s] \in Seq(Files)
    BY <1>0 DEF IInv, TypeOK
  <2>6. \A i \in DOMAIN files[s] : i \in Nat /\ files[s][i] \in Files
    BY <2>5
  <2>7. \A u \in found(k) : u \in Url /\ u.server = s /\ UrlRight(u)
    <3> SUFFICES ASSUME NEW i \in DOMAIN files[s],
                        NEW u, u = [kind |-> "url", server |-> s, keyid |-> k.keyid,
                                    entry |-> EntryInUrl(s, i), shadow |-> k.shadow,
                                    file |-> files[s][i]]
                 PROVE  u \in Url /\ u.server = s /\ UrlRight(u)
      OBVIOUS
    <3>1. u \in Url
      BY <1>0, <2>2, <2>6 DEF Url, EntryInUrl, KeyTyped
    <3>2. u.server = s /\ UrlRight(u)
      BY <2>4 DEF UrlRight, EntryInUrl
    <3> QED
      BY <3>1, <3>2
  <2>8. a \in Message
    <3>1. found(k) \in SUBSET Url
      BY <2>7
    <3> HIDE DEF found
    <3> QED
      BY <1>5, <2>2, <3>1, Messages DEF KeyTyped
  <2> HIDE DEF found
  <2>9. a.kind = "list" /\ a.urls = found(k)
    BY <1>5
  <2> QED
    BY <1>1, <1>2, <1>3, <2>7, <2>8, <2>9, AnswerPreserves DEF bounds
<1> QED
  BY <1>2, <1>4, <1>5

LEMMA HandleGetPreserves == ASSUME IInv, NEW p \in Procs, HandleGet(p) PROVE IInv'
<1> DEFINE s == server[p]
<1>0. Typed /\ KeysTyped /\ FlowInv /\ UrlInv /\ s \in Procs /\ msg[p] \in Message /\ pc[p] = "get"
  <2>1. Typed /\ KeysTyped /\ FlowInv /\ UrlInv
    BY Types, KeyTypes DEF IInv
  <2> QED
    BY <2>1 DEF Typed, FlowInv, Flow, HandleGet, Asks
<1>1. /\ msg[p].kind = "get"
      /\ UNCHANGED <<serverVars, store, keys, clientVars, random, bounds>>
  BY DEF HandleGet, Asks
<1>2. PICK a : /\ msg' = [msg EXCEPT ![p] = a]
               /\ \/ a = Closed
                  \/ \E k \in KeyNumbered(keys[s], msg[p].keyid) :
                         /\ k.shadow = msg[p].shadow
                         /\ a = [kind |-> "data", key |-> k.key, file |-> files[s][msg[p].entry]]
  BY DEF HandleGet, Answer
<1>3. faults' \in 0..MaxFaults
  BY <1>1, RestTypes DEF IInv, RestTyped, bounds
<1>4. CASE a = Closed
  <2>1. a \in Message /\ a.kind = "closed"
    BY <1>4, Messages DEF Closed
  <2> QED
    BY <1>1, <1>2, <1>3, <2>1, AnswerPreserves DEF bounds
<1>5. ASSUME NEW k \in KeyNumbered(keys[s], msg[p].keyid), k.shadow = msg[p].shadow,
             a = [kind |-> "data", key |-> k.key, file |-> files[s][msg[p].entry]]
      PROVE  IInv'
  <2>1. PICK j \in DOMAIN keys[s] : k = keys[s][j]
    <3>1. keys[s] \in Seq(Key)
      BY <1>0, KeyTypes DEF IInv
    <3> QED
      BY <3>1, KeyNumberedFinds
  <2>2. k.key \in Nat
    BY <1>0, <2>1 DEF KeysTyped, KeyTyped
  <2>3. url[p] \in Url /\ url[p].server = s /\ UrlRight(url[p])
        /\ msg[p].entry = url[p].entry /\ msg[p].shadow = url[p].shadow
    BY <1>0, <1>1 DEF Typed, FlowInv, Flow, UrlInv
  <2>4. a.kind = "data" /\ a.file = url[p].file
    BY <1>5, <2>1, <2>3 DEF UrlRight
  <2>5. a \in Message
    BY <1>5, <2>2, <2>3, <2>4, Messages, Urls
  <2> QED
    BY <1>1, <1>2, <1>3, <2>4, <2>5, AnswerPreserves DEF bounds
<1> QED
  BY <1>2, <1>4, <1>5

LEMMA NextPreserves == ASSUME IInv, [Next]_vars PROVE IInv'
<1>1. ASSUME NEW p \in Procs, SearchCommand(p) PROVE IInv'
  <2>1. PICK s \in Procs \ {p}, what \in {NoUrl} : Command(p, s, what)
    BY <1>1 DEF SearchCommand
  <2> QED
    BY <2>1, CommandPreserves
<1>2. ASSUME NEW p \in Procs, GetCommand(p) PROVE IInv'
  <2>1. PICK u \in resps[p] : Command(p, u.server, u)
    BY <1>2 DEF GetCommand
  <2>2. u \in Url /\ u.server # p
    BY Types DEF IInv, Typed, FlowInv, Flow
  <2>3. u.server \in Procs \ {p}
    BY <2>2, Urls
  <2> QED
    BY <2>1, <2>3, CommandPreserves
<1>3. ASSUME NEW p \in Procs, Step(p) PROVE IInv'
  BY <1>3, AuthRespondPreserves, AuthDonePreserves, RequestPreserves, SearchDonePreserves,
     GetDonePreserves, FailsPreserves, HandleAuthPreserves, RefuseRespPreserves,
     HandleRespPreserves, HandleSearchPreserves, HandleGetPreserves DEF Step
<1>4. CASE UNCHANGED vars
  <2> USE <1>4 DEF vars, clientVars, serverVars, bounds
  <2>0. TypeOK /\ MsgType /\ FlowInv /\ NonceInv /\ KeyInv /\ SourceInv /\ UrlInv /\ GetRight
    BY DEF IInv
  <2>1. TypeOK'
    BY <2>0 DEF TypeOK
  <2>2. MsgType' /\ FlowInv' /\ NonceInv' /\ GetRight'
    BY <2>0 DEF MsgType, FlowInv, Flow, NonceInv, Handed, GetRight
  <2>3. KeyInv' /\ UrlInv'
    BY <2>0 DEF KeyInv, KeyList, UrlInv, UrlRight
  <2>4. SourceInv'
    BY <2>0 DEF SourceInv, KeyFrom, KeyFor
  <2> QED
    BY <2>1, <2>2, <2>3, <2>4 DEF IInv
<1> QED
  BY <1>1, <1>2, <1>3, <1>4, SharePreserves, ExpirePreserves, LosePreserves, RestartPreserves DEF Next

LEMMA SfsInvariant == Spec => []IInv
BY InitIInv, NextPreserves, PTL DEF Spec

----------------------------------------------------------------------------
\* Every variable stays in the values that its declaration in sfs.cpp gives it,
\* and a command that is not under way has nothing on a connection.
THEOREM SfsTypeOK == Spec => []TypeOK
<1>1. IInv => TypeOK
  BY DEF IInv
<1> QED
  BY <1>1, SfsInvariant, PTL

\* What get brings under an entry number that a key has hidden is the file that
\* the search has shown, over any number of restarts and scans of the server.
THEOREM SfsGetRight == Spec => []GetRight
<1>1. IInv => GetRight
  BY DEF IInv
<1> QED
  BY <1>1, SfsInvariant, PTL

\* However often clients authenticate, CreateKey makes one key for an identity
\* at an address, and no number twice.
THEOREM SfsOneKeyEach == Spec => []OneKeyEach
<1>1. ASSUME IInv PROVE OneKeyEach
  <2> SUFFICES ASSUME NEW s \in Procs, NEW k \in Made(s), NEW m \in Made(s),
                      k.keyid = m.keyid \/ (k.id = m.id /\ k.ip = m.ip)
               PROVE  k = m
    BY DEF OneKeyEach
  <2>1. PICK i \in DOMAIN keys[s] : keys[s][i].port = 0 /\ k = keys[s][i]
    BY DEF Made
  <2>2. PICK j \in DOMAIN keys[s] : keys[s][j].port = 0 /\ m = keys[s][j]
    BY DEF Made
  <2>3. i = j
    BY <1>1, <2>1, <2>2 DEF IInv, KeyInv, KeyList
  <2> QED
    BY <2>1, <2>2, <2>3
<1> QED
  BY <1>1, SfsInvariant, PTL

\* The key that a client keeps for a server is the one that FindKey gives the
\* server for its number, and was made for the client, unless the server has
\* been started again since and does not have it any more.
THEOREM SfsKeysAgree == Spec => []KeysAgree
<1>1. ASSUME IInv PROVE KeysAgree
  <2> SUFFICES ASSUME NEW p \in Procs, NEW s \in Procs, NEW k \in KeyAt(keys[p], Host[s], s),
                      k.key \in {m.key : m \in Made(s)}
               PROVE  \E m \in KeyNumbered(keys[s], k.keyid) : m.key = k.key /\ m.id = Identity[p]
    BY DEF KeysAgree
  <2>1. keys[p] \in Seq(Key) /\ keys[s] \in Seq(Key) /\ KeysTyped
    BY <1>1, KeyTypes DEF IInv
  <2>2. PICK j \in DOMAIN keys[p] : k = keys[p][j] /\ k.port = s
    BY <2>1, KeyAtFinds
  <2>3. PICK i \in DOMAIN keys[s] : keys[s][i].port = 0 /\ keys[s][i].key = k.key
    BY DEF Made
  <2>4. keys[s][i].keyid = k.keyid /\ keys[s][i].id = Identity[p]
    BY <1>1, <2>2, <2>3, SfsAssumption DEF IInv, SourceInv, KeyFor
  <2>5. PICK l \in DOMAIN keys[s] : /\ l <= i /\ keys[s][l].keyid = k.keyid
                                    /\ KeyNumbered(keys[s], k.keyid) = {keys[s][l]}
    <3>1. \A h \in DOMAIN keys[s] : keys[s][h].keyid = k.keyid =>
              \E l \in DOMAIN keys[s] : /\ l <= h /\ keys[s][l].keyid = k.keyid
                                        /\ KeyNumbered(keys[s], k.keyid) = {keys[s][l]}
      BY <2>1, KeyNumberedFinds
    <3> QED
      BY <2>3, <2>4, <3>1
  <2>6. l \in Nat /\ i \in Nat
    BY <2>1
  <2>7. keys[s][l].port = 0
    BY <1>1, <2>3, <2>5, <2>6 DEF IInv, KeyInv, KeyList
  <2>8. l = i
    BY <1>1, <2>3, <2>4, <2>5, <2>7 DEF IInv, KeyInv, KeyList
  <2> QED
    BY <2>3, <2>4, <2>5, <2>8
<1> QED
  BY <1>1, SfsInvariant, PTL
=============================================================================

-------------------------------- MODULE Sfs --------------------------------
(***************************************************************************)
(* The secure file share (samples/sfs/sfs.cpp): processes that search for  *)
(* files of each other and get them, each under a key that the two agree   *)
(* on after both have answered a challenge (Auth, HandleAuth, HandleResp). *)
(* A process issues commands until it shares its files, which it does      *)
(* until it ends; its one list of keys holds those it was given and those  *)
(* it has made.                                                            *)
(*                                                                         *)
(* A request and its answer use a connection of their own, which either    *)
(* side or the network may end.  Encryption, signatures and random numbers *)
(* are ideal: numbers are never drawn twice, and what is encrypted under   *)
(* one key says nothing under another.  A process listens at the port that *)
(* is its number and is found under the address it advertises.             *)
(***************************************************************************)
EXTENDS Integers, Sequences, FiniteSets

CONSTANTS
    Procs,        \* processes, numbers above 0
    Identity,     \* the identity of a process
    Host,         \* the address of the computer it runs on
    Issuer,       \* who has signed the certificate of an identity
    Known,        \* the identities that a process has in its store at first
    Sharers,      \* processes with a directory to share
    Files,
    MaxCommands,  \* bound: searches and gets
    MaxFaults     \* bound: connections that the network ends, processes that end

Ids == {Identity[p] : p \in Procs}

\* HandleSearch writes its answer into 2048 bytes, without a look at their end: this many
\* files, with names of up to 30 characters, surely fit.
MaxListed == 20

ASSUME SfsAssumption ==
    /\ Procs \subseteq Nat \ {0}
    /\ DOMAIN Identity = Procs
    /\ DOMAIN Host = Procs
    /\ Sharers \subseteq Procs
    /\ IsFiniteSet(Files)
    /\ MaxCommands \in Nat
    /\ MaxFaults \in Nat

ASSUME SfsCertificates ==
    /\ DOMAIN Issuer = Ids
    /\ Known \in [Procs -> SUBSET Ids]

ASSUME SfsFilesFit == Cardinality(Files) <= MaxListed

VARIABLES
    serving,   \* the process is in Share
    files,     \* the collection it shares, by entry number
    store,     \* the identities its Store has been given
    keys,      \* the list of keys, head first
    keyid,     \* CreateKey: the next number
    pending,   \* challenges of the Authenticator in Share
    pc,        \* where its command is
    server,    \* whom the command is for
    url,       \* what is to be got, NoUrl in a search
    chal,      \* the challenge of the Authenticator in Auth
    msg,       \* what is on its connection
    resps,     \* what the last search has found
    got,       \* what the last get has brought
    random,    \* the next random number
    commands, faults

clientVars == <<pc, server, url, chal, resps, got>>
serverVars == <<serving, files, keyid, pending>>
bounds == <<commands, faults>>
vars == <<serverVars, store, keys, clientVars, msg, random, bounds>>

NoUrl == [kind |-> "none"]
Nothing == [kind |-> "nothing"]
Closed == [kind |-> "closed"]
NoFile == [kind |-> "none"]

Hosts == {Host[p] : p \in Procs}
Key == [id : Ids, ip : Hosts, port : {0} \cup Procs, keyid : Nat, shadow : Nat, key : Nat]
Url == [kind : {"url"}, server : Procs, keyid : Nat, entry : Nat, shadow : Nat, file : Files]

TypeOK ==
    /\ serving \in [Procs -> BOOLEAN]
    /\ files \in [Procs -> Seq(Files)]
    /\ store \in [Procs -> SUBSET Ids]
    /\ keys \in [Procs -> Seq(Key)]
    /\ keyid \in [Procs -> Nat]
    /\ pending \in [Procs -> SUBSET [nonce : Nat, id : Ids]]
    /\ pc \in [Procs -> {"idle", "auth", "resp", "ready", "search", "get"}]
    /\ server \in [Procs -> Procs]
    /\ \A p \in Procs : url[p] \in Url \cup {NoUrl}
    /\ chal \in [Procs -> Nat]
    /\ \A p \in Procs : msg[p].kind \in {"nothing", "closed", "auth", "chal", "resp", "key",
                                         "search", "list", "get", "data"}
    /\ \A p \in Procs : pc[p] = "idle" => msg[p] = Nothing
    /\ resps \in [Procs -> SUBSET Url]
    /\ \A p \in Procs : got[p] = NoFile \/ got[p] \in [kind : {"file"}, want : Files, file : Files]
    /\ random \in Nat
    /\ commands \in 0..MaxCommands
    /\ faults \in 0..MaxFaults

\* The contents of a collection that has just been scanned: every file has a
\* number, which depends on the order of the scan.
Scans == {scan \in [1..Cardinality(Files) -> Files] : {scan[i] : i \in DOMAIN scan} = Files}

Init ==
    /\ serving = [p \in Procs |-> FALSE]
    /\ files = [p \in Procs |-> <<>>]
    /\ store = Known
    /\ keys = [p \in Procs |-> <<>>]
    /\ keyid = [p \in Procs |-> 0]
    /\ pending = [p \in Procs |-> {}]
    /\ pc = [p \in Procs |-> "idle"]
    /\ server = [p \in Procs |-> p]
    /\ url = [p \in Procs |-> NoUrl]
    /\ chal = [p \in Procs |-> 0]
    /\ msg = [p \in Procs |-> Nothing]
    /\ resps = [p \in Procs |-> {}]
    /\ got = [p \in Procs |-> NoFile]
    /\ random = 1
    /\ commands = 0
    /\ faults = 0

----------------------------------------------------------------------------
(* The list of keys *)

First(list, Test(_)) ==
    LET hits == {i \in DOMAIN list : Test(list[i])}
    IN  IF hits = {} THEN {} ELSE {list[CHOOSE i \in hits : \A j \in hits : i <= j]}

\* FindKey(keys, NULL, ip, port), FindKey(keys, ident, ip, port) and
\* FindKey(keys, keyid): the first such key, in a set of at most one.
KeyAt(list, ip, port) == First(list, LAMBDA k : k.ip = ip /\ k.port = port)
KeyOf(list, id, ip, port) == First(list, LAMBDA k : k.ip = ip /\ k.port = port /\ k.id = id)
KeyNumbered(list, n) == First(list, LAMBDA k : k.keyid = n)

\* Mutant: the new key goes to the end.
NewKeyBehind(s, id, ip) ==
    Append(keys[s], [id |-> id, ip |-> ip, port |-> 0, keyid |-> keyid[s],
                     shadow |-> random, key |-> random + 1])

\* CreateKey, when there is none for this identity at this address.
NewKey(s, id, ip) ==
    <<[id |-> id, ip |-> ip, port |-> 0, keyid |-> keyid[s],
       shadow |-> random, key |-> random + 1]>> \o keys[s]

\* Mutant: it is not looked for.
HasKeyNever(s, id, ip) == FALSE

HasKey(s, id, ip) == KeyOf(keys[s], id, ip, 0) # {}

\* ImportKey: the key of this identity at this place, new or in the place of
\* the one that is there.  (Its shadow is none that a server has: 0.)
ImportKey(p, id, s, shared) ==
    LET key == [id |-> id, ip |-> Host[s], port |-> s, keyid |-> shared.keyid,
                shadow |-> 0, key |-> shared.key]
        old == KeyOf(keys[p], id, Host[s], s)
    IN  IF old = {} THEN <<key>> \o keys[p]
        ELSE [i \in DOMAIN keys[p] |-> IF keys[p][i] \in old THEN key ELSE keys[p][i]]

----------------------------------------------------------------------------
(* Commands *)

\* WriteHttp, on a new connection: there is none to a process that does not listen.
Write(p, request) ==
    msg' = [msg EXCEPT ![p] = IF serving[server[p]] THEN request ELSE Closed]

\* search and get: connect and authenticate, unless there is a key for this
\* place already.
Command(p, s, what) ==
    /\ pc[p] = "idle"
    /\ ~serving[p]
    /\ serving[s]
    /\ commands < MaxCommands
    /\ commands' = commands + 1
    /\ server' = [server EXCEPT ![p] = s]
    /\ url' = [url EXCEPT ![p] = what]
    /\ got' = [got EXCEPT ![p] = NoFile]
    /\ IF KeyAt(keys[p], Host[s], s) # {}
       THEN pc' = [pc EXCEPT ![p] = "ready"] /\ UNCHANGED msg
       ELSE /\ pc' = [pc EXCEPT ![p] = "auth"]
            /\ msg' = [msg EXCEPT ![p] = [kind |-> "auth", id |-> Identity[p]]]
    /\ UNCHANGED <<serverVars, store, keys, chal, resps, random, faults>>

SearchCommand(p) == \E s \in Procs \ {p} : Command(p, s, NoUrl)
GetCommand(p) == \E u \in resps[p] : Command(p, u.server, u)

\* Mutant: the connection is not deleted.
EndsOpen(p) ==
    /\ pc' = [pc EXCEPT ![p] = "idle"]
    /\ server' = [server EXCEPT ![p] = p]
    /\ url' = [url EXCEPT ![p] = NoUrl]
    /\ chal' = [chal EXCEPT ![p] = 0]
    /\ UNCHANGED msg

\* The command ends, and with it its locals and its connection.
Ends(p) ==
    /\ pc' = [pc EXCEPT ![p] = "idle"]
    /\ msg' = [msg EXCEPT ![p] = Nothing]
    /\ server' = [server EXCEPT ![p] = p]
    /\ url' = [url EXCEPT ![p] = NoUrl]
    /\ chal' = [chal EXCEPT ![p] = 0]

\* Insert(store, id): a certificate that is signed by itself or by an identity in the
\* store is accepted and may vouch for the next; one's own is not kept.
Accepted(p, id) == Issuer[id] \in store[p] \cup {id, Identity[p]} \/ id = Identity[p]
Inserted(p, id) == IF id = Identity[p] THEN store[p] ELSE store[p] \cup {id}

\* Auth with the answer to its first request: Insert, Respond, Challenge and the
\* second request, with the flags in an envelope.
AuthRespond(p) ==
    /\ pc[p] = "auth"
    /\ msg[p].kind = "chal"
    /\ IF Accepted(p, msg[p].id)
       THEN /\ store' = [store EXCEPT ![p] = Inserted(p, msg[p].id)]
            /\ chal' = [chal EXCEPT ![p] = random]
            /\ random' = random + 1
            /\ Write(p, [kind |-> "resp", resp |-> msg[p].nonce, chal |-> random])
            /\ pc' = [pc EXCEPT ![p] = "resp"]
            /\ UNCHANGED <<server, url>>
       ELSE Ends(p) /\ UNCHANGED <<store, random>>
    /\ UNCHANGED <<serverVars, keys, resps, got, bounds>>

\* Auth with the answer to its second request: Verify, for which it must not be 60 seconds
\* late, and ImportKey.
AuthDone(p) ==
    /\ pc[p] = "resp"
    /\ msg[p].kind = "key"
    /\ \/ /\ msg[p].resp = chal[p]
          /\ keys' = [keys EXCEPT ![p] = ImportKey(p, Identity[server[p]], server[p], msg[p])]
          /\ pc' = [pc EXCEPT ![p] = "ready"]
          /\ msg' = [msg EXCEPT ![p] = Nothing]
          /\ UNCHANGED <<server, url, chal>>
       \/ Ends(p) /\ UNCHANGED keys
    /\ UNCHANGED <<serverVars, store, resps, got, random, bounds>>

\* Search and Get: the request.
Request(p) ==
    /\ pc[p] = "ready"
    /\ \E key \in KeyAt(keys[p], Host[server[p]], server[p]) :
        IF url[p] = NoUrl
        THEN /\ pc' = [pc EXCEPT ![p] = "search"]
             /\ Write(p, [kind |-> "search", keyid |-> key.keyid, key |-> key.key])
             /\ resps' = [resps EXCEPT ![p] = {}]
        ELSE /\ pc' = [pc EXCEPT ![p] = "get"]
             /\ Write(p, [kind |-> "get", keyid |-> url[p].keyid, entry |-> url[p].entry,
                          shadow |-> url[p].shadow])
             /\ UNCHANGED resps
    /\ UNCHANGED <<serverVars, store, keys, server, url, chal, got, random, bounds>>

\* What the client finds when it decrypts an answer under the key it keeps.
Decrypts(p) ==
    \E key \in KeyAt(keys[p], Host[server[p]], server[p]) : key.key = msg[p].key

SearchDone(p) ==
    /\ pc[p] = "search"
    /\ msg[p].kind = "list"
    /\ resps' = [resps EXCEPT ![p] = IF Decrypts(p) THEN msg[p].urls ELSE {}]
    /\ Ends(p)
    /\ UNCHANGED <<serverVars, store, keys, got, random, bounds>>

GetDone(p) ==
    /\ pc[p] = "get"
    /\ msg[p].kind = "data"
    /\ got' = [got EXCEPT ![p] = IF Decrypts(p)
                                 THEN [kind |-> "file", want |-> url[p].file,
                                       file |-> msg[p].file]
                                 ELSE NoFile]
    /\ Ends(p)
    /\ UNCHANGED <<serverVars, store, keys, resps, random, bounds>>

\* The connection ends without an answer.
Fails(p) ==
    /\ msg[p] = Closed
    /\ Ends(p)
    /\ UNCHANGED <<serverVars, store, keys, resps, got, random, bounds>>

----------------------------------------------------------------------------
(* Share *)

\* The command wait, or the end of the options: Rescan, then Share.  (Behind the
\* bound on commands nobody would ask any more.)
Share(p) ==
    /\ pc[p] = "idle"
    /\ ~serving[p]
    /\ p \in Sharers
    /\ commands < MaxCommands
    /\ serving' = [serving EXCEPT ![p] = TRUE]
    /\ \E scan \in Scans : files' = [files EXCEPT ![p] = scan]
    /\ UNCHANGED <<store, keys, keyid, pending, clientVars, msg, random, bounds>>

\* A request of p that its server reads.
Asks(p, kind) == serving[server[p]] /\ msg[p].kind = kind

Answer(p, answer) == msg' = [msg EXCEPT ![p] = answer]

HandleAuth(p) ==
    LET s == server[p]
    IN  /\ Asks(p, "auth")
        /\ pending' = [pending EXCEPT ![s] = @ \cup {[nonce |-> random, id |-> msg[p].id]}]
        /\ random' = random + 1
        /\ Answer(p, [kind |-> "chal", nonce |-> random, id |-> Identity[s]])
        /\ UNCHANGED <<serving, files, keyid, store, keys, clientVars, bounds>>

\* Verify: the pending challenge, if it is still there.
Verified(p) == {c \in pending[server[p]] : c.nonce = msg[p].resp}

\* Mutant: the connection is left open when the response is not accepted.
RefuseRespOpen(p) ==
    /\ Asks(p, "resp")
    /\ Verified(p) = {}
    /\ UNCHANGED vars

\* HandleResp without a pending challenge: Share closes the connection.
RefuseResp(p) ==
    /\ Asks(p, "resp")
    /\ Verified(p) = {}
    /\ Answer(p, Closed)
    /\ UNCHANGED <<serverVars, store, keys, clientVars, random, bounds>>

\* HandleResp: Verify takes the challenge away; the key of this identity at this
\* address is made if there is none, and sent in an envelope for it.
HandleResp(p) ==
    LET s == server[p]
    IN  /\ Asks(p, "resp")
        /\ \E c \in Verified(p) :
            /\ pending' = [pending EXCEPT ![s] = @ \ {c}]
            /\ IF HasKey(s, c.id, Host[p])
               THEN UNCHANGED <<keys, keyid, random>>
               ELSE /\ keys' = [keys EXCEPT ![s] = NewKey(s, c.id, Host[p])]
                    /\ keyid' = [keyid EXCEPT ![s] = @ + 1]
                    /\ random' = random + 2
            /\ \E key \in KeyOf(keys'[s], c.id, Host[p], 0) :
                Answer(p, [kind |-> "key", resp |-> msg[p].chal,
                           keyid |-> key.keyid, key |-> key.key])
        /\ UNCHANGED <<serving, files, store, clientVars, bounds>>

\* Mutant: the file's place in the answer instead of its entry number.
EntryInUrlNext(s, i) == IF i < Len(files[s]) THEN i + 1 ELSE 1

\* The entry number that HandleSearch puts in a URL (hidden by the shadow).
EntryInUrl(s, i) == i

\* HandleSearch under the key whose number is in the request; under another one
\* the text is no text.  Every file matches.
HandleSearch(p) ==
    LET s == server[p]
    IN  /\ Asks(p, "search")
        /\ LET key == {k \in KeyNumbered(keys[s], msg[p].keyid) : k.key = msg[p].key}
           IN  \/ key = {} /\ Answer(p, Closed)
               \/ \E k \in key :
                    Answer(p, [kind |-> "list", key |-> k.key,
                        urls |-> {[kind |-> "url", server |-> s, keyid |-> k.keyid,
                                   entry |-> EntryInUrl(s, i), shadow |-> k.shadow,
                                   file |-> files[s][i]] : i \in DOMAIN files[s]}])
        /\ UNCHANGED <<serverVars, store, keys, clientVars, random, bounds>>

\* HandleGet: the entry number is found with the shadow that has hidden it; with
\* another one there is no such entry.  The file may not be there any more.
HandleGet(p) ==
    LET s == server[p]
    IN  /\ Asks(p, "get")
        /\ LET key == {k \in KeyNumbered(keys[s], msg[p].keyid) :
                            k.shadow = msg[p].shadow /\ msg[p].entry \in DOMAIN files[s]}
           IN  \/ Answer(p, Closed)
               \/ \E k \in key : Answer(p, [kind |-> "data", key |-> k.key,
                                            file |-> files[s][msg[p].entry]])
        /\ UNCHANGED <<serverVars, store, keys, clientVars, random, bounds>>

\* A challenge is 60 seconds old.
Expire(s) ==
    /\ \E c \in pending[s] : pending' = [pending EXCEPT ![s] = @ \ {c}]
    /\ UNCHANGED <<serving, files, keyid, store, keys, clientVars, msg, random, bounds>>

----------------------------------------------------------------------------
\* A request or an answer does not get through.
Lose(p) ==
    /\ msg[p] \notin {Nothing, Closed}
    /\ faults < MaxFaults
    /\ faults' = faults + 1
    /\ msg' = [msg EXCEPT ![p] = Closed]
    /\ UNCHANGED <<serverVars, store, keys, clientVars, random, commands>>

\* A process ends and is started again; its store is on disk, all else is gone,
\* and so are the connections to it.
Restart(p) ==
    /\ faults < MaxFaults
    /\ faults' = faults + 1
    /\ serving' = [serving EXCEPT ![p] = FALSE]
    /\ files' = [files EXCEPT ![p] = <<>>]
    /\ keys' = [keys EXCEPT ![p] = <<>>]
    /\ keyid' = [keyid EXCEPT ![p] = 0]
    /\ pending' = [pending EXCEPT ![p] = {}]
    /\ pc' = [pc EXCEPT ![p] = "idle"]
    /\ resps' = [resps EXCEPT ![p] = {}]
    /\ got' = [got EXCEPT ![p] = NoFile]
    /\ url' = [url EXCEPT ![p] = NoUrl]
    /\ server' = [server EXCEPT ![p] = p]
    /\ chal' = [chal EXCEPT ![p] = 0]
    /\ msg' = [q \in Procs |-> IF q = p THEN Nothing
                               ELSE IF server[q] = p /\ msg[q] # Nothing THEN Closed
                               ELSE msg[q]]
    /\ UNCHANGED <<store, random, commands>>

\* A step of the command of p, on either side.
Step(p) ==
    \/ AuthRespond(p) \/ AuthDone(p) \/ Request(p) \/ SearchDone(p) \/ GetDone(p) \/ Fails(p)
    \/ HandleAuth(p) \/ RefuseResp(p) \/ HandleResp(p) \/ HandleSearch(p) \/ HandleGet(p)

Next ==
    \E p \in Procs :
        \/ SearchCommand(p) \/ GetCommand(p) \/ Share(p)
        \/ Step(p)
        \/ Expire(p) \/ Lose(p) \/ Restart(p)

\* Clients and servers go on with what they have begun.
Spec == Init /\ [][Next]_vars /\ \A p \in Procs : WF_vars(Step(p))

----------------------------------------------------------------------------
(* Properties *)

\* The keys that a process has made for others since it started.
Made(s) == {keys[s][i] : i \in {i \in DOMAIN keys[s] : keys[s][i].port = 0}}

\* A key that a client keeps for a server, if this server has made it since it
\* was started, is the one that the server finds under its number, and was made
\* for the client's identity: also when a reply was lost and Auth repeated, when
\* challenges of several clients are pending, when the server keeps keys of
\* other servers with the same number, and after restarts.
KeysAgree ==
    \A p, s \in Procs : \A k \in KeyAt(keys[p], Host[s], s) :
        k.key \in {m.key : m \in Made(s)} =>
            \E m \in KeyNumbered(keys[s], k.keyid) : m.key = k.key /\ m.id = Identity[p]

\* CreateKey makes one key for an identity at an address, with a number of its
\* own, however often it authenticates.
OneKeyEach ==
    \A s \in Procs : \A k, m \in Made(s) :
        k.keyid = m.keyid \/ (k.id = m.id /\ k.ip = m.ip) => k = m

\* What a get brings is the file that the search has shown, though the server
\* was started again in between, numbers its files anew and gives the same
\* key numbers to others.
GetRight == \A p \in Procs : got[p] # NoFile => got[p].file = got[p].want

\* A search or a get ends: each request is answered or its connection closed,
\* also one with a challenge that has expired or a key that is forgotten.
CommandsEnd == \A p \in Procs : pc[p] # "idle" ~> pc[p] = "idle"
============================================================================

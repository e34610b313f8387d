---------------------------- MODULE TrutTransfer ----------------------------
(***************************************************************************)
(* Files on their way (samples/trutella/trut.cpp): clients Get files of    *)
(* one server.  A plain file is a request and an answer.  For a file of a  *)
(* group GetAuth and PutAuth exchange two challenges on two connections,   *)
(* and the answer to the second carries the header of the file.  On the    *)
(* server PortThread takes one connection after the other, authenticates   *)
(* it and starts a PutThread for it, with a context on its own stack,      *)
(* which the next connection overwrites.  A PutThread uses the entry of    *)
(* its file, the group and the group's key without a lock, while the       *)
(* server's user may rescan or leave the group, which frees them.          *)
(*                                                                         *)
(* A request is written when its connection is made and is read whole.     *)
(* Challenges, seals and the group's key are ideal: a nonce stands for the *)
(* challenge and its response, and only the one it was made for knows it.  *)
(* What happens to the bytes of the file itself is in KeyStream.           *)
(***************************************************************************)
EXTENDS Naturals, FiniteSets

CONSTANTS
    Clients,
    Known,       \* those whose certificate the server has
    Trusting,    \* those that have the server's certificate
    Files,
    Kind,        \* of a file: "plain", "secure" in a group, or the "key" of the group
    Wants,       \* bound: which client may ask for which file
    None,
    MaxGets,     \* bound: calls of Get
    MaxFaults    \* bound: lost connections, expired challenges, files gone, Rescans, groups left

Gets == 1..MaxGets

ASSUME TransferAssumption ==
    /\ Known \subseteq Clients /\ Trusting \subseteq Clients
    /\ Kind \in [Files -> {"plain", "secure", "key"}]
    /\ Wants \subseteq Clients \X Files
    /\ None \notin Clients \cup Files /\ None \notin Gets
    /\ MaxGets \in Nat /\ MaxFaults \in Nat

VARIABLES
    \* each Get of a client
    pc,        \* where it is
    who,       \* the client
    file,      \* m_file
    ref,       \* its m_ref: the Rescan that gave the file this number, 0 for none
    status,    \* what its callback was told in the end
    got,       \* the file that it wrote, None for a part
    asked,     \* the challenges of the clients' Authenticators
    \* its connection
    conn,      \* none, new (not yet accepted), taken, closed by the server, or lost
    rqst,      \* the request on it
    answer,    \* the header that the server has written
    data,      \* the content
    \* the server
    port,      \* PortThread: the connection it is at, or None
    ctx,       \* PutContext on its stack
    resp,      \* the buffers m_resp
    pending,   \* the challenges of the server's Authenticator
    put,       \* where the PutThread is that was started for a connection
    host,      \* the host it found in the context
    entry,     \* the file it found in the collection
    stale,     \* the PutThreads whose entry a Rescan has deleted
    freed,     \* those whose host or buffer somebody else has deleted, and PortThread's
    scans,     \* the Rescans so far
    shared,    \* the files in the collection
    disk,      \* the files that can be opened
    member,    \* the group has not been left
    down,      \* the process has ended
    mixed,     \* history: a context was overwritten that a PutThread still used
    random, faults

clientVars == <<pc, who, file, ref, status, got, asked>>
netVars == <<conn, rqst, answer, data>>
portVars == <<port, ctx, resp, pending>>
putVars == <<put, host, entry, stale, freed>>
ownVars == <<scans, shared, disk, member>>
serverVars == <<portVars, putVars, ownVars, down, mixed>>
vars == <<clientVars, netVars, serverVars, random, faults>>

Nothing == [kind |-> "nothing"]

TypeOK ==
    /\ pc \in [Gets -> {"none", "status", "auth", "resp", "thread", "done"}]
    /\ who \in [Gets -> Clients \cup {None}]
    /\ file \in [Gets -> Files \cup {None}]
    /\ ref \in [Gets -> 0..scans]
    /\ status \in [Gets -> {"none", "done", "error"}]
    /\ got \in [Gets -> Files \cup {None}]
    /\ asked \subseteq [nonce : 1..random, who : Clients]
    /\ conn \in [Gets -> {"none", "new", "taken", "closed", "lost"}]
    /\ \A g \in Gets : /\ rqst[g].kind \in {"nothing", "get", "id", "resp"}
                       /\ answer[g].kind \in {"nothing", "401", "200", "404"}
                       /\ data[g].kind \in {"nothing", "file", "page", "stray"}
                       /\ pc[g] = "done" <=> status[g] # "none"
    /\ port \in Gets \cup {None}
    /\ ctx \in [host : Gets \cup {None}, resp : Gets \cup {None}, id : Clients \cup {None}]
    /\ resp \in [Gets -> 0..random]
    /\ pending \subseteq [nonce : 1..random, id : Clients]
    /\ put \in [Gets -> {"none", "start", "find", "header", "data", "end", "over"}]
    /\ host \in [Gets -> Gets \cup {None}]
    /\ entry \in [Gets -> Files \cup {None}]
    /\ stale \subseteq Gets /\ freed \subseteq Gets
    /\ scans \in 0..faults
    /\ shared \subseteq Files /\ disk \subseteq shared
    /\ member \in BOOLEAN /\ down \in BOOLEAN /\ mixed \in BOOLEAN
    /\ faults \in 0..MaxFaults

Init ==
    /\ pc = [g \in Gets |-> "none"]
    /\ who = [g \in Gets |-> None]
    /\ file = [g \in Gets |-> None]
    /\ ref = [g \in Gets |-> 0]
    /\ status = [g \in Gets |-> "none"]
    /\ got = [g \in Gets |-> None]
    /\ asked = {}
    /\ conn = [g \in Gets |-> "none"]
    /\ rqst = [g \in Gets |-> Nothing]
    /\ answer = [g \in Gets |-> Nothing]
    /\ data = [g \in Gets |-> Nothing]
    /\ port = None
    /\ ctx = [host |-> None, resp |-> None, id |-> None]
    /\ resp = [g \in Gets |-> 0]
    /\ pending = {}
    /\ put = [g \in Gets |-> "none"]
    /\ host = [g \in Gets |-> None]
    /\ entry = [g \in Gets |-> None]
    /\ stale = {} /\ freed = {}
    /\ scans = 0 /\ shared = Files /\ disk = Files
    /\ member = TRUE /\ down = FALSE /\ mixed = FALSE
    /\ random = 1 /\ faults = 0

----------------------------------------------------------------------------
(* A client: Get, GetAuth and GetThread *)

\* A new connection with a request on it; there is none to a process that has ended.
Connect(g, request) ==
    /\ conn' = [conn EXCEPT ![g] = IF down THEN "lost" ELSE "new"]
    /\ rqst' = [rqst EXCEPT ![g] = request]
    /\ answer' = [answer EXCEPT ![g] = Nothing]

\* Get: the request, in GetAuth with one's own identity if the file is in a group.  The
\* search that brought the file may be older than the last Rescan.
Get(g, c, f) ==
    /\ pc[g] = "none" /\ <<c, f>> \in Wants
    /\ \A h \in Gets : h < g => pc[h] # "none"
    /\ who' = [who EXCEPT ![g] = c]
    /\ file' = [file EXCEPT ![g] = f]
    /\ \E r \in 0..(IF Kind[f] = "key" THEN 0 ELSE scans) : ref' = [ref EXCEPT ![g] = r]
    /\ IF Kind[f] = "plain"
       THEN /\ pc' = [pc EXCEPT ![g] = "status"]
            /\ Connect(g, [kind |-> "get", file |-> f])
       ELSE /\ pc' = [pc EXCEPT ![g] = "auth"]
            /\ Connect(g, [kind |-> "id", id |-> c, file |-> f])
    /\ UNCHANGED <<status, got, asked, data, serverVars, random, faults>>

\* ReadHttpHdr has nothing to return: no header came before the connection ended.
NoHeader(g) == conn[g] \in {"closed", "lost"} /\ answer[g] = Nothing

\* Mutant: the callback is not called.
FailedSilent(g) ==
    /\ pc' = [pc EXCEPT ![g] = "done"]
    /\ UNCHANGED <<who, file, ref, status, got>>

\* The callback with GET_ERROR, and the Get is deleted.
Failed(g) ==
    /\ pc' = [pc EXCEPT ![g] = "done"]
    /\ status' = [status EXCEPT ![g] = "error"]
    /\ UNCHANGED <<who, file, ref, got>>

\* GetAuth with the first answer, of a server that is known: on a new connection the response to the
\* server's challenge and a challenge of one's own.
GetAuth(g) ==
    /\ pc[g] = "auth"
    /\ answer[g].kind = "401"
    /\ who[g] \in Trusting
    /\ asked' = asked \cup {[nonce |-> random, who |-> who[g]]}
    /\ random' = random + 1
    /\ pc' = [pc EXCEPT ![g] = "resp"]
    /\ Connect(g, [kind |-> "resp", resp |-> answer[g].chal, chal |-> random, file |-> file[g]])
    /\ UNCHANGED <<who, file, ref, status, got, data, serverVars, faults>>

\* Verify of the client: a response to a challenge of this process, which is used up.
Verified(g) == [nonce |-> answer[g].resp, who |-> who[g]] \in asked

\* The header of the file is there; with an authenticated file it has the server's response.
GetStart(g) ==
    /\ pc[g] \in {"status", "resp"}
    /\ answer[g].kind = "200"
    /\ pc[g] = "resp" => Verified(g)
    /\ asked' = asked \ {[nonce |-> answer[g].resp, who |-> who[g]]}
    /\ pc' = [pc EXCEPT ![g] = "thread"]
    /\ UNCHANGED <<who, file, ref, status, got, netVars, serverVars, random, faults>>

\* Get gives up: no header, not the one it needs, an unknown server, or a response that
\* does not verify.
GetFails(g) ==
    /\ \/ pc[g] \in {"status", "auth", "resp"} /\ NoHeader(g)
       \/ pc[g] \in {"status", "auth", "resp"} /\ answer[g].kind = "404"
       \/ pc[g] = "auth" /\ answer[g].kind = "200"
       \/ pc[g] = "auth" /\ answer[g].kind = "401" /\ who[g] \notin Trusting
       \/ pc[g] = "resp" /\ answer[g].kind = "200" /\ ~Verified(g)
    /\ Failed(g)
    /\ UNCHANGED <<asked, netVars, serverVars, random, faults>>

\* Mutant: the identity does not open what is sealed.
OpensAny(g) == TRUE

\* Decrypt of the identity, or of the group's key.
Opens(g) ==
    CASE Kind[file[g]] = "key" -> data[g].seal = who[g]
      [] Kind[file[g]] = "secure" -> data[g].key
      [] OTHER -> TRUE

\* GetThread: the content is there, or the connection ended before.  A plain file is
\* reported as done in both cases.
GetThread(g) ==
    /\ pc[g] = "thread"
    /\ data[g] # Nothing \/ conn[g] \in {"closed", "lost"}
    /\ IF IF data[g] = Nothing THEN Kind[file[g]] = "plain" ELSE Opens(g)
       THEN /\ pc' = [pc EXCEPT ![g] = "done"]
            /\ status' = [status EXCEPT ![g] = "done"]
            /\ got' = [got EXCEPT ![g] = IF data[g] = Nothing THEN None ELSE data[g].file]
            /\ UNCHANGED <<who, file, ref>>
       ELSE Failed(g)
    /\ UNCHANGED <<asked, netVars, serverVars, random, faults>>

----------------------------------------------------------------------------
(* The server: PortThread and PutAuth *)

UsesContext(t) == put[t] \in {"start", "find", "header", "data", "end"}

\* The thread of g deletes what the context has: also for the others that use it.
Deletes(g) == freed' = (freed \cup {t \in Gets : UsesContext(t) \/ t = port}) \ {g}

\* PortThread: the next connection, and a context for it.
Accept(g) ==
    /\ ~down
    /\ port = None
    /\ conn[g] = "new"
    /\ conn' = [conn EXCEPT ![g] = "taken"]
    /\ port' = g
    /\ ctx' = [host |-> g, resp |-> g, id |-> None]
    /\ resp' = [resp EXCEPT ![g] = 0]
    /\ mixed' = (mixed \/ \E t \in Gets : UsesContext(t))
    /\ freed' = freed \ {g}
    /\ UNCHANGED <<clientVars, rqst, answer, data, pending, put, host, entry, stale, ownVars,
                   down, random, faults>>

\* Mutant: the host is not deleted.
RefusedOpen(g) ==
    /\ port' = None
    /\ Deletes(g)
    /\ UNCHANGED <<conn, put, host, entry, stale>>

\* PortThread: the host and the buffer are deleted.
Refused(g) ==
    /\ port' = None
    /\ conn' = [conn EXCEPT ![g] = IF conn[g] = "lost" THEN "lost" ELSE "closed"]
    /\ Deletes(g)
    /\ UNCHANGED <<put, host, entry, stale>>

\* PortThread: the upload has a thread of its own.
Started(g) ==
    /\ port' = None
    /\ put' = [put EXCEPT ![g] = "start"]
    /\ UNCHANGED <<host, entry, stale, freed>>

\* A plain request.
PutPlain(g) ==
    /\ port = g /\ conn[g] = "taken"
    /\ rqst[g].kind = "get"
    /\ Started(g)
    /\ UNCHANGED <<clientVars, netVars, ctx, resp, pending, ownVars, down, mixed,
                   random, faults>>

\* m_store->Find(NULL, 0, rkey)
Knows(id) == id \in Known

\* PutAuth with an identity: a challenge for it, and the connection is closed.
PutChallenge(g) ==
    /\ port = g /\ conn[g] = "taken"
    /\ rqst[g].kind = "id"
    /\ Knows(rqst[g].id)
    /\ pending' = pending \cup {[nonce |-> random, id |-> rqst[g].id]}
    /\ answer' = [answer EXCEPT ![g] = [kind |-> "401", chal |-> random]]
    /\ random' = random + 1
    /\ rqst' = [rqst EXCEPT ![g] = Nothing]
    /\ Refused(g)
    /\ UNCHANGED <<clientVars, data, ctx, resp, ownVars, down, mixed, faults>>

\* The challenges that a response answers.
Answers(g) == {p \in pending : p.nonce = rqst[g].resp}

\* PutAuth with the response to a pending challenge: the context gets the identity and
\* the response to the client's challenge.
PutVerified(g) ==
    /\ port = g /\ conn[g] = "taken"
    /\ rqst[g].kind = "resp"
    /\ \E p \in Answers(g) :
           /\ pending' = pending \ {p}
           /\ ctx' = [ctx EXCEPT !.id = p.id]
           /\ resp' = [resp EXCEPT ![g] = rqst[g].chal]
    /\ Started(g)
    /\ UNCHANGED <<clientVars, netVars, ownVars, down, mixed, random, faults>>

\* PutAuth refuses: somebody unknown, a response to nothing, or no request at all.
PutRefuse(g) ==
    /\ port = g
    /\ \/ conn[g] # "taken"
       \/ rqst[g].kind = "id" /\ ~Knows(rqst[g].id)
       \/ rqst[g].kind = "resp" /\ Answers(g) = {}
    /\ Refused(g)
    /\ UNCHANGED <<clientVars, rqst, answer, data, ctx, resp, pending, ownVars, down, mixed, random, faults>>

----------------------------------------------------------------------------
(* The server: PutThread, which was started for connection t *)

PutTo(t, where) == put' = [put EXCEPT ![t] = where]

\* The thread takes the host from the context.
PutStart(t) ==
    /\ put[t] = "start"
    /\ host' = [host EXCEPT ![t] = ctx.host]
    /\ PutTo(t, "find")
    /\ UNCHANGED <<clientVars, netVars, portVars, entry, stale, freed, ownVars, down, mixed,
                   random, faults>>

\* The process ends, with all it had; its connections are lost.
EndProcess ==
    /\ down' = TRUE
    /\ port' = None
    /\ ctx' = [host |-> None, resp |-> None, id |-> None]
    /\ resp' = [g \in Gets |-> 0]
    /\ pending' = {}
    /\ put' = [t \in Gets |-> "none"]
    /\ host' = [t \in Gets |-> None]
    /\ entry' = [t \in Gets |-> None]
    /\ stale' = {} /\ freed' = {}
    /\ conn' = [g \in Gets |-> IF conn[g] \in {"new", "taken"} THEN "lost" ELSE conn[g]]

\* A group that the server is in, or a file of no group.
Serves(r) == r.kind = "get" \/ (r.kind \in {"id", "resp"} /\ member)

\* m_collect.Find(ref): only the key keeps its number through a Rescan.
Listed(h) == rqst[h].file \in shared /\ (Kind[rqst[h].file] = "key" \/ ref[h] = scans)

\* It reads the request, which is there once, and looks for the file.  For a file of a
\* group Find's result is used before it is tested, and m_accept may refuse the key to
\* the identity in the context.
PutFind(t) ==
    /\ put[t] = "find"
    /\ LET h == host[t]
           r == rqst[h]
           mayRefuse == r.kind # "get" /\ Kind[r.file] = "key" /\ ctx.id # None
       IN  \/ /\ conn[h] # "taken"
              /\ PutTo(t, "end")
              /\ UNCHANGED <<netVars, portVars, host, entry, stale, freed, down>>
           \/ /\ conn[h] = "taken" /\ r # Nothing
              /\ rqst' = [rqst EXCEPT ![h] = Nothing]
              /\ \/ /\ Serves(r) /\ Listed(h)
                    /\ entry' = [entry EXCEPT ![t] = r.file]
                    /\ stale' = stale \ {t}
                    /\ PutTo(t, "header")
                    /\ UNCHANGED <<conn, answer, portVars, host, freed, down>>
                 \/ /\ Serves(r) /\ ~Listed(h) /\ r.kind # "get"
                    /\ EndProcess
                    /\ UNCHANGED answer
                 \/ /\ ~Serves(r) \/ mayRefuse \/ (r.kind = "get" /\ ~Listed(h))
                    /\ answer' = [answer EXCEPT ![h] = [kind |-> "404"]]
                    /\ PutTo(t, "end")
                    /\ UNCHANGED <<conn, portVars, host, entry, stale, freed, down>>
              /\ UNCHANGED data
    /\ UNCHANGED <<clientVars, ownVars, mixed, random, faults>>

\* The header, with the response that the context has; a buffer that was freed may hold
\* anything, which is 0, a response to no challenge.  The size is read from the entry, or
\* found by encrypting the file, unless the context has an identity: Get refuses a header
\* with a wrong size like the 404 of a file that cannot be opened.
PutHeader(t) ==
    /\ put[t] = "header"
    /\ LET taken == conn[host[t]] = "taken"
           mustFail == ctx.id = None /\ Kind[entry[t]] = "secure" /\ entry[t] \notin disk
           mayFail == ctx.id = None /\ t \in stale
       IN  \/ /\ ~mustFail \/ mayFail
              /\ \E x \in {resp[ctx.resp]} \cup (IF t \in freed THEN {0} ELSE {}) :
                     answer' = IF taken THEN [answer EXCEPT ![host[t]] = [kind |-> "200", resp |-> x]]
                               ELSE answer
              /\ PutTo(t, "data")
           \/ /\ mustFail \/ mayFail
              /\ answer' = IF taken THEN [answer EXCEPT ![host[t]] = [kind |-> "404"]] ELSE answer
              /\ PutTo(t, "end")
    /\ UNCHANGED <<clientVars, conn, rqst, data, portVars, host, entry, stale, freed, ownVars,
                   down, mixed, random, faults>>

\* Mutant: nothing is sealed.
SealNone(f) == None

\* For whom the content is sealed: the key of the group has no path and is sealed for the
\* identity in the context, if there is one.
Seal(f) == IF Kind[f] = "key" THEN ctx.id ELSE None

Page == [kind |-> "page", file |-> None, seal |-> None, key |-> FALSE]

\* The contents that PutThread t may send.  A file of the group is under the group's key,
\* or what its memory holds once the group was left.  When the file cannot be opened any
\* more, the page of an error follows the header of a success.  An entry that was deleted
\* may be as it was, or its memory is that of another, which the Rescan has made, or no
\* entry at all: the content goes astray.
Contents(t) ==
    LET f == entry[t]
        keys == IF Kind[f] = "secure" THEN {TRUE, member} ELSE {FALSE}
    IN  (IF f \in disk
         THEN [kind : {"file"}, file : {f}, seal : {Seal(f)}, key : keys] ELSE {Page})
        \cup
        (IF t \in stale
         THEN [kind : {"stray"}, file : {x \in disk : Kind[x] # "key"}, seal : {None}, key : keys]
              \cup {[Page EXCEPT !.kind = "stray"]}
         ELSE {})

PutData(t) ==
    /\ put[t] = "data"
    /\ \E d \in Contents(t) :
           data' = IF conn[host[t]] # "taken" THEN data ELSE [data EXCEPT ![host[t]] = d]
    /\ PutTo(t, "end")
    /\ UNCHANGED <<clientVars, conn, rqst, answer, portVars, host, entry, stale, freed, ownVars,
                   down, mixed, random, faults>>

\* The buffer and the host are deleted and with it the connection.
PutEnd(t) ==
    /\ put[t] = "end"
    /\ LET h == host[t]
       IN  conn' = [conn EXCEPT ![h] = IF conn[h] = "taken" THEN "closed" ELSE conn[h]]
    /\ PutTo(t, "over")
    /\ Deletes(t)
    /\ UNCHANGED <<clientVars, rqst, answer, data, portVars, host, entry, stale, ownVars, down,
                   mixed, random, faults>>

\* A thread uses what was freed, or frees it again, and the process ends: a host or a
\* buffer that others took from the same context, its entry, or the group and its key.
PutFreed(t) ==
    /\ \/ t \in freed /\ (UsesContext(t) \/ port = t)
       \/ t \in stale /\ put[t] \in {"header", "data"}
       \/ ~member /\ put[t] = "find" /\ rqst[host[t]].kind \in {"id", "resp"}
       \/ ~member /\ put[t] \in {"header", "data"} /\ Kind[entry[t]] = "secure"
    /\ EndProcess
    /\ UNCHANGED <<clientVars, rqst, answer, data, ownVars, mixed, random, faults>>

----------------------------------------------------------------------------
(* What may happen meanwhile *)

Fault == faults < MaxFaults /\ faults' = faults + 1

\* A connection is lost, and what is on it.
Lose(g) ==
    /\ conn[g] \in {"new", "taken"}
    /\ Fault
    /\ conn' = [conn EXCEPT ![g] = "lost"]
    /\ UNCHANGED <<clientVars, rqst, answer, data, serverVars, random>>

\* A challenge of the server or of a client is older than CHALLENGE_TIME.
Expire ==
    /\ Fault
    /\ \/ (\E p \in pending : pending' = pending \ {p}) /\ UNCHANGED asked
       \/ (\E p \in asked : asked' = asked \ {p}) /\ UNCHANGED pending
    /\ UNCHANGED <<pc, who, file, ref, status, got, netVars, port, ctx, resp, putVars, ownVars,
                   down, mixed, random>>

\* A file that a Get is for is deleted or moved; the collection still has it.
Unlink ==
    /\ ~down /\ Fault
    /\ \E g \in Gets : /\ pc[g] \notin {"none", "done"}
                       /\ file[g] \in disk /\ Kind[file[g]] # "key"
                       /\ disk' = disk \ {file[g]}
    /\ UNCHANGED <<clientVars, netVars, portVars, putVars, scans, shared, member, down, mixed,
                   random>>

\* The server's user rescans: every entry of a file that was found by a scan is deleted,
\* and the files that are still there get entries with new numbers.
Rescan ==
    /\ ~down
    /\ Fault
    /\ scans' = scans + 1
    /\ shared' = disk
    /\ stale' = stale \cup {t \in Gets : put[t] \in {"header", "data"} /\ Kind[entry[t]] # "key"}
    /\ UNCHANGED <<clientVars, netVars, portVars, put, host, entry, freed, disk, member, down,
                   mixed, random>>

\* The server's user leaves the group: the group and its key are freed.
LeaveGroup ==
    /\ ~down /\ member
    /\ Fault
    /\ member' = FALSE
    /\ UNCHANGED <<clientVars, netVars, portVars, putVars, scans, shared, disk, down, mixed,
                   random>>

ClientStep(g) == GetAuth(g) \/ GetStart(g) \/ GetFails(g) \/ GetThread(g)
PortStep ==
    \E g \in Gets : Accept(g) \/ PutPlain(g) \/ PutChallenge(g) \/ PutVerified(g) \/ PutRefuse(g)
PutStep(t) == PutStart(t) \/ PutFind(t) \/ PutHeader(t) \/ PutData(t) \/ PutEnd(t)

Next ==
    \/ \E g \in Gets, c \in Clients, f \in Files : Get(g, c, f)
    \/ \E g \in Gets : ClientStep(g) \/ PutStep(g) \/ PutFreed(g) \/ Lose(g)
    \/ PortStep
    \/ Expire
    \/ Unlink
    \/ Rescan
    \/ LeaveGroup

Spec ==
    /\ Init /\ [][Next]_vars
    /\ WF_vars(PortStep)
    /\ \A g \in Gets : WF_vars(ClientStep(g)) /\ WF_vars(PutStep(g))

----------------------------------------------------------------------------
\* A Get that is reported as done has brought the file that was asked for, also when
\* connections of several clients overlap, responses and contexts get mixed up, connections
\* are lost, the group is left and entries get other numbers; but a plain file may be a part
\* (None) then, or the page of an error if the file had gone from the disk, and if a Rescan
\* deleted the entry that the upload was using, anything may have come.
DoneRight ==
    \A g \in Gets : status[g] = "done" =>
        \/ got[g] = file[g]
        \/ got[g] = None /\ Kind[file[g]] = "plain" /\ (conn[g] = "lost" \/ file[g] \notin disk)
        \/ data[g].kind = "stray"

\* A file of the group is sent on the connection of a client that the server knows and that
\* has answered its challenge, and the key of the group is sealed for this client, as long
\* as no connection was accepted while an upload was using the context.
SealedForOwner ==
    ~mixed => \A g \in Gets : data[g] # Nothing /\ Kind[file[g]] # "plain" =>
                  /\ who[g] \in Known
                  /\ Kind[file[g]] = "key" => data[g].seal = who[g]

\* Every Get is answered by its callback in the end, with the same proviso: the connection
\* of an upload whose context was overwritten may never be served nor closed.
GetsAnswered == \A g \in Gets : pc[g] # "none" ~> (pc[g] = "done" \/ mixed)
=============================================================================

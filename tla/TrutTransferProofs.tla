------------------------- MODULE TrutTransferProofs -------------------------
(***************************************************************************)
(* Proofs about module TrutTransfer: a Get that is done has brought its    *)
(* file, and what is sealed is sealed for the one who asked, for any       *)
(* number of Gets, clients, files and faults.                              *)
(***************************************************************************)
EXTENDS TrutTransfer, TLAPS

\* The Get is for a file of no group.
Plain(g) == file[g] \in Files /\ Kind[file[g]] = "plain"

\* The requests, the headers of the answers and the contents on the connections.
Request == {Nothing} \cup [kind : {"get"}, file : Files]
                     \cup [kind : {"id"}, id : Clients, file : Files]
                     \cup [kind : {"resp"}, resp : Nat, chal : Nat, file : Files]
Answer == {Nothing} \cup [kind : {"401"}, chal : Nat] \cup [kind : {"404"}]
                    \cup [kind : {"200"}, resp : Nat]
Content == {Nothing}
    \cup [kind : {"file"}, file : Files, seal : Clients \cup {None}, key : BOOLEAN]
    \cup [kind : {"page"}, file : {None}, seal : {None}, key : {FALSE}]
    \cup [kind : {"stray"}, file : Files \cup {None}, seal : {None}, key : BOOLEAN]

NetType ==
    /\ rqst \in [Gets -> Request]
    /\ answer \in [Gets -> Answer]
    /\ data \in [Gets -> Content]
    /\ random \in Nat \ {0}

\* What is on the connection of a Get belongs to this Get and to where it is.
FlowInv ==
    \A g \in Gets :
        /\ conn[g] = "none" <=> pc[g] = "none"
        /\ pc[g] = "none" => rqst[g] = Nothing /\ answer[g] = Nothing /\ data[g] = Nothing
        /\ pc[g] # "none" => who[g] \in Clients /\ file[g] \in Files
        /\ pc[g] = "status" => Plain(g)
        /\ pc[g] \in {"auth", "resp"} => ~Plain(g)
        /\ pc[g] = "thread" /\ Plain(g) => answer[g].kind = "200"
        /\ rqst[g].kind # "nothing" => rqst[g].file = file[g]
        /\ rqst[g].kind = "get" => Plain(g)
        /\ rqst[g].kind \in {"id", "resp"} => ~Plain(g)
        /\ rqst[g].kind = "id" => rqst[g].id = who[g]
        /\ answer[g].kind # "nothing" => rqst[g].kind = "nothing"
        /\ answer[g].kind = "401" => ~Plain(g)
        /\ rqst[g].kind # "nothing" \/ answer[g].kind = "401" => data[g].kind = "nothing"
        /\ conn[g] = "new" => answer[g].kind = "nothing"
        /\ conn[g] = "taken" => answer[g].kind # "401"

\* A challenge is for the one who gets it, and no number is drawn twice.
NonceInv ==
    /\ \A p \in pending : p.nonce < random /\ p.id \in Known
    /\ \A g \in Gets :
           /\ answer[g].kind = "401" =>
                  /\ answer[g].chal < random
                  /\ \A p \in pending : p.nonce = answer[g].chal => p.id = who[g]
           /\ rqst[g].kind = "resp" =>
                  /\ rqst[g].resp < random /\ rqst[g].chal < random
                  /\ \A p \in pending : p.nonce = rqst[g].resp => p.id = who[g]

\* h is a connection that PortThread has accepted; if it is for a plain file, it was the
\* only one of its Get.
Accepted(h) == h \in Gets /\ conn[h] # "none" /\ (Plain(h) => conn[h] # "new")

\* PortThread and whoever uses the context have such a connection.
PortInv ==
    /\ port # None => ctx.host = port /\ conn[port] # "new" /\ answer[port].kind # "401"
    /\ port # None \/ (\E t \in Gets : UsesContext(t)) => Accepted(ctx.host) /\ ctx.resp \in Gets

\* A PutThread that has read the request of its connection serves this one.
PutInv ==
    \A t \in Gets :
        /\ put[t] \in {"find", "header", "data", "end"} => Accepted(host[t])
        /\ put[t] \in {"header", "data"} =>
               /\ rqst[host[t]].kind = "nothing"
               /\ entry[t] = file[host[t]]
               /\ answer[host[t]].kind \notin {"401", "404"}
               /\ data[host[t]].kind = "nothing"
               /\ t \in stale => Kind[entry[t]] # "key"
        /\ put[t] = "header" => answer[host[t]].kind = "nothing"
        /\ put[t] = "end" /\ Plain(host[t]) /\ conn[host[t]] = "taken" =>
               answer[host[t]].kind = "404" \/ data[host[t]] # Nothing

\* No other does.
OnePut ==
    \A t, u \in Gets :
        put[t] \in {"header", "data"} /\ put[u] \in {"header", "data"} /\ host[t] = host[u] => t = u

ServeInv == PortInv /\ PutInv /\ OnePut

\* What was sent is the file that was asked for, or the page of an error when it had gone;
\* a plain file is on its way before the connection is closed.  The key is not a file.
DataInv ==
    /\ \A g \in Gets :
           /\ data[g].kind = "file" => data[g].file = file[g]
           /\ data[g].kind = "page" => file[g] \notin disk
           /\ Plain(g) /\ conn[g] = "closed" /\ answer[g].kind = "200" => data[g] # Nothing
    /\ \A f \in Files : Kind[f] = "key" => f \in disk

\* As long as no context was overwritten, it is that of the one PutThread that uses it.
ContextInv ==
    ~mixed =>
        \A t \in Gets : UsesContext(t) =>
            /\ port = None /\ ctx.host = t
            /\ put[t] # "start" => host[t] = t
            /\ ~Plain(t) => ctx.id = who[t] /\ who[t] \in Known

IInv ==
    /\ TypeOK /\ NetType
    /\ FlowInv /\ NonceInv /\ ServeInv /\ DataInv /\ ContextInv
    /\ DoneRight /\ SealedForOwner

----------------------------------------------------------------------------
(* The outcomes of PutFind: the connection is closed, the file is there, the process *)
(* ends, or it is not there or refused *)

FindClosed(t) ==
    /\ put[t] = "find" /\ conn[host[t]] # "taken"
    /\ PutTo(t, "end")
    /\ UNCHANGED <<clientVars, netVars, portVars, host, entry, stale, freed, ownVars, down, mixed, random, faults>>

Reads(t) ==
    /\ put[t] = "find" /\ conn[host[t]] = "taken" /\ rqst[host[t]] # Nothing
    /\ rqst' = [rqst EXCEPT ![host[t]] = Nothing]
    /\ UNCHANGED <<clientVars, data, ownVars, mixed, random, faults>>

FindFile(t) ==
    /\ Reads(t)
    /\ entry' = [entry EXCEPT ![t] = rqst[host[t]].file]
    /\ stale' = stale \ {t}
    /\ PutTo(t, "header")
    /\ UNCHANGED <<conn, answer, portVars, host, freed, down>>

FindCrash(t) == Reads(t) /\ EndProcess /\ UNCHANGED answer

FindNothing(t) ==
    /\ Reads(t)
    /\ answer' = [answer EXCEPT ![host[t]] = [kind |-> "404"]]
    /\ PutTo(t, "end")
    /\ UNCHANGED <<conn, portVars, host, entry, stale, freed, down>>

LEMMA FindOutcomes ==
    ASSUME NEW t \in Gets, PutFind(t)
    PROVE  FindClosed(t) \/ FindFile(t) \/ FindCrash(t) \/ FindNothing(t)
BY DEF PutFind, FindClosed, Reads, FindFile, FindCrash, FindNothing

(* The outcomes of PutHeader *)

HeaderOk(t) ==
    /\ put[t] = "header"
    /\ \E x \in {resp[ctx.resp], 0} :
           answer' = IF conn[host[t]] # "taken" THEN answer
                     ELSE [answer EXCEPT ![host[t]] = [kind |-> "200", resp |-> x]]
    /\ PutTo(t, "data")
    /\ UNCHANGED <<clientVars, conn, rqst, data, portVars, host, entry, stale, freed, ownVars,
                   down, mixed, random, faults>>

HeaderFails(t) ==
    /\ put[t] = "header"
    /\ answer' = IF conn[host[t]] # "taken" THEN answer
                 ELSE [answer EXCEPT ![host[t]] = [kind |-> "404"]]
    /\ PutTo(t, "end")
    /\ UNCHANGED <<clientVars, conn, rqst, data, portVars, host, entry, stale, freed, ownVars,
                   down, mixed, random, faults>>

LEMMA HeaderOutcomes ==
    ASSUME NEW t \in Gets, PutHeader(t)
    PROVE  HeaderOk(t) \/ HeaderFails(t)
BY DEF PutHeader, HeaderOk, HeaderFails

(* The outcomes of GetThread *)

GetThreadDone(g) ==
    /\ pc[g] = "thread"
    /\ IF data[g] = Nothing THEN conn[g] \in {"closed", "lost"} /\ Kind[file[g]] = "plain" ELSE Opens(g)
    /\ pc' = [pc EXCEPT ![g] = "done"]
    /\ status' = [status EXCEPT ![g] = "done"]
    /\ got' = [got EXCEPT ![g] = IF data[g] = Nothing THEN None ELSE data[g].file]
    /\ UNCHANGED <<who, file, ref, asked, netVars, serverVars, random, faults>>

GetThreadFailed(g) ==
    /\ pc[g] = "thread"
    /\ Failed(g)
    /\ UNCHANGED <<asked, netVars, serverVars, random, faults>>

LEMMA GetThreadOutcomes ==
    ASSUME NEW g \in Gets, GetThread(g)
    PROVE  GetThreadDone(g) \/ GetThreadFailed(g)
BY DEF GetThread, GetThreadDone, GetThreadFailed

----------------------------------------------------------------------------
(* What the kind of a message says of it *)

LEMMA RequestKinds ==
    /\ Nothing \in Request
    /\ \A f \in Files : [kind |-> "get", file |-> f] \in Request
    /\ \A c \in Clients, f \in Files : [kind |-> "id", id |-> c, file |-> f] \in Request
    /\ \A m, n \in Nat, f \in Files : [kind |-> "resp", resp |-> m, chal |-> n, file |-> f] \in Request
    /\ \A r \in Request :
           /\ r.kind \in {"nothing", "get", "id", "resp"}
           /\ r = Nothing <=> r.kind = "nothing"
           /\ r.kind # "nothing" => r.file \in Files
           /\ r.kind = "id" => r.id \in Clients
           /\ r.kind = "resp" => r.resp \in Nat /\ r.chal \in Nat
<1>1. Nothing.kind = "nothing" /\ Nothing \in Request
  BY DEF Request, Nothing
<1>2. ASSUME NEW f \in Files PROVE [kind |-> "get", file |-> f] \in Request
  BY DEF Request
<1>3. ASSUME NEW c \in Clients, NEW f \in Files PROVE [kind |-> "id", id |-> c, file |-> f] \in Request
  BY DEF Request
<1>4. ASSUME NEW m \in Nat, NEW n \in Nat, NEW f \in Files
      PROVE  [kind |-> "resp", resp |-> m, chal |-> n, file |-> f] \in Request
  BY DEF Request
<1>5. ASSUME NEW r \in Request
      PROVE  \/ r = Nothing
             \/ r.kind = "get" /\ r.file \in Files
             \/ r.kind = "id" /\ r.id \in Clients /\ r.file \in Files
             \/ r.kind = "resp" /\ r.resp \in Nat /\ r.chal \in Nat /\ r.file \in Files
  BY DEF Request
<1> QED
  BY <1>1, <1>2, <1>3, <1>4, <1>5

LEMMA AnswerKinds ==
    /\ Nothing \in Answer /\ [kind |-> "404"] \in Answer
    /\ \A n \in Nat : [kind |-> "401", chal |-> n] \in Answer /\ [kind |-> "200", resp |-> n] \in Answer
    /\ \A a \in Answer :
           /\ a.kind \in {"nothing", "401", "200", "404"}
           /\ a = Nothing <=> a.kind = "nothing"
           /\ a.kind = "401" => a.chal \in Nat
<1>1. Nothing.kind = "nothing" /\ Nothing \in Answer
  BY DEF Answer, Nothing
<1>2. [kind |-> "404"] \in Answer
  BY DEF Answer
<1>3. ASSUME NEW n \in Nat PROVE [kind |-> "401", chal |-> n] \in Answer /\ [kind |-> "200", resp |-> n] \in Answer
  BY DEF Answer
<1>4. ASSUME NEW a \in Answer
      PROVE  \/ a = Nothing
             \/ a.kind = "401" /\ a.chal \in Nat
             \/ a.kind \in {"404", "200"}
  BY DEF Answer
<1> QED
  BY <1>1, <1>2, <1>3, <1>4

LEMMA ContentKinds ==
    /\ Nothing \in Content
    /\ \A f \in Files, c \in Clients \cup {None}, k \in BOOLEAN :
           [kind |-> "file", file |-> f, seal |-> c, key |-> k] \in Content
    /\ [kind |-> "page", file |-> None, seal |-> None, key |-> FALSE] \in Content
    /\ \A f \in Files \cup {None}, k \in BOOLEAN :
           [kind |-> "stray", file |-> f, seal |-> None, key |-> k] \in Content
    /\ \A d \in Content :
           /\ d.kind \in {"nothing", "file", "page", "stray"}
           /\ d = Nothing <=> d.kind = "nothing"
           /\ d.kind = "file" => d.file \in Files
           /\ d # Nothing => d.file \in Files \cup {None}
           /\ d.kind = "page" => d.file = None /\ d.seal = None /\ d.key = FALSE
<1>1. Nothing.kind = "nothing" /\ Nothing \in Content
  BY DEF Content, Nothing
<1>2. ASSUME NEW f \in Files, NEW c \in Clients \cup {None}, NEW k \in BOOLEAN
      PROVE  [kind |-> "file", file |-> f, seal |-> c, key |-> k] \in Content
  BY DEF Content
<1>3. [kind |-> "page", file |-> None, seal |-> None, key |-> FALSE] \in Content
  BY DEF Content
<1>4. ASSUME NEW d \in Content
      PROVE  \/ d = Nothing
             \/ d.kind = "file" /\ d.file \in Files
             \/ d.kind = "page" /\ d.file = None /\ d.seal = None /\ d.key = FALSE
             \/ d.kind = "stray" /\ d.file \in Files \cup {None}
  BY DEF Content
<1>5. ASSUME NEW f \in Files \cup {None}, NEW k \in BOOLEAN
      PROVE  [kind |-> "stray", file |-> f, seal |-> None, key |-> k] \in Content
  BY DEF Content
<1> QED
  BY <1>1, <1>2, <1>3, <1>4, <1>5

\* What PutThread t may send.
LEMMA SentKinds ==
    ASSUME NEW t \in Gets, entry[t] \in Files, disk \subseteq Files, member \in BOOLEAN,
           ctx.id \in Clients \cup {None}, NEW d \in Contents(t)
    PROVE  /\ d \in Content
           /\ d.kind \in {"file", "page", "stray"}
           /\ d.kind = "file" => d.file = entry[t] /\ d.seal = Seal(entry[t])
           /\ d.kind = "page" => entry[t] \notin disk
           /\ d.kind = "stray" => t \in stale
<1> DEFINE f == entry[t]
           keys == IF Kind[f] = "secure" THEN {TRUE, member} ELSE {FALSE}
<1>1. keys \subseteq BOOLEAN /\ Seal(f) \in Clients \cup {None}
  BY DEF Seal
<1>2. CASE d \in [kind : {"file"}, file : {f}, seal : {Seal(f)}, key : keys]
  <2>1. d = [kind |-> "file", file |-> f, seal |-> Seal(f), key |-> d.key] /\ d.key \in BOOLEAN
    BY <1>1, <1>2
  <2> QED
    BY <1>1, <2>1, ContentKinds
<1>3. CASE d = Page /\ f \notin disk
  BY <1>3, ContentKinds DEF Page
<1>4. CASE t \in stale /\ d \in [kind : {"stray"}, file : {x \in disk : Kind[x] # "key"}, seal : {None}, key : keys]
  <2>1. d = [kind |-> "stray", file |-> d.file, seal |-> None, key |-> d.key]
    BY <1>4
  <2>2. d.file \in Files /\ d.key \in BOOLEAN
    BY <1>1, <1>4
  <2> QED
    BY <1>4, <2>1, <2>2, ContentKinds
<1>5. CASE t \in stale /\ d = [Page EXCEPT !.kind = "stray"]
  <2>1. d = [kind |-> "stray", file |-> None, seal |-> None, key |-> FALSE]
    BY <1>5 DEF Page
  <2>2. d \in Content
    BY <2>1 DEF Content
  <2> QED
    BY <1>5, <2>1, <2>2
<1> QED
  BY <1>2, <1>3, <1>4, <1>5 DEF Contents

LEMMA InitIInv == ASSUME Init PROVE IInv
<1> USE TransferAssumption DEF Init, Nothing
<1>1. TypeOK
  <2>1. ctx \in [host : Gets \cup {None}, resp : Gets \cup {None}, id : Clients \cup {None}]
    OBVIOUS
  <2>2. \A g \in Gets : rqst[g].kind = "nothing" /\ answer[g].kind = "nothing" /\ data[g].kind = "nothing"
                        /\ pc[g] # "done" /\ status[g] = "none"
    OBVIOUS
  <2>3. resp \in [Gets -> 0..random] /\ faults \in 0..MaxFaults /\ asked = {} /\ pending = {}
    OBVIOUS
  <2>4. /\ pc \in [Gets -> {"none", "status", "auth", "resp", "thread", "done"}]
        /\ who \in [Gets -> Clients \cup {None}]
        /\ file \in [Gets -> Files \cup {None}]
        /\ status \in [Gets -> {"none", "done", "error"}]
        /\ got \in [Gets -> Files \cup {None}]
        /\ conn \in [Gets -> {"none", "new", "taken", "closed", "lost"}]
        /\ put \in [Gets -> {"none", "start", "find", "header", "data", "end", "over"}]
        /\ host \in [Gets -> Gets \cup {None}]
        /\ entry \in [Gets -> Files \cup {None}]
        /\ ref \in [Gets -> 0..scans] /\ scans \in 0..faults
    OBVIOUS
  <2> QED
    BY <2>1, <2>2, <2>3, <2>4 DEF TypeOK
<1>2. NetType
  BY DEF NetType, Request, Answer, Content
<1>3. FlowInv /\ NonceInv
  BY DEF FlowInv, NonceInv
<1>4. ServeInv
  BY DEF ServeInv, PortInv, PutInv, OnePut, UsesContext
<1>5. DataInv /\ ContextInv
  BY DEF DataInv, ContextInv, UsesContext
<1>6. DoneRight /\ SealedForOwner
  BY DEF DoneRight, SealedForOwner
<1> QED
  BY <1>1, <1>2, <1>3, <1>4, <1>5, <1>6 DEF IInv

LEMMA GetPreserves ==
    ASSUME IInv, NEW g \in Gets, NEW c \in Clients, NEW f \in Files, Get(g, c, f)
    PROVE  IInv'
<1> USE TransferAssumption DEF clientVars, netVars, portVars, putVars, ownVars, serverVars,
        Get, Connect
<1>0. TypeOK /\ NetType /\ FlowInv /\ NonceInv /\ ServeInv /\ DataInv /\ ContextInv /\ DoneRight /\ SealedForOwner
  BY DEF IInv
<1>1. NetType'
  <2>1. [kind |-> "get", file |-> f] \in Request /\ [kind |-> "id", id |-> c, file |-> f] \in Request
    BY RequestKinds
  <2>2. rqst' \in [Gets -> Request]
    <3>1. \/ rqst' = [rqst EXCEPT ![g] = [kind |-> "get", file |-> f]]
          \/ rqst' = [rqst EXCEPT ![g] = [kind |-> "id", id |-> c, file |-> f]]
      OBVIOUS
    <3> QED
      BY ONLY <1>0, <2>1, <3>1 DEF NetType
  <2>3. answer' = [answer EXCEPT ![g] = Nothing] /\ data' = data /\ random' = random
    OBVIOUS
  <2> QED
    BY ONLY <1>0, <2>2, <2>3, AnswerKinds DEF NetType
<1>2. TypeOK'
  <2>1. pc' \in [Gets -> {"none", "status", "auth", "resp", "thread", "done"}] /\ pc'[g] \notin {"none", "done"}
    BY <1>0 DEF TypeOK
  <2>2. \A h \in Gets : /\ rqst'[h].kind \in {"nothing", "get", "id", "resp"}
                        /\ answer'[h].kind \in {"nothing", "401", "200", "404"}
                        /\ data'[h].kind \in {"nothing", "file", "page", "stray"}
    BY <1>1, RequestKinds, AnswerKinds, ContentKinds DEF NetType
  <2>3. \A h \in Gets : pc'[h] = "done" <=> status'[h] # "none"
    BY <1>0, <2>1 DEF TypeOK
  <2> QED
    BY <1>0, <2>1, <2>2, <2>3 DEF TypeOK
<1>3. FlowInv'
  BY <1>0 DEF FlowInv, TypeOK, NetType, Plain
<1>4. NonceInv'
  BY <1>0, ContentKinds DEF NetType, NonceInv
<1>5. ServeInv'
  BY <1>0, RequestKinds, AnswerKinds, ContentKinds DEF ServeInv, PortInv, PutInv, OnePut, FlowInv, TypeOK, NetType, Plain, Accepted, UsesContext
<1>6. DataInv'
  BY <1>0, RequestKinds, AnswerKinds, ContentKinds DEF DataInv, FlowInv, TypeOK, NetType, Plain, Accepted
<1>7. ContextInv'
  BY <1>0, RequestKinds, AnswerKinds, ContentKinds DEF ContextInv, ServeInv, PortInv, PutInv, OnePut, FlowInv, NonceInv, NetType, Plain, Accepted, UsesContext
<1>8. DoneRight'
  BY <1>0 DEF DoneRight, TypeOK
<1>9. SealedForOwner'
  BY <1>0, RequestKinds, AnswerKinds, ContentKinds DEF SealedForOwner, DataInv, FlowInv, TypeOK, NetType, Plain, ContextInv, ServeInv, PortInv, PutInv, OnePut, UsesContext
<1> QED
  BY <1>1, <1>2, <1>3, <1>4, <1>5, <1>6, <1>7, <1>8, <1>9 DEF IInv

LEMMA GetAuthPreserves ==
    ASSUME IInv, NEW g \in Gets, GetAuth(g)
    PROVE  IInv'
<1> USE TransferAssumption DEF clientVars, netVars, portVars, putVars, ownVars, serverVars,
        GetAuth, Connect
<1>0. TypeOK /\ NetType /\ FlowInv /\ NonceInv /\ ServeInv /\ DataInv /\ ContextInv /\ DoneRight /\ SealedForOwner
  BY DEF IInv
<1>1. NetType'
  BY <1>0, RequestKinds, AnswerKinds, ContentKinds DEF NetType, TypeOK, FlowInv, NonceInv, ServeInv, PortInv, OnePut, UsesContext
<1>2. TypeOK'
  BY <1>0, <1>1, RequestKinds, AnswerKinds, ContentKinds DEF TypeOK, NetType, FlowInv, NonceInv, ServeInv, PortInv, PutInv, OnePut, UsesContext, DataInv, Accepted
<1>3. FlowInv'
  BY <1>0, RequestKinds, AnswerKinds, ContentKinds DEF FlowInv, TypeOK, NetType, Plain, ServeInv, PortInv, PutInv, OnePut, Accepted
<1>4. NonceInv'
  BY <1>0, RequestKinds, AnswerKinds, ContentKinds DEF FlowInv, TypeOK, NetType, NonceInv
<1>5. ServeInv'
  <2>1. answer[g].kind = "401" /\ ~Plain(g) /\ conn[g] # "none"
    BY <1>0 DEF FlowInv
  <2>2. \A h \in Gets : h # g => conn'[h] = conn[h] /\ rqst'[h] = rqst[h] /\ answer'[h] = answer[h]
    BY <1>0
  <2>3. port # g
    BY <1>0, <2>1 DEF ServeInv, PortInv
  <2>4. \A t \in Gets : put[t] \in {"header", "data"} => host[t] # g
    BY <1>0, <2>1 DEF ServeInv, PutInv
  <2>5. \A h \in Gets : Plain(h)' = Plain(h)
    BY DEF Plain
  <2>6. conn'[g] \in {"new", "lost"}
    BY <1>0 DEF TypeOK
  <2>7. \A h \in Gets : conn[h] # "none" /\ (Plain(h) => conn[h] # "new") =>
                        conn'[h] # "none" /\ (Plain(h)' => conn'[h] # "new")
    BY <1>0, <2>1, <2>2, <2>5, <2>6
  <2> QED
    <3>1. PortInv'
      BY <1>0, <2>2, <2>3, <2>7 DEF ServeInv, PortInv, UsesContext, Accepted
    <3>2. PutInv'
      BY <1>0, <2>2, <2>4, <2>5, <2>6, <2>7 DEF ServeInv, PutInv, Accepted, Plain
    <3>3. OnePut'
      BY <1>0 DEF ServeInv, OnePut
    <3> QED
      BY <3>1, <3>2, <3>3 DEF ServeInv
<1>6. DataInv'
  BY <1>0, RequestKinds, AnswerKinds, ContentKinds DEF DataInv, ServeInv, PutInv, OnePut, FlowInv, TypeOK, NetType, Plain, Accepted
<1>7. ContextInv'
  BY <1>0, RequestKinds, AnswerKinds, ContentKinds DEF ContextInv, ServeInv, PortInv, PutInv, OnePut, FlowInv, NonceInv, NetType, Plain, Accepted, UsesContext
<1>8. DoneRight'
  BY <1>0 DEF DoneRight, FlowInv, TypeOK, NetType, Plain
<1>9. SealedForOwner'
  BY <1>0 DEF SealedForOwner, DataInv, FlowInv, TypeOK, NetType, Plain, ContextInv, ServeInv, PortInv, PutInv
<1> QED
  BY <1>1, <1>2, <1>3, <1>4, <1>5, <1>6, <1>7, <1>8, <1>9 DEF IInv

LEMMA GetStartPreserves ==
    ASSUME IInv, NEW g \in Gets, GetStart(g)
    PROVE  IInv'
<1> USE TransferAssumption DEF clientVars, netVars, portVars, putVars, ownVars, serverVars,
        GetStart, Verified
<1>0. TypeOK /\ NetType /\ FlowInv /\ NonceInv /\ ServeInv /\ DataInv /\ ContextInv /\ DoneRight /\ SealedForOwner
  BY DEF IInv
<1>1. NetType'
  BY <1>0 DEF NetType
<1>2. TypeOK'
  BY <1>0, <1>1 DEF TypeOK, NetType
<1>3. FlowInv'
  BY <1>0 DEF FlowInv, Plain
<1>4. NonceInv'
  BY <1>0 DEF NonceInv
<1>5. ServeInv'
  BY <1>0 DEF ServeInv, PortInv, PutInv, OnePut, Plain, Accepted, UsesContext
<1>6. DataInv'
  BY <1>0 DEF DataInv, Plain
<1>7. ContextInv'
  BY <1>0 DEF ContextInv, Plain, UsesContext
<1>8. DoneRight'
  BY <1>0 DEF DoneRight
<1>9. SealedForOwner'
  BY <1>0 DEF SealedForOwner
<1> QED
  BY <1>1, <1>2, <1>3, <1>4, <1>5, <1>6, <1>7, <1>8, <1>9 DEF IInv

LEMMA GetFailsPreserves ==
    ASSUME IInv, NEW g \in Gets, GetFails(g)
    PROVE  IInv'
<1> USE TransferAssumption DEF clientVars, netVars, portVars, putVars, ownVars, serverVars,
        GetFails, Failed, NoHeader
<1>0. TypeOK /\ NetType /\ FlowInv /\ NonceInv /\ ServeInv /\ DataInv /\ ContextInv /\ DoneRight /\ SealedForOwner
  BY DEF IInv
<1>1. NetType'
  BY <1>0 DEF NetType
<1>2. TypeOK'
  BY <1>0, <1>1 DEF TypeOK
<1>3. FlowInv'
  BY <1>0 DEF FlowInv, NetType, Plain
<1>4. NonceInv'
  BY <1>0 DEF NonceInv
<1>5. ServeInv'
  BY <1>0 DEF ServeInv, PortInv, PutInv, OnePut, Plain, Accepted, UsesContext
<1>6. DataInv'
  BY <1>0 DEF DataInv, Plain
<1>7. ContextInv'
  BY <1>0 DEF ContextInv, Plain, UsesContext
<1>8. DoneRight'
  BY <1>0 DEF DoneRight
<1>9. SealedForOwner'
  BY <1>0 DEF SealedForOwner
<1> QED
  BY <1>1, <1>2, <1>3, <1>4, <1>5, <1>6, <1>7, <1>8, <1>9 DEF IInv

LEMMA GetThreadDonePreserves ==
    ASSUME IInv, NEW g \in Gets, GetThreadDone(g)
    PROVE  IInv'
<1> USE TransferAssumption DEF clientVars, netVars, portVars, putVars, ownVars, serverVars,
        GetThreadDone
<1>0. TypeOK /\ NetType /\ FlowInv /\ NonceInv /\ ServeInv /\ DataInv /\ ContextInv /\ DoneRight /\ SealedForOwner
  BY DEF IInv
<1>1. NetType'
  BY <1>0 DEF NetType
<1>2. TypeOK'
  BY <1>0, <1>1, RequestKinds, ContentKinds DEF TypeOK, NetType, FlowInv, NonceInv
<1>3. FlowInv'
  BY <1>0 DEF FlowInv, Plain
<1>4. NonceInv'
  BY <1>0 DEF NonceInv
<1>5. ServeInv'
  BY <1>0 DEF ServeInv, PortInv, PutInv, OnePut, Plain, Accepted, UsesContext
<1>6. DataInv'
  BY <1>0 DEF DataInv, Plain
<1>7. ContextInv'
  BY <1>0 DEF ContextInv, Plain, UsesContext
<1>8. DoneRight'
  <2>1. ASSUME data[g] = Nothing PROVE conn[g] = "lost" /\ Kind[file[g]] = "plain"
    BY <1>0, <2>1 DEF DataInv, FlowInv, Plain
  <2>2. ASSUME data[g] # Nothing, data[g].file # file[g], data[g].kind # "stray"
        PROVE  data[g].file = None /\ Kind[file[g]] = "plain" /\ file[g] \notin disk
    <3>1. data[g].kind = "page" /\ file[g] \in Files /\ who[g] \in Clients
      BY <1>0, <2>2, ContentKinds DEF DataInv, NetType, FlowInv
    <3>2. data[g].file = None /\ data[g].seal = None /\ data[g].key = FALSE /\ file[g] \notin disk
      BY <1>0, <3>1, ContentKinds DEF DataInv, NetType
    <3>3. Kind[file[g]] # "key" /\ Kind[file[g]] # "secure"
      BY <2>2, <3>1, <3>2 DEF Opens
    <3> QED
      BY <3>1, <3>2, <3>3
  <2> QED
    BY <1>0, <2>1, <2>2 DEF DoneRight, TypeOK
<1>9. SealedForOwner'
  BY <1>0 DEF SealedForOwner
<1> QED
  BY <1>1, <1>2, <1>3, <1>4, <1>5, <1>6, <1>7, <1>8, <1>9 DEF IInv

LEMMA GetThreadFailedPreserves ==
    ASSUME IInv, NEW g \in Gets, GetThreadFailed(g)
    PROVE  IInv'
<1> USE TransferAssumption DEF clientVars, netVars, portVars, putVars, ownVars, serverVars,
        GetThreadFailed, Failed
<1>0. TypeOK /\ NetType /\ FlowInv /\ NonceInv /\ ServeInv /\ DataInv /\ ContextInv /\ DoneRight /\ SealedForOwner
  BY DEF IInv
<1>1. NetType'
  BY <1>0 DEF NetType
<1>2. TypeOK'
  BY <1>0, <1>1 DEF TypeOK
<1>3. FlowInv'
  BY <1>0 DEF FlowInv, Plain
<1>4. NonceInv'
  BY <1>0 DEF NonceInv
<1>5. ServeInv'
  BY <1>0 DEF ServeInv, PortInv, PutInv, OnePut, Plain, Accepted, UsesContext
<1>6. DataInv'
  BY <1>0 DEF DataInv, Plain
<1>7. ContextInv'
  BY <1>0 DEF ContextInv, Plain, UsesContext
<1>8. DoneRight'
  BY <1>0 DEF DoneRight
<1>9. SealedForOwner'
  BY <1>0 DEF SealedForOwner
<1> QED
  BY <1>1, <1>2, <1>3, <1>4, <1>5, <1>6, <1>7, <1>8, <1>9 DEF IInv

LEMMA AcceptPreserves ==
    ASSUME IInv, NEW g \in Gets, Accept(g)
    PROVE  IInv'
<1> USE TransferAssumption DEF clientVars, netVars, portVars, putVars, ownVars, serverVars,
        Accept
<1>0. TypeOK /\ NetType /\ FlowInv /\ NonceInv /\ ServeInv /\ DataInv /\ ContextInv /\ DoneRight /\ SealedForOwner
  BY DEF IInv
<1>1. NetType'
  BY <1>0 DEF NetType
<1>2. TypeOK'
  BY <1>0, <1>1 DEF TypeOK, NetType
<1>3. FlowInv'
  BY <1>0 DEF FlowInv, Plain
<1>4. NonceInv'
  BY <1>0 DEF NonceInv
<1>5. ServeInv'
  BY <1>0, RequestKinds, AnswerKinds DEF ServeInv, PortInv, PutInv, OnePut, FlowInv, TypeOK, Plain, Accepted
<1>6. DataInv'
  BY <1>0 DEF DataInv, Plain
<1>7. ContextInv'
  BY <1>0 DEF ContextInv, UsesContext
<1>8. DoneRight'
  BY <1>0 DEF DoneRight
<1>9. SealedForOwner'
  BY <1>0 DEF SealedForOwner
<1> QED
  BY <1>1, <1>2, <1>3, <1>4, <1>5, <1>6, <1>7, <1>8, <1>9 DEF IInv

LEMMA PutPlainPreserves ==
    ASSUME IInv, NEW g \in Gets, PutPlain(g)
    PROVE  IInv'
<1> USE TransferAssumption DEF clientVars, netVars, portVars, putVars, ownVars, serverVars,
        PutPlain, Started
<1>0. TypeOK /\ NetType /\ FlowInv /\ NonceInv /\ ServeInv /\ DataInv /\ ContextInv /\ DoneRight /\ SealedForOwner
  BY DEF IInv
<1>1. NetType'
  BY <1>0 DEF NetType
<1>2. TypeOK'
  BY <1>0, <1>1 DEF TypeOK
<1>3. FlowInv'
  BY <1>0 DEF FlowInv, TypeOK, Plain
<1>4. NonceInv'
  BY <1>0 DEF NonceInv
<1>5. ServeInv'
  BY <1>0 DEF ServeInv, PortInv, PutInv, OnePut, Plain, Accepted
<1>6. DataInv'
  BY <1>0 DEF DataInv, Plain
<1>7. ContextInv'
  BY <1>0 DEF ContextInv, ServeInv, PortInv, FlowInv, Plain, UsesContext
<1>8. DoneRight'
  BY <1>0 DEF DoneRight
<1>9. SealedForOwner'
  BY <1>0 DEF SealedForOwner, FlowInv
<1> QED
  BY <1>1, <1>2, <1>3, <1>4, <1>5, <1>6, <1>7, <1>8, <1>9 DEF IInv

LEMMA PutChallengePreserves ==
    ASSUME IInv, NEW g \in Gets, PutChallenge(g)
    PROVE  IInv'
<1> USE TransferAssumption DEF clientVars, netVars, portVars, putVars, ownVars, serverVars,
        PutChallenge, Refused, Deletes, Knows
<1>0. TypeOK /\ NetType /\ FlowInv /\ NonceInv /\ ServeInv /\ DataInv /\ ContextInv /\ DoneRight /\ SealedForOwner
  BY DEF IInv
<1>1. NetType'
  <2>1. [kind |-> "401", chal |-> random] \in Answer
    BY <1>0, AnswerKinds DEF NetType
  <2> QED
    BY <1>0, <2>1, RequestKinds DEF NetType
<1>2. TypeOK'
  BY <1>0, <1>1, ContentKinds DEF TypeOK, NetType
<1>3. FlowInv'
  BY <1>0, RequestKinds, AnswerKinds, ContentKinds DEF FlowInv, TypeOK, NetType, Plain, ServeInv, PortInv, OnePut, Accepted
<1>4. NonceInv'
  BY <1>0, RequestKinds, AnswerKinds, ContentKinds DEF FlowInv, TypeOK, NetType, NonceInv
<1>5. ServeInv'
  BY <1>0, RequestKinds, AnswerKinds DEF ServeInv, PortInv, PutInv, OnePut, FlowInv, TypeOK, NetType, Plain, Accepted, UsesContext
<1>6. DataInv'
  BY <1>0 DEF DataInv, PortInv, FlowInv, Plain, Accepted
<1>7. ContextInv'
  BY <1>0 DEF ContextInv, ServeInv, PortInv, OnePut, FlowInv, NonceInv, NetType, Accepted, UsesContext
<1>8. DoneRight'
  BY <1>0 DEF DoneRight
<1>9. SealedForOwner'
  BY <1>0 DEF SealedForOwner, FlowInv, TypeOK, NetType, ContextInv, OnePut
<1> QED
  BY <1>1, <1>2, <1>3, <1>4, <1>5, <1>6, <1>7, <1>8, <1>9 DEF IInv

LEMMA PutVerifiedPreserves ==
    ASSUME IInv, NEW g \in Gets, PutVerified(g)
    PROVE  IInv'
<1> USE TransferAssumption DEF clientVars, netVars, portVars, putVars, ownVars, serverVars,
        PutVerified, Started, Answers
<1>0. TypeOK /\ NetType /\ FlowInv /\ NonceInv /\ ServeInv /\ DataInv /\ ContextInv /\ DoneRight /\ SealedForOwner
  BY DEF IInv
<1>1. NetType'
  BY <1>0 DEF NetType, FlowInv
<1>2. TypeOK'
  <2>1. PICK p \in pending : ctx' = [ctx EXCEPT !.id = p.id] /\ pending' = pending \ {p}
    BY <1>0
  <2>2. p.id \in Clients
    BY <1>0, <2>1 DEF TypeOK
  <2>3. ctx' \in [host : Gets \cup {None}, resp : Gets \cup {None}, id : Clients \cup {None}]
    BY <1>0, <2>1, <2>2 DEF TypeOK
  <2> QED
    BY <1>0, <1>1, <2>1, <2>3, RequestKinds DEF TypeOK, NetType, NonceInv
<1>3. FlowInv'
  BY <1>0 DEF FlowInv, NetType, Plain
<1>4. NonceInv'
  BY <1>0 DEF NonceInv
<1>5. ServeInv'
  BY <1>0 DEF ServeInv, PortInv, PutInv, OnePut, NetType, Plain, Accepted
<1>6. DataInv'
  BY <1>0 DEF DataInv, ServeInv, PortInv, Plain, Accepted
<1>7. ContextInv'
  BY <1>0 DEF ContextInv, ServeInv, PortInv, FlowInv, NonceInv, UsesContext
<1>8. DoneRight'
  BY <1>0 DEF DoneRight
<1>9. SealedForOwner'
  BY <1>0 DEF SealedForOwner, TypeOK
<1> QED
  BY <1>1, <1>2, <1>3, <1>4, <1>5, <1>6, <1>7, <1>8, <1>9 DEF IInv

LEMMA PutRefusePreserves ==
    ASSUME IInv, NEW g \in Gets, PutRefuse(g)
    PROVE  IInv'
<1> USE TransferAssumption DEF clientVars, netVars, portVars, putVars, ownVars, serverVars,
        PutRefuse, Refused, Deletes
<1>0. TypeOK /\ NetType /\ FlowInv /\ NonceInv /\ ServeInv /\ DataInv /\ ContextInv /\ DoneRight /\ SealedForOwner
  BY DEF IInv
<1>1. NetType'
  BY <1>0 DEF NetType
<1>2. TypeOK'
  BY <1>0, <1>1 DEF TypeOK
<1>3. FlowInv'
  BY <1>0, RequestKinds, AnswerKinds, ContentKinds DEF FlowInv, Plain, ServeInv, PortInv, Accepted
<1>4. NonceInv'
  BY <1>0 DEF NonceInv
<1>5. ServeInv'
  BY <1>0, RequestKinds, AnswerKinds, ContentKinds DEF ServeInv, PortInv, PutInv, OnePut, FlowInv, TypeOK, NetType, Plain, Accepted, UsesContext
<1>6. DataInv'
  BY <1>0, ContentKinds DEF DataInv, FlowInv, TypeOK, NetType, Plain
<1>7. ContextInv'
  BY <1>0 DEF ContextInv, OnePut, NetType, UsesContext
<1>8. DoneRight'
  BY <1>0 DEF DoneRight, DataInv
<1>9. SealedForOwner'
  BY <1>0 DEF SealedForOwner, DataInv, TypeOK, NetType
<1> QED
  BY <1>1, <1>2, <1>3, <1>4, <1>5, <1>6, <1>7, <1>8, <1>9 DEF IInv

LEMMA PutStartPreserves ==
    ASSUME IInv, NEW t \in Gets, PutStart(t)
    PROVE  IInv'
<1> USE TransferAssumption DEF clientVars, netVars, portVars, putVars, ownVars, serverVars,
        PutStart, PutTo
<1>0. TypeOK /\ NetType /\ FlowInv /\ NonceInv /\ ServeInv /\ DataInv /\ ContextInv /\ DoneRight /\ SealedForOwner
  BY DEF IInv
<1>1. NetType'
  BY <1>0 DEF NetType
<1>2. TypeOK'
  BY <1>0, <1>1 DEF TypeOK
<1>3. FlowInv'
  BY <1>0 DEF FlowInv, Plain
<1>4. NonceInv'
  BY <1>0 DEF NonceInv
<1>5. ServeInv'
  BY <1>0, AnswerKinds, ContentKinds DEF ServeInv, PortInv, PutInv, OnePut, FlowInv, TypeOK, NetType, Plain, Accepted, UsesContext
<1>6. DataInv'
  BY <1>0 DEF DataInv, Plain
<1>7. ContextInv'
  BY <1>0 DEF ContextInv, PutInv, OnePut, TypeOK, Plain, Accepted, UsesContext
<1>8. DoneRight'
  BY <1>0 DEF DoneRight
<1>9. SealedForOwner'
  BY <1>0 DEF SealedForOwner, DataInv, TypeOK, NetType, Plain, ContextInv, PutInv
<1> QED
  BY <1>1, <1>2, <1>3, <1>4, <1>5, <1>6, <1>7, <1>8, <1>9 DEF IInv

LEMMA FindClosedPreserves ==
    ASSUME IInv, NEW t \in Gets, FindClosed(t)
    PROVE  IInv'
<1> USE TransferAssumption DEF clientVars, netVars, portVars, putVars, ownVars, serverVars,
        FindClosed, PutTo
<1>0. TypeOK /\ NetType /\ FlowInv /\ NonceInv /\ ServeInv /\ DataInv /\ ContextInv /\ DoneRight /\ SealedForOwner
  BY DEF IInv
<1>1. NetType'
  BY <1>0 DEF NetType
<1>2. TypeOK'
  BY <1>0, <1>1 DEF TypeOK, FlowInv, PortInv, PutInv, OnePut, DataInv
<1>3. FlowInv'
  BY <1>0 DEF FlowInv, TypeOK, NetType, Plain, OnePut, Accepted
<1>4. NonceInv'
  BY <1>0 DEF NonceInv
<1>5. ServeInv'
  BY <1>0 DEF ServeInv, PortInv, PutInv, OnePut, FlowInv, TypeOK, Plain, Accepted, UsesContext
<1>6. DataInv'
  BY <1>0 DEF DataInv, Plain
<1>7. ContextInv'
  BY <1>0 DEF ContextInv, PortInv, Plain, Accepted, UsesContext
<1>8. DoneRight'
  BY <1>0 DEF DoneRight
<1>9. SealedForOwner'
  BY <1>0 DEF SealedForOwner
<1> QED
  BY <1>1, <1>2, <1>3, <1>4, <1>5, <1>6, <1>7, <1>8, <1>9 DEF IInv

LEMMA FindFilePreserves ==
    ASSUME IInv, NEW t \in Gets, FindFile(t)
    PROVE  IInv'
<1> USE TransferAssumption DEF clientVars, netVars, portVars, putVars, ownVars, serverVars,
        FindFile, Reads, PutTo
<1>0. TypeOK /\ NetType /\ FlowInv /\ NonceInv /\ ServeInv /\ DataInv /\ ContextInv /\ DoneRight /\ SealedForOwner
  BY DEF IInv
<1>1. NetType'
  BY <1>0, RequestKinds DEF NetType
<1>2. TypeOK'
  <2>1. rqst[host[t]].file \in Files
    BY <1>0, RequestKinds DEF NetType, ServeInv, PutInv, Accepted
  <2>2. entry' \in [Gets -> Files \cup {None}]
    BY <1>0, <2>1 DEF TypeOK
  <2> QED
    BY <1>0, <1>1, <2>2, RequestKinds DEF TypeOK
<1>3. FlowInv'
  BY <1>0, ContentKinds DEF FlowInv, TypeOK, Plain
<1>4. NonceInv'
  BY <1>0, ContentKinds DEF NonceInv
<1>5. ServeInv'
  <2>1. PortInv'
    BY <1>0 DEF ServeInv, PortInv, UsesContext, Accepted, Plain
  <2>2. PutInv'
    BY <1>0, RequestKinds DEF ServeInv, PutInv, FlowInv, Accepted, Plain, TypeOK, NetType
  <2>3. OnePut'
    <3>1. \A u \in Gets : put[u] \in {"header", "data"} => host[u] # host[t]
      BY <1>0, RequestKinds DEF ServeInv, PutInv, Accepted, NetType
    <3> QED
      BY <1>0, <3>1 DEF ServeInv, OnePut
  <2> QED
    BY <2>1, <2>2, <2>3 DEF ServeInv
<1>6. DataInv'
  BY <1>0 DEF DataInv, Plain
<1>7. ContextInv'
  BY <1>0 DEF ContextInv, Plain, UsesContext
<1>8. DoneRight'
  BY <1>0 DEF DoneRight
<1>9. SealedForOwner'
  BY <1>0 DEF SealedForOwner
<1> QED
  BY <1>1, <1>2, <1>3, <1>4, <1>5, <1>6, <1>7, <1>8, <1>9 DEF IInv

LEMMA FindCrashPreserves ==
    ASSUME IInv, NEW t \in Gets, FindCrash(t)
    PROVE  IInv'
<1> USE TransferAssumption DEF clientVars, netVars, portVars, putVars, ownVars, serverVars,
        FindCrash, Reads, EndProcess
<1>0. TypeOK /\ NetType /\ FlowInv /\ NonceInv /\ ServeInv /\ DataInv /\ ContextInv /\ DoneRight /\ SealedForOwner
  BY DEF IInv
<1>1. NetType'
  BY <1>0, RequestKinds DEF NetType
<1>2. TypeOK'
  BY <1>0, <1>1, ContentKinds DEF TypeOK, NetType
<1>3. FlowInv'
  BY <1>0, ContentKinds DEF FlowInv, Plain
<1>4. NonceInv'
  BY <1>0, ContentKinds DEF NonceInv
<1>5. ServeInv'
  BY <1>0 DEF ServeInv, PortInv, PutInv, OnePut, UsesContext
<1>6. DataInv'
  BY <1>0 DEF DataInv, Plain
<1>7. ContextInv'
  BY <1>0 DEF ContextInv, UsesContext
<1>8. DoneRight'
  BY <1>0 DEF DoneRight
<1>9. SealedForOwner'
  BY <1>0 DEF SealedForOwner
<1> QED
  BY <1>1, <1>2, <1>3, <1>4, <1>5, <1>6, <1>7, <1>8, <1>9 DEF IInv

LEMMA FindNothingPreserves ==
    ASSUME IInv, NEW t \in Gets, FindNothing(t)
    PROVE  IInv'
<1> USE TransferAssumption DEF clientVars, netVars, portVars, putVars, ownVars, serverVars,
        FindNothing, Reads, PutTo
<1>0. TypeOK /\ NetType /\ FlowInv /\ NonceInv /\ ServeInv /\ DataInv /\ ContextInv /\ DoneRight /\ SealedForOwner
  BY DEF IInv
<1>1. NetType'
  BY <1>0, RequestKinds, AnswerKinds DEF NetType
<1>2. TypeOK'
  BY <1>0, <1>1, ContentKinds DEF TypeOK
<1>3. FlowInv'
  BY <1>0, RequestKinds DEF FlowInv, NetType, Plain
<1>4. NonceInv'
  BY <1>0, ContentKinds DEF NonceInv
<1>5. ServeInv'
  BY <1>0, RequestKinds DEF ServeInv, PortInv, PutInv, OnePut, NetType, Plain, Accepted, UsesContext
<1>6. DataInv'
  BY <1>0 DEF DataInv, Plain
<1>7. ContextInv'
  BY <1>0 DEF ContextInv, Plain, UsesContext
<1>8. DoneRight'
  BY <1>0 DEF DoneRight
<1>9. SealedForOwner'
  BY <1>0 DEF SealedForOwner
<1> QED
  BY <1>1, <1>2, <1>3, <1>4, <1>5, <1>6, <1>7, <1>8, <1>9 DEF IInv

LEMMA HeaderOkPreserves ==
    ASSUME IInv, NEW t \in Gets, HeaderOk(t)
    PROVE  IInv'
<1> USE TransferAssumption DEF clientVars, netVars, portVars, putVars, ownVars, serverVars,
        HeaderOk, PutTo
<1>0. TypeOK /\ NetType /\ FlowInv /\ NonceInv /\ ServeInv /\ DataInv /\ ContextInv /\ DoneRight /\ SealedForOwner
  BY DEF IInv
<1>1. NetType'
  <2>1. PICK x \in {resp[ctx.resp], 0} :
             answer' = IF conn[host[t]] # "taken" THEN answer
                       ELSE [answer EXCEPT ![host[t]] = [kind |-> "200", resp |-> x]]
    BY <1>0
  <2>2. x \in Nat
    BY <1>0, <2>1 DEF ServeInv, PortInv, UsesContext, TypeOK
  <2> QED
    BY <1>0, <2>1, <2>2, AnswerKinds DEF NetType
<1>2. TypeOK'
  BY <1>0, <1>1 DEF TypeOK
<1>3. FlowInv'
  BY <1>0 DEF FlowInv, Plain, ServeInv, PutInv
<1>4. NonceInv'
  BY <1>0 DEF NonceInv
<1>5. ServeInv'
  BY <1>0 DEF ServeInv, PortInv, PutInv, OnePut, TypeOK, Plain, Accepted, UsesContext
<1>6. DataInv'
  BY <1>0 DEF DataInv, Plain
<1>7. ContextInv'
  BY <1>0 DEF ContextInv, Plain, UsesContext
<1>8. DoneRight'
  BY <1>0 DEF DoneRight
<1>9. SealedForOwner'
  BY <1>0 DEF SealedForOwner
<1> QED
  BY <1>1, <1>2, <1>3, <1>4, <1>5, <1>6, <1>7, <1>8, <1>9 DEF IInv

LEMMA HeaderFailsPreserves ==
    ASSUME IInv, NEW t \in Gets, HeaderFails(t)
    PROVE  IInv'
<1> USE TransferAssumption DEF clientVars, netVars, portVars, putVars, ownVars, serverVars,
        HeaderFails, PutTo
<1>0. TypeOK /\ NetType /\ FlowInv /\ NonceInv /\ ServeInv /\ DataInv /\ ContextInv /\ DoneRight /\ SealedForOwner
  BY DEF IInv
<1>1. NetType'
  BY <1>0, AnswerKinds DEF NetType
<1>2. TypeOK'
  BY <1>0, <1>1 DEF TypeOK
<1>3. FlowInv'
  BY <1>0 DEF FlowInv, Plain, ServeInv, PutInv
<1>4. NonceInv'
  BY <1>0 DEF NonceInv
<1>a. Accepted(host[t])
  BY <1>0 DEF ServeInv, PutInv
<1>b. put' = [put EXCEPT ![t] = "end"]
  OBVIOUS
<1>c. \A g \in Gets : g # host[t] => answer'[g] = answer[g]
  BY <1>0 DEF NetType
<1>d. conn[host[t]] = "taken" => answer'[host[t]].kind = "404"
  BY <1>0, <1>a DEF NetType, Accepted
<1>e. \A g : Accepted(g)' <=> Accepted(g)
  BY DEF Accepted, Plain
<1>f. \A g : Plain(g)' <=> Plain(g)
  BY DEF Plain
<1>5. ServeInv'
  <2>1. PortInv'
    <3>1. port # None => port # host[t] \/ answer'[port].kind # "401"
      BY <1>0, <1>a, <1>d DEF ServeInv, PortInv, TypeOK, Accepted
    <3>2. \A u \in Gets : UsesContext(u)' => UsesContext(u)
      BY <1>0, <1>b DEF UsesContext, TypeOK
    <3>3. port # None => port \in Gets
      BY <1>0 DEF TypeOK
    <3> QED
      BY <1>0, <1>c, <1>e, <3>1, <3>2, <3>3 DEF ServeInv, PortInv
  <2>2. OnePut'
    BY <1>0, <1>b DEF ServeInv, OnePut
  <2>3. PutInv'
    <3>1. \A u \in Gets : put'[u] \in {"header", "data"} => u # t /\ put[u] = put'[u] /\ host[u] # host[t]
      BY <1>0, <1>b DEF ServeInv, OnePut, TypeOK
    <3>2. \A u \in Gets : u # t => put'[u] = put[u]
      BY <1>b
    <3>3. \A g \in Gets : answer[g].kind = "404" /\ conn[g] = "taken" => answer'[g].kind = "404"
      BY <1>c, <1>d
    <3>4. PutInv /\ put'[t] = "end"
      BY <1>0, <1>b DEF ServeInv, TypeOK
    <3> QED
      BY <1>a, <1>c, <1>d, <1>e, <1>f, <3>1, <3>2, <3>3, <3>4 DEF PutInv, Accepted
  <2> QED
    BY <2>1, <2>2, <2>3 DEF ServeInv
<1>6. DataInv'
  BY <1>0 DEF DataInv, Plain
<1>7. ContextInv'
  BY <1>0 DEF ContextInv, Plain, UsesContext
<1>8. DoneRight'
  BY <1>0 DEF DoneRight
<1>9. SealedForOwner'
  BY <1>0 DEF SealedForOwner
<1> QED
  BY <1>1, <1>2, <1>3, <1>4, <1>5, <1>6, <1>7, <1>8, <1>9 DEF IInv

LEMMA PutDataPreserves ==
    ASSUME IInv, NEW t \in Gets, PutData(t)
    PROVE  IInv'
<1> USE TransferAssumption DEF clientVars, netVars, portVars, putVars, ownVars, serverVars,
        PutTo
<1>0. TypeOK /\ NetType /\ FlowInv /\ NonceInv /\ ServeInv /\ DataInv /\ ContextInv /\ DoneRight /\ SealedForOwner
  BY DEF IInv
<1>a. /\ put[t] = "data" /\ put' = [put EXCEPT ![t] = "end"]
      /\ UNCHANGED <<clientVars, conn, rqst, answer, portVars, host, entry, stale, freed, ownVars,
                     down, mixed, random, faults>>
  BY DEF PutData
<1>b. PICK d \in Contents(t) :
           data' = IF conn[host[t]] # "taken" THEN data ELSE [data EXCEPT ![host[t]] = d]
  BY DEF PutData
<1>c. /\ Accepted(host[t]) /\ entry[t] = file[host[t]] /\ entry[t] \in Files
      /\ data[host[t]].kind = "nothing"
      /\ t \in stale => Kind[entry[t]] # "key"
  BY <1>0, <1>a DEF ServeInv, PutInv, FlowInv, Accepted
<1>d. /\ d \in Content
      /\ d.kind \in {"file", "page", "stray"}
      /\ d.kind = "file" => d.file = entry[t] /\ d.seal = Seal(entry[t])
      /\ d.kind = "page" => entry[t] \notin disk
      /\ d.kind = "stray" => t \in stale
  BY <1>0, <1>b, <1>c, SentKinds DEF TypeOK
<1>e. data \in [Gets -> Content] /\ data' \in [Gets -> Content]
  BY <1>0, <1>b, <1>c, <1>d DEF NetType
<1>f. \A g \in Gets : data'[g] = data[g] \/ (g = host[t] /\ conn[g] = "taken" /\ data'[g] = d)
  BY <1>b, <1>c, <1>e DEF Accepted
<1>1. NetType'
  BY <1>0, <1>a, <1>e DEF NetType
<1>2. TypeOK'
  <2>1. \A g \in Gets : data'[g].kind \in {"nothing", "file", "page", "stray"}
    BY <1>e, ContentKinds
  <2> QED
    BY <1>0, <1>a, <2>1 DEF TypeOK
<1>3. FlowInv'
  <2>1. rqst[host[t]].kind = "nothing" /\ answer[host[t]].kind # "401" /\ pc[host[t]] # "none"
    BY <1>0, <1>a, <1>c DEF ServeInv, PutInv, FlowInv, Accepted
  <2> QED
    BY <1>0, <1>a, <1>f, <2>1 DEF FlowInv, Plain
<1>4. NonceInv'
  BY <1>0, <1>a DEF NonceInv
<1>5. ServeInv'
  <2>1. PortInv'
    BY <1>0, <1>a DEF ServeInv, PortInv, Plain, Accepted, UsesContext
  <2>2. OnePut'
    BY <1>0, <1>a DEF ServeInv, OnePut
  <2>3. PutInv'
    <3>1. \A u \in Gets : u # t => put'[u] = put[u]
      BY <1>a
    <3>2. put'[t] = "end"
      BY <1>0, <1>a DEF TypeOK
    <3>3. \A u \in Gets : put[u] \in {"header", "data"} /\ u # t => data'[host[u]] = data[host[u]]
      BY <1>0, <1>a, <1>f DEF ServeInv, OnePut, PutInv, Accepted
    <3>4. \A g \in Gets : data[g] # Nothing => data'[g] # Nothing
      BY <1>d, <1>f, ContentKinds
    <3>5. conn[host[t]] = "taken" => data'[host[t]] # Nothing
      BY <1>b, <1>c, <1>d, <1>e, ContentKinds DEF Accepted
    <3>6. \A g : Accepted(g)' <=> Accepted(g)
      BY <1>a DEF Accepted, Plain
    <3>7. \A g : Plain(g)' <=> Plain(g)
      BY <1>a DEF Plain
    <3>8. PutInv
      BY <1>0 DEF ServeInv
    <3> QED
      BY <1>a, <3>1, <3>2, <3>3, <3>4, <3>5, <3>6, <3>7, <3>8 DEF PutInv, Accepted
  <2> QED
    BY <2>1, <2>2, <2>3 DEF ServeInv
<1>6. DataInv'
  <2>1. \A g \in Gets : data'[g].kind = "file" => data'[g].file = file[g]
    BY <1>0, <1>c, <1>d, <1>f DEF DataInv
  <2>2. \A g \in Gets : data'[g].kind = "page" => file[g] \notin disk
    BY <1>0, <1>c, <1>d, <1>f DEF DataInv
  <2>3. \A g \in Gets : data[g] # Nothing => data'[g] # Nothing
    BY <1>d, <1>f, ContentKinds
  <2> QED
    BY <1>0, <1>a, <2>1, <2>2, <2>3 DEF DataInv, Plain
<1>7. ContextInv'
  BY <1>0, <1>a DEF ContextInv, Plain, UsesContext
<1>8. DoneRight'
  <2>1. \A g \in Gets : data[g].kind = "stray" => data'[g].kind = "stray"
    BY <1>c, <1>f
  <2> QED
    BY <1>0, <1>a, <2>1 DEF DoneRight
<1>9. SealedForOwner'
  <2> SUFFICES ASSUME ~mixed, NEW g \in Gets, data'[g] # Nothing, Kind[file[g]] # "plain"
               PROVE  who[g] \in Known /\ (Kind[file[g]] = "key" => data'[g].seal = who[g])
    BY <1>a DEF SealedForOwner
  <2>1. CASE data'[g] = data[g]
    BY <1>0, <2>1 DEF SealedForOwner
  <2>2. CASE data'[g] # data[g]
    <3>1. g = host[t] /\ data'[g] = d
      BY <1>f, <2>2
    <3>2. host[t] = t /\ (~Plain(t) => ctx.id = who[t] /\ who[t] \in Known)
      BY <1>0, <1>a DEF ContextInv, UsesContext
    <3>3. ctx.id = who[g] /\ who[g] \in Known
      BY <3>1, <3>2 DEF Plain
    <3>4. Kind[file[g]] = "key" => d.kind = "file"
      BY <1>0, <1>c, <1>d, <3>1 DEF DataInv
    <3> QED
      BY <1>c, <1>d, <3>1, <3>3, <3>4 DEF Seal
  <2> QED
    BY <2>1, <2>2
<1> QED
  BY <1>1, <1>2, <1>3, <1>4, <1>5, <1>6, <1>7, <1>8, <1>9 DEF IInv

LEMMA PutEndPreserves ==
    ASSUME IInv, NEW t \in Gets, PutEnd(t)
    PROVE  IInv'
<1> USE TransferAssumption DEF clientVars, netVars, portVars, putVars, ownVars, serverVars,
        PutEnd, PutTo, Deletes
<1>0. TypeOK /\ NetType /\ FlowInv /\ NonceInv /\ ServeInv /\ DataInv /\ ContextInv /\ DoneRight /\ SealedForOwner
  BY DEF IInv
<1>1. NetType'
  BY <1>0 DEF NetType
<1>2. TypeOK'
  BY <1>0, <1>1 DEF TypeOK, ServeInv, PutInv, Accepted
<1>3. FlowInv'
  BY <1>0 DEF FlowInv, Plain
<1>4. NonceInv'
  BY <1>0 DEF NonceInv
<1>5. ServeInv'
  BY <1>0 DEF ServeInv, PortInv, PutInv, OnePut, Plain, Accepted, UsesContext
<1>6. DataInv'
  BY <1>0 DEF DataInv, ServeInv, PutInv, Plain
<1>7. ContextInv'
  BY <1>0 DEF ContextInv, Plain, UsesContext
<1>8. DoneRight'
  BY <1>0 DEF DoneRight
<1>9. SealedForOwner'
  BY <1>0 DEF SealedForOwner
<1> QED
  BY <1>1, <1>2, <1>3, <1>4, <1>5, <1>6, <1>7, <1>8, <1>9 DEF IInv

LEMMA PutFreedPreserves ==
    ASSUME IInv, NEW t \in Gets, PutFreed(t)
    PROVE  IInv'
<1> USE TransferAssumption DEF clientVars, netVars, portVars, putVars, ownVars, serverVars,
        PutFreed, EndProcess
<1>0. TypeOK /\ NetType /\ FlowInv /\ NonceInv /\ ServeInv /\ DataInv /\ ContextInv /\ DoneRight /\ SealedForOwner
  BY DEF IInv
<1>1. NetType'
  BY <1>0 DEF NetType
<1>2. TypeOK'
  BY <1>0, <1>1 DEF TypeOK, NetType, FlowInv
<1>3. FlowInv'
  BY <1>0 DEF FlowInv, Plain
<1>4. NonceInv'
  BY <1>0 DEF NonceInv
<1>5. ServeInv'
  BY <1>0 DEF ServeInv, PortInv, PutInv, OnePut, UsesContext
<1>6. DataInv'
  BY <1>0 DEF DataInv, Plain
<1>7. ContextInv'
  BY <1>0 DEF ContextInv, UsesContext
<1>8. DoneRight'
  BY <1>0 DEF DoneRight
<1>9. SealedForOwner'
  BY <1>0 DEF SealedForOwner
<1> QED
  BY <1>1, <1>2, <1>3, <1>4, <1>5, <1>6, <1>7, <1>8, <1>9 DEF IInv

LEMMA LosePreserves ==
    ASSUME IInv, NEW g \in Gets, Lose(g)
    PROVE  IInv'
<1> USE TransferAssumption DEF clientVars, netVars, portVars, putVars, ownVars, serverVars,
        Lose, Fault
<1>0. TypeOK /\ NetType /\ FlowInv /\ NonceInv /\ ServeInv /\ DataInv /\ ContextInv /\ DoneRight /\ SealedForOwner
  BY DEF IInv
<1>1. NetType'
  BY <1>0 DEF NetType
<1>2. TypeOK'
  BY <1>0, <1>1 DEF TypeOK
<1>3. FlowInv'
  BY <1>0 DEF FlowInv, Plain
<1>4. NonceInv'
  BY <1>0 DEF NonceInv
<1>5. ServeInv'
  BY <1>0 DEF ServeInv, PortInv, PutInv, OnePut, Plain, Accepted, UsesContext
<1>6. DataInv'
  BY <1>0 DEF DataInv, Plain
<1>7. ContextInv'
  BY <1>0 DEF ContextInv, Plain, UsesContext
<1>8. DoneRight'
  BY <1>0 DEF DoneRight
<1>9. SealedForOwner'
  BY <1>0 DEF SealedForOwner
<1> QED
  BY <1>1, <1>2, <1>3, <1>4, <1>5, <1>6, <1>7, <1>8, <1>9 DEF IInv

LEMMA ExpirePreserves ==
    ASSUME IInv, Expire
    PROVE  IInv'
<1> USE TransferAssumption DEF clientVars, netVars, portVars, putVars, ownVars, serverVars,
        Expire, Fault
<1>0. TypeOK /\ NetType /\ FlowInv /\ NonceInv /\ ServeInv /\ DataInv /\ ContextInv /\ DoneRight /\ SealedForOwner
  BY DEF IInv
<1>1. NetType'
  BY <1>0 DEF NetType
<1>2. TypeOK'
  BY <1>0, <1>1 DEF TypeOK
<1>3. FlowInv'
  BY <1>0 DEF FlowInv, TypeOK, Plain
<1>4. NonceInv'
  BY <1>0 DEF NonceInv
<1>5. ServeInv'
  BY <1>0 DEF ServeInv, PortInv, PutInv, OnePut, Plain, Accepted, UsesContext
<1>6. DataInv'
  BY <1>0 DEF DataInv, Plain
<1>7. ContextInv'
  BY <1>0 DEF ContextInv, Plain, UsesContext
<1>8. DoneRight'
  BY <1>0 DEF DoneRight
<1>9. SealedForOwner'
  BY <1>0 DEF SealedForOwner
<1> QED
  BY <1>1, <1>2, <1>3, <1>4, <1>5, <1>6, <1>7, <1>8, <1>9 DEF IInv

LEMMA UnlinkPreserves ==
    ASSUME IInv, Unlink
    PROVE  IInv'
<1> USE TransferAssumption DEF clientVars, netVars, portVars, putVars, ownVars, serverVars,
        Unlink, Fault
<1>0. TypeOK /\ NetType /\ FlowInv /\ NonceInv /\ ServeInv /\ DataInv /\ ContextInv /\ DoneRight /\ SealedForOwner
  BY DEF IInv
<1>1. NetType'
  BY <1>0 DEF NetType
<1>2. TypeOK'
  BY <1>0, <1>1 DEF TypeOK
<1>3. FlowInv'
  BY <1>0 DEF FlowInv, Plain
<1>4. NonceInv'
  BY <1>0 DEF NonceInv
<1>5. ServeInv'
  BY <1>0 DEF ServeInv, PortInv, PutInv, OnePut, Plain, Accepted, UsesContext
<1>6. DataInv'
  BY <1>0 DEF DataInv, Plain
<1>7. ContextInv'
  BY <1>0 DEF ContextInv, Plain, UsesContext
<1>8. DoneRight'
  BY <1>0 DEF DoneRight
<1>9. SealedForOwner'
  BY <1>0 DEF SealedForOwner
<1> QED
  BY <1>1, <1>2, <1>3, <1>4, <1>5, <1>6, <1>7, <1>8, <1>9 DEF IInv

LEMMA RescanPreserves ==
    ASSUME IInv, Rescan
    PROVE  IInv'
<1> USE TransferAssumption DEF clientVars, netVars, portVars, putVars, ownVars, serverVars,
        Rescan, Fault
<1>0. TypeOK /\ NetType /\ FlowInv /\ NonceInv /\ ServeInv /\ DataInv /\ ContextInv /\ DoneRight /\ SealedForOwner
  BY DEF IInv
<1>1. NetType'
  BY <1>0 DEF NetType
<1>2. TypeOK'
  <2>1. shared' \subseteq Files /\ disk' \subseteq shared' /\ member' \in BOOLEAN
    BY <1>0 DEF TypeOK
  <2>2. faults' \in 0..MaxFaults
    BY <1>0 DEF TypeOK
  <2> QED
    BY <1>0, <2>1, <2>2 DEF TypeOK
<1>3. FlowInv'
  BY <1>0 DEF FlowInv, Plain
<1>4. NonceInv'
  BY <1>0 DEF NonceInv
<1>5. ServeInv'
  BY <1>0 DEF ServeInv, PortInv, PutInv, OnePut, Plain, Accepted, UsesContext
<1>6. DataInv'
  BY <1>0 DEF DataInv, Plain
<1>7. ContextInv'
  BY <1>0 DEF ContextInv, Plain, UsesContext
<1>8. DoneRight'
  BY <1>0 DEF DoneRight
<1>9. SealedForOwner'
  BY <1>0 DEF SealedForOwner
<1> QED
  BY <1>1, <1>2, <1>3, <1>4, <1>5, <1>6, <1>7, <1>8, <1>9 DEF IInv

LEMMA LeaveGroupPreserves ==
    ASSUME IInv, LeaveGroup
    PROVE  IInv'
<1> USE TransferAssumption DEF clientVars, netVars, portVars, putVars, ownVars, serverVars,
        LeaveGroup, Fault
<1>0. TypeOK /\ NetType /\ FlowInv /\ NonceInv /\ ServeInv /\ DataInv /\ ContextInv /\ DoneRight /\ SealedForOwner
  BY DEF IInv
<1>1. NetType'
  BY <1>0 DEF NetType
<1>2. TypeOK'
  <2>1. shared' \subseteq Files /\ disk' \subseteq shared' /\ member' \in BOOLEAN
    BY <1>0 DEF TypeOK
  <2>2. faults' \in 0..MaxFaults
    BY <1>0 DEF TypeOK
  <2> QED
    BY <1>0, <2>1, <2>2 DEF TypeOK
<1>3. FlowInv'
  BY <1>0 DEF FlowInv, Plain
<1>4. NonceInv'
  BY <1>0 DEF NonceInv
<1>5. ServeInv'
  BY <1>0 DEF ServeInv, PortInv, PutInv, OnePut, Plain, Accepted, UsesContext
<1>6. DataInv'
  BY <1>0 DEF DataInv, Plain
<1>7. ContextInv'
  BY <1>0 DEF ContextInv, Plain, UsesContext
<1>8. DoneRight'
  BY <1>0 DEF DoneRight
<1>9. SealedForOwner'
  BY <1>0 DEF SealedForOwner
<1> QED
  BY <1>1, <1>2, <1>3, <1>4, <1>5, <1>6, <1>7, <1>8, <1>9 DEF IInv

----------------------------------------------------------------------------
LEMMA NextPreserves == ASSUME IInv, [Next]_vars PROVE IInv'
<1>1. ASSUME UNCHANGED vars PROVE IInv'
  BY <1>1 DEF vars, clientVars, netVars, serverVars, portVars, putVars, ownVars, IInv, TypeOK,
              NetType, FlowInv, NonceInv, ServeInv, PortInv, PutInv, OnePut, DataInv, ContextInv,
              DoneRight, SealedForOwner, Plain, Accepted, UsesContext
<1>2. ASSUME NEW g \in Gets, NEW c \in Clients, NEW f \in Files, Get(g, c, f) PROVE IInv'
  BY <1>2, GetPreserves
<1>3. ASSUME NEW g \in Gets, ClientStep(g) PROVE IInv'
  BY <1>3, GetAuthPreserves, GetStartPreserves, GetFailsPreserves, GetThreadOutcomes,
     GetThreadDonePreserves, GetThreadFailedPreserves DEF ClientStep
<1>4. ASSUME NEW t \in Gets, PutStep(t) PROVE IInv'
  BY <1>4, PutStartPreserves, FindOutcomes, FindClosedPreserves, FindFilePreserves,
     FindCrashPreserves, FindNothingPreserves, HeaderOutcomes,
     HeaderOkPreserves, HeaderFailsPreserves, PutDataPreserves,
     PutEndPreserves DEF PutStep
<1>5. ASSUME PortStep PROVE IInv'
  BY <1>5, AcceptPreserves, PutPlainPreserves, PutChallengePreserves, PutVerifiedPreserves,
     PutRefusePreserves DEF PortStep
<1> QED
  BY <1>1, <1>2, <1>3, <1>4, <1>5, PutFreedPreserves, LosePreserves, ExpirePreserves,
     UnlinkPreserves, RescanPreserves, LeaveGroupPreserves DEF Next

LEMMA TransferInvariant == Spec => []IInv
<1>1. Init => IInv
  BY InitIInv
<1>2. IInv /\ [Next]_vars => IInv'
  BY NextPreserves
<1> QED
  BY <1>1, <1>2, PTL DEF Spec

\* The types of what the clients, the connections and the server keep.
THEOREM TransferTypeOK == Spec => []TypeOK
<1>1. IInv => TypeOK
  BY DEF IInv
<1> QED
  BY <1>1, TransferInvariant, PTL

\* A Get whose callback was told GET_DONE has the file it asked for; a part, or the page of
\* an error, only of a plain file whose connection was lost or that had gone from the disk.
THEOREM TransferDoneRight == Spec => []DoneRight
<1>1. IInv => DoneRight
  BY DEF IInv
<1> QED
  BY <1>1, TransferInvariant, PTL

\* PutAuth and PutThread send the files of the group to clients that have answered a
\* challenge for a certificate in the store, and seal the key of the group for them, as
\* long as no connection was accepted while an upload was using the context.
THEOREM TransferSealedForOwner == Spec => []SealedForOwner
<1>1. IInv => SealedForOwner
  BY DEF IInv
<1> QED
  BY <1>1, TransferInvariant, PTL
=============================================================================

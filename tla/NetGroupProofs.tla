---------------------------- MODULE NetGroupProofs ----------------------------
(***************************************************************************)
(* Proofs about modules TrutGroup and Connection.                          *)
(*                                                                         *)
(* TrutGroup: its types; a join that returns in silence has a Get under    *)
(* way that will answer it; and members agree on the key as long as joins  *)
(* do not overlap.                                                         *)
(*                                                                         *)
(* Connection: its types; no byte is lost, repeated or reordered; headers  *)
(* and contents come out whole.  The invariant RInv knows every byte by    *)
(* its place on the socket: those with the callers, those in the buffer    *)
(* and those given back are consecutive pieces of what the peer writes     *)
(* (Pieces).  Unget keeps that only if a header that may still be given    *)
(* back is what was taken last (Returnable), Open only if nothing given    *)
(* back survives Close (Clean), where the caller may have stopped in the   *)
(* middle of its one message.  Headers and Messages carry what HttpWhole   *)
(* promises through the steps of a call, Counted and Phases say which call *)
(* that can be.                                                            *)
(***************************************************************************)
EXTENDS TrutGroup, Connection, SequenceTheorems, NaturalsInduction, WellFoundedInduction, TLAPS

Packet == Rqst \cup Resp

\* The packets of a connection, or the items of any sequence.
Items(s) == {s[i] : i \in DOMAIN s}

\* Packets carry the number of a search that was begun, and an answer names a file.
NetInv ==
    /\ \A p, q \in Peers : \A m \in Items(net[p][q]) :
           m.guid \in 1..joins /\ (m.type = "resp" => m.refs # <<>>)
    /\ \A p, q \in Peers : work[p][q].stage # "idle" => work[p][q].refs # <<>>
    /\ \A p \in Peers : guid[p] <= joins /\ (pc[p] # "idle" => guid[p] # 0)

\* What TypeOK says of the variables, as far as sequences are not the point.
Typed ==
    /\ group \in [Peers -> Nat] /\ key \in [Peers -> Nat] /\ responses \in [Peers -> Nat]
    /\ DOMAIN told = Peers /\ DOMAIN entries = Peers
    /\ pc \in [Peers -> {"idle", "search", "sleep", "stop", "create"}]
    /\ guid \in [Peers -> Nat]
    /\ searches \in [Peers -> SUBSET [guid : Nat, group : Nat]]
    /\ DOMAIN net = Peers /\ \A p \in Peers : DOMAIN net[p] = Peers
    /\ DOMAIN work = Peers /\ \A p \in Peers : DOMAIN work[p] = Peers
    /\ \A p, q \in Peers : /\ DOMAIN work[p][q] = {"stage", "group", "refs"}
                           /\ work[p][q].stage \in {"idle", "scan", "get"}
                           /\ work[p][q].group \in Nat
    /\ DOMAIN gets = Peers
    /\ joins \in Nat /\ made \in Nat

\* An answer that was counted and not yet reported is one that a Get is after:
\* only then may JoinGroup return, which looks at the count.
Waiting(p) ==
    group[p] # 0 /\ key[p] = 0 /\ told[p] = "none" /\ (pc[p] = "idle" \/ responses[p] > 0)
        => Promised(p)

\* What a peer has to do with its group, if nobody has left one.
Own(p) ==
    /\ pc[p] # "idle" => group[p] # 0
    /\ \A s \in searches[p] : s.group = group[p]
    /\ \A q \in Peers : work[p][q].stage # "idle" => work[p][q].group = group[p]
    /\ \A g \in gets[p] : g.group = group[p]
    /\ group[p] = 0 => /\ searches[p] = {} /\ gets[p] = {} /\ key[p] = 0
                       /\ \A q \in Peers : work[p][q].stage = "idle"
    /\ key[p] = 0 <=> entries[p] = <<>>
    /\ key[p] = 0 => \A s \in searches[p] : s.guid = guid[p]
    /\ pc[p] = "sleep" => [guid |-> guid[p], group |-> group[p]] \in searches[p]
    /\ key[p] = 0 /\ responses[p] = 0 =>
           gets[p] = {} /\ \A q \in Peers : work[p][q].stage # "get"

\* The key is p's, or one that p shares or will share when the Get is done.
Held(p, k) ==
    \/ key[p] = k /\ k # 0
    \/ k \in Items(entries[p])
    \/ \E g \in gets[p] : g.key = k

OneKey == \A p, q \in Peers : \A k, l \in Nat : Held(p, k) /\ Held(q, l) => k = l

\* Nothing that is under way will bring q a key.
Quiet(q) ==
    /\ pc[q] \in {"idle", "search"}
    /\ gets[q] = {}
    /\ \A r \in Peers : work[q][r].stage # "get" /\ (key[q] = 0 => ~Outstanding(q, r))

\* While p joins the others are quiet; who has a key still has to answer p, or its
\* answer is under way; and when p makes a key there is none.
Joining(p) ==
    /\ pc[p] \in {"sleep", "stop", "create"} => \A q \in Peers \ {p} : Quiet(q)
    /\ pc[p] = "sleep" /\ key[p] = 0 /\ responses[p] = 0 =>
           \A q \in Peers \ {p} : entries[q] # <<>> => Outstanding(p, q)
    /\ pc[p] \in {"stop", "create"} => \A q \in Peers : entries[q] = <<>> /\ gets[q] = {}

SInv ==
    /\ TypeOK /\ NetInv
    /\ \A p \in Peers : Waiting(p)
    /\ smooth => OneKey /\ \A p \in Peers : Own(p) /\ Joining(p)

----------------------------------------------------------------------------
(* Packets and their answers *)

LEMMA ItemsOfSeqs ==
    ASSUME NEW S, NEW s \in Seq(S), NEW e \in S
    PROVE  /\ Items(Append(s, e)) = Items(s) \cup {e} /\ Append(s, e) \in Seq(S)
           /\ Items(s) \subseteq S
           /\ Items(s) = {} <=> s = <<>>
BY DEF Items

LEMMA MoreItems ==
    ASSUME NEW S, NEW T, S \subseteq T, NEW s \in Seq(S)
    PROVE  s \in Seq(T)
OBVIOUS

LEMMA Appended ==
    ASSUME NEW S, NEW s \in Seq(S), NEW t, t = <<>> \/ \E e \in S : t = <<e>>
    PROVE  /\ s \o t \in Seq(S)
           /\ t = <<>> => s \o t = s
           /\ \A e \in S : t = <<e>> => s \o t = Append(s, e)
<1>1. CASE t = <<>>
    BY <1>1
<1>2. ASSUME NEW e \in S, t = <<e>>
      PROVE  s \o t \in Seq(S) /\ t # <<>> /\ s \o t = Append(s, e)
    BY <1>2
<1> QED BY <1>1, <1>2

LEMMA Rest ==
    ASSUME NEW S, NEW s \in Seq(S), s # <<>>, NEW n \in 0..(Len(s) - 1)
    PROVE  /\ Head(s) \in Items(s) /\ Head(s) \in S
           /\ ReceiveGnutella(s, n) \in Seq(S)
           /\ Items(ReceiveGnutella(s, n)) \subseteq Items(s)
           /\ n = 0 => Items(s) = Items(ReceiveGnutella(s, n)) \cup {Head(s)}
<1> DEFINE t == ReceiveGnutella(s, n)
<1>1. t \in Seq(S) /\ Len(t) = Len(s) - 1 - n /\ \A i \in 1..Len(t) : t[i] = s[i + 1 + n]
    BY DEF ReceiveGnutella
<1>2. Head(s) = s[1] /\ 1 \in DOMAIN s
    OBVIOUS
<1>3. \A i \in DOMAIN t : i + 1 + n \in DOMAIN s
    BY <1>1
<1>4. n = 0 => \A i \in DOMAIN s : i = 1 \/ (i - 1 \in DOMAIN t /\ s[i] = t[i - 1])
    BY <1>1
<1> QED BY <1>1, <1>2, <1>3, <1>4 DEF Items

LEMMA PacketKinds ==
    \A m \in Packet :
        /\ m.guid \in Nat /\ (m.type = "rqst" \/ m.type = "resp")
        /\ m.type = "resp" => m.refs \in Seq(Nat)
BY DEF Packet, Rqst, Resp

\* What HandleSearchRequest answers.
LEMMA Answer ==
    ASSUME TypeOK, NEW p \in Peers, NEW m \in Packet, NEW a, a = HandleSearchRequest(p, m)
    PROVE  \/ entries[p] = <<>> /\ a = <<>>
           \/ /\ entries[p] # <<>>
              /\ \E e \in Packet : /\ a = <<e>> /\ e.type = "resp" /\ e.guid = m.guid
                                   /\ e.refs # <<>>
<1> DEFINE refs == SX!Reverse([i \in DOMAIN entries[p] |-> i])
           e == [type |-> "resp", guid |-> m.guid, refs |-> refs]
<1>1. entries[p] \in Seq(Keys)
    BY DEF TypeOK
<1>2. [i \in DOMAIN entries[p] |-> i] \in Seq(Nat)
    BY <1>1
<1>3. refs \in Seq(Nat) /\ (entries[p] # <<>> => refs # <<>>)
    BY <1>1, <1>2 DEF SX!Reverse
<1> HIDE DEF refs
<1>4. e \in Packet /\ e.type = "resp" /\ e.guid = m.guid /\ e.refs = refs
    BY <1>3, PacketKinds DEF Packet, Resp
<1> HIDE DEF e
<1>5. entries[p] # <<>> => a = <<e>>
    BY DEF HandleSearchRequest, refs, e
<1> QED BY <1>3, <1>4, <1>5 DEF HandleSearchRequest

LEMMA Types == ASSUME TypeOK PROVE Typed
<1>1. key \in [Peers -> Nat] /\ DOMAIN entries = Peers
    BY DEF TypeOK, Keys
<1>2. DOMAIN net = Peers /\ \A p \in Peers : DOMAIN net[p] = Peers
    BY DEF TypeOK
<1>3. /\ DOMAIN work = Peers /\ \A p \in Peers : DOMAIN work[p] = Peers
      /\ \A p, q \in Peers : /\ DOMAIN work[p][q] = {"stage", "group", "refs"}
                             /\ work[p][q].stage \in {"idle", "scan", "get"}
                             /\ work[p][q].group \in Nat
    <2>1. \A p, q \in Peers :
              work[p][q] \in [stage : {"idle", "scan", "get"}, group : Nat, refs : Seq(Nat)]
        BY DEF TypeOK
    <2> QED BY <2>1 DEF TypeOK
<1>4. /\ group \in [Peers -> Nat] /\ responses \in [Peers -> Nat] /\ DOMAIN told = Peers
      /\ pc \in [Peers -> {"idle", "search", "sleep", "stop", "create"}]
      /\ guid \in [Peers -> Nat] /\ DOMAIN gets = Peers
      /\ searches \in [Peers -> SUBSET [guid : Nat, group : Nat]]
      /\ joins \in Nat /\ made \in Nat
    BY GroupAssumption DEF TypeOK
<1> QED BY <1>1, <1>2, <1>3, <1>4 DEF Typed

\* A host thread's next file.
LEMMA NextFiles ==
    ASSUME NEW w \in [stage : {"idle", "scan", "get"}, group : Nat, refs : Seq(Nat)], w.refs # <<>>
    PROVE  LET x == NextFile(w)
           IN  /\ x \in [stage : {"idle", "scan", "get"}, group : Nat, refs : Seq(Nat)]
               /\ x = Idle \/ (x.stage = "scan" /\ x.group = w.group /\ x.refs # <<>>)
<1> DEFINE x == NextFile(w)
<1>1. CASE Len(w.refs) = 1
    BY <1>1 DEF NextFile, Idle
<1>2. CASE Len(w.refs) # 1
    <2>1. Tail(w.refs) \in Seq(Nat) /\ Tail(w.refs) # <<>>
        <3>1. ASSUME NEW s \in Seq(Nat), s # <<>>, Len(s) # 1
              PROVE  Tail(s) \in Seq(Nat) /\ Tail(s) # <<>>
            <4>1. Tail(s) \in Seq(Nat) /\ Len(Tail(s)) = Len(s) - 1
                BY <3>1, HeadTailProperties
            <4>2. Len(s) \in Nat /\ Len(<<>>) = 0
                OBVIOUS
            <4>3. Len(Tail(s)) # 0
                BY <3>1, <4>1, <4>2
            <4> QED BY <4>1, <4>2, <4>3
        <3> QED BY <1>2, <3>1
    <2>2. x = [w EXCEPT !.stage = "scan", !.refs = Tail(@)]
        BY <1>2 DEF NextFile
    <2>3. x.stage = "scan" /\ x.group = w.group /\ x.refs = Tail(w.refs)
        BY <2>2
    <2>4. x \in [stage : {"idle", "scan", "get"}, group : Nat, refs : Seq(Nat)]
        BY <2>1, <2>2
    <2> QED BY <2>1, <2>3, <2>4
<1> QED BY <1>1, <1>2

\* What HandleSearchResponse makes of an answer.
LEMMA Responses ==
    ASSUME TypeOK, NEW p \in Peers, NEW m \in Packet, m.type = "resp"
    PROVE  LET x == HandleSearchResponse(p, m)
           IN  /\ x \in [stage : {"idle", "scan", "get"}, group : Nat, refs : Seq(Nat)]
               /\ \/ x = Idle /\ ~\E s \in searches[p] : s.guid = m.guid
                  \/ /\ x.stage = "scan" /\ x.refs = m.refs
                     /\ \E s \in searches[p] : s.guid = m.guid /\ s.group = x.group
<1> DEFINE asked == {s \in searches[p] : s.guid = m.guid}
           x == HandleSearchResponse(p, m)
<1>1. CASE asked = {}
    BY <1>1 DEF HandleSearchResponse, Idle
<1>2. CASE asked # {}
    <2>1. PICK s \in asked : s = CHOOSE c \in asked : TRUE
        BY <1>2
    <2>2. x = [stage |-> "scan", group |-> s.group, refs |-> m.refs]
        BY <1>2, <2>1 DEF HandleSearchResponse
    <2>3. s.group \in Nat /\ m.refs \in Seq(Nat)
        BY PacketKinds DEF TypeOK
    <2> QED BY <2>2, <2>3
<1> QED BY <1>1, <1>2

\* p's host thread for q takes the packet m, and perhaps loses others with it.
Takes(p, q, m) ==
    /\ m \in Packet /\ net' \in [Peers -> [Peers -> Seq(Packet)]]
    /\ \A a, b \in Peers : ~(a = q /\ b = p) /\ ~(a = p /\ b = q) => net'[a][b] = net[a][b]
    /\ Items(net'[q][p]) \subseteq Items(net[q][p])
    /\ smooth' => smooth /\ Items(net[q][p]) = Items(net'[q][p]) \cup {m}
    /\ \/ /\ m.type = "rqst" /\ work' = work
          /\ \/ entries[p] = <<>> /\ net'[p][q] = net[p][q]
             \/ /\ entries[p] # <<>>
                /\ \E e \in Packet : /\ e.type = "resp" /\ e.guid = m.guid /\ e.refs # <<>>
                                     /\ Items(net'[p][q]) = Items(net[p][q]) \cup {e}
       \/ /\ m.type = "resp" /\ net'[p][q] = net[p][q]
          /\ work' = [work EXCEPT ![p][q] = HandleSearchResponse(p, m)]

\* One packet is taken, with those lost behind it, and a request may be answered.
LEMMA Received ==
    ASSUME TypeOK, NEW p \in Peers, NEW q \in Peers \ {p}, Receive(p, q)
    PROVE  \E m \in Items(net[q][p]) : Takes(p, q, m)
<1>0. net \in [Peers -> [Peers -> Seq(Packet)]]
    BY DEF TypeOK, Packet
<1>1. net[q][p] \in Seq(Packet) /\ net[p][q] \in Seq(Packet) /\ net[q][p] # <<>>
    BY <1>0 DEF Receive
<1>2. PICK n \in 0..(Len(net[q][p]) - 1) :
          /\ \/ /\ Head(net[q][p]).type = "rqst"
                /\ net' = [net EXCEPT ![q][p] = ReceiveGnutella(net[q][p], n),
                                      ![p][q] = @ \o HandleSearchRequest(p, Head(net[q][p]))]
                /\ UNCHANGED work
             \/ /\ Head(net[q][p]).type = "resp"
                /\ net' = [net EXCEPT ![q][p] = ReceiveGnutella(net[q][p], n)]
                /\ work' = [work EXCEPT ![p][q] = HandleSearchResponse(p, Head(net[q][p]))]
          /\ smooth' = (smooth /\ n = 0)
    BY DEF Receive
<1>3. PICK m \in Packet : m = Head(net[q][p]) /\ m \in Items(net[q][p])
    BY <1>1, <1>2, Rest
<1>4. PICK rest \in Seq(Packet) : /\ rest = ReceiveGnutella(net[q][p], n)
                                  /\ Items(rest) \subseteq Items(net[q][p])
                                  /\ n = 0 => Items(net[q][p]) = Items(rest) \cup {m}
    BY <1>1, <1>2, <1>3, Rest
<1>5. CASE m.type = "resp"
    <2>1. /\ net' = [net EXCEPT ![q][p] = rest]
          /\ work' = [work EXCEPT ![p][q] = HandleSearchResponse(p, m)]
        BY <1>2, <1>3, <1>4, <1>5
    <2>2. net'[q][p] = rest /\ net'[p][q] = net[p][q]
        BY <1>0, <2>1
    <2>3. \A a, b \in Peers : ~(a = q /\ b = p) => net'[a][b] = net[a][b]
        BY <1>0, <2>1
    <2>4. net' \in [Peers -> [Peers -> Seq(Packet)]]
        BY <1>0, <1>4, <2>1
    <2> QED BY <1>2, <1>3, <1>4, <1>5, <2>1, <2>2, <2>3, <2>4 DEF Takes
<1>6. CASE m.type = "rqst"
    <2>1. PICK a : a = HandleSearchRequest(p, m)
        OBVIOUS
    <2>2. work' = work /\ net' = [net EXCEPT ![q][p] = rest, ![p][q] = @ \o a]
        BY <1>2, <1>3, <1>4, <1>6, <2>1
    <2>3. \/ entries[p] = <<>> /\ a = <<>>
          \/ /\ entries[p] # <<>>
             /\ \E e \in Packet : /\ a = <<e>> /\ e.type = "resp" /\ e.guid = m.guid
                                  /\ e.refs # <<>>
        BY <2>1, Answer
    <2>4. /\ net[p][q] \o a \in Seq(Packet)
          /\ \/ entries[p] = <<>> /\ net[p][q] \o a = net[p][q]
             \/ /\ entries[p] # <<>>
                /\ \E e \in Packet : /\ e.type = "resp" /\ e.guid = m.guid /\ e.refs # <<>>
                                     /\ Items(net[p][q] \o a) = Items(net[p][q]) \cup {e}
        <3>1. CASE a = <<>>
            BY <1>1, <2>3, <3>1, Appended
        <3>2. ASSUME NEW e \in Packet, a = <<e>>
              PROVE  /\ net[p][q] \o a \in Seq(Packet)
                     /\ Items(net[p][q] \o a) = Items(net[p][q]) \cup {e}
            <4>1. net[p][q] \o a \in Seq(Packet) /\ net[p][q] \o a = Append(net[p][q], e)
                BY <1>1, <3>2, Appended
            <4> QED BY <1>1, <4>1, ItemsOfSeqs
        <3> QED BY <2>3, <3>1, <3>2
    <2>5. net'[q][p] = rest /\ net'[p][q] = net[p][q] \o a
        BY <1>0, <2>2
    <2>6. \A b, c \in Peers : ~(b = q /\ c = p) /\ ~(b = p /\ c = q) => net'[b][c] = net[b][c]
        BY <1>0, <2>2
    <2>7. net' \in [Peers -> [Peers -> Seq(Packet)]]
        BY <1>0, <1>4, <2>2, <2>4
    <2>8. \/ entries[p] = <<>> /\ net'[p][q] = net[p][q]
          \/ /\ entries[p] # <<>>
             /\ \E e \in Packet : /\ e.type = "resp" /\ e.guid = m.guid /\ e.refs # <<>>
                                  /\ Items(net'[p][q]) = Items(net[p][q]) \cup {e}
        BY <2>4, <2>5
    <2>9. /\ Items(net'[q][p]) \subseteq Items(net[q][p])
          /\ smooth' => smooth /\ Items(net[q][p]) = Items(net'[q][p]) \cup {m}
        BY <1>2, <1>4, <2>5
    <2> QED BY <1>3, <1>6, <2>2, <2>6, <2>7, <2>8, <2>9 DEF Takes
<1> QED BY <1>3, <1>5, <1>6, PacketKinds

\* A step of a host thread at the answer it has in hand.
Handles(p, q) == FindKey(p, q) \/ Grant(p, q) \/ Refuse(p, q)

LEMMA Handled ==
    ASSUME TypeOK, NetInv, NEW p \in Peers, NEW q \in Peers, Handles(p, q)
    PROVE  /\ work[p][q].stage # "idle"
           /\ work' \in [Peers -> [Peers ->
                  [stage : {"idle", "scan", "get"}, group : Nat, refs : Seq(Nat)]]]
           /\ \A a, b \in Peers : ~(a = p /\ b = q) => work'[a][b] = work[a][b]
           /\ \/ work'[p][q] = Idle
              \/ /\ work'[p][q].stage \in {"scan", "get"} /\ work'[p][q].refs # <<>>
                 /\ work'[p][q].group = work[p][q].group
           /\ work'[p][q].stage = "get" => FindKey(p, q)
<1> DEFINE W == [stage : {"idle", "scan", "get"}, group : Nat, refs : Seq(Nat)]
<1>0. work \in [Peers -> [Peers -> W]]
    BY DEF TypeOK
<1>1. PICK w \in W : w = work[p][q] /\ w.stage # "idle" /\ w.refs # <<>>
    BY <1>0 DEF Handles, FindKey, Grant, Refuse, NetInv
<1>2. PICK x \in W : x = NextFile(w) /\ (x = Idle \/ (x.stage = "scan" /\ x.group = w.group /\ x.refs # <<>>))
    BY <1>1, NextFiles
<1>3. PICK y \in W : /\ y = [w EXCEPT !.stage = "get"]
                     /\ y.stage = "get" /\ y.group = w.group /\ y.refs = w.refs
    <2>1. /\ [w EXCEPT !.stage = "get"] \in W
          /\ [w EXCEPT !.stage = "get"].stage = "get"
          /\ [w EXCEPT !.stage = "get"].group = w.group
          /\ [w EXCEPT !.stage = "get"].refs = w.refs
        OBVIOUS
    <2> QED BY <2>1
<1>4. \/ work' = [work EXCEPT ![p][q] = x]
      \/ work' = [work EXCEPT ![p][q] = y] /\ FindKey(p, q)
    BY <1>0, <1>1, <1>2, <1>3 DEF Handles, FindKey, Grant, Refuse
<1> HIDE DEF W
<1>5. PICK z \in W : /\ work' = [work EXCEPT ![p][q] = z]
                     /\ z = x \/ (z = y /\ FindKey(p, q))
    BY <1>4
<1>6. /\ work' \in [Peers -> [Peers -> W]] /\ work'[p][q] = z
      /\ \A a, b \in Peers : ~(a = p /\ b = q) => work'[a][b] = work[a][b]
    BY <1>0, <1>5
<1>7. Idle.stage = "idle"
    BY DEF Idle
<1> QED BY <1>1, <1>2, <1>3, <1>5, <1>6, <1>7 DEF W

\* What an action has to keep of the packets and of the answers in hand.
LEMMA NetKept ==
    ASSUME NetInv, joins \in Nat, joins' \in Nat, joins <= joins',
           \A a, b \in Peers : work'[a][b] = work[a][b] \/ work'[a][b].stage = "idle"
                               \/ work'[a][b].refs # <<>>,
           \A a, b \in Peers : \A e \in Items(net'[a][b]) :
               e \in Items(net[a][b]) \/ (e.guid \in 1..joins /\ (e.type = "resp" => e.refs # <<>>)),
           \A a \in Peers : guid'[a] <= joins' /\ (pc'[a] # "idle" => guid'[a] # 0)
    PROVE  NetInv'
<1>1. \A n \in Int : n \in 1..joins => n \in 1..joins'
    OBVIOUS
<1>2. ASSUME NEW a \in Peers, NEW b \in Peers, NEW e \in Items(net'[a][b])
      PROVE  e.guid \in 1..joins' /\ (e.type = "resp" => e.refs # <<>>)
    <2>1. e.guid \in 1..joins /\ (e.type = "resp" => e.refs # <<>>)
        BY <1>2 DEF NetInv
    <2> QED BY <1>1, <2>1
<1>3. \A a, b \in Peers : work'[a][b].stage # "idle" => work'[a][b].refs # <<>>
    BY DEF NetInv
<1> QED BY <1>2, <1>3 DEF NetInv

LEMMA StepKeepsTypes ==
    ASSUME TypeOK, NetInv, [Next]_vars
    PROVE  TypeOK' /\ NetInv'
<1> DEFINE W == [stage : {"idle", "scan", "get"}, group : Nat, refs : Seq(Nat)]
           G == [from : Peers, ref : Nat, key : Keys, group : Nat]
           Others == /\ group' \in [Peers -> Nat] /\ responses' \in [Peers -> Nat]
                     /\ told' \in [Peers -> {"none", "OK", "CREATED", "ERROR"}]
                     /\ pc' \in [Peers -> {"idle", "search", "sleep", "stop", "create"}]
                     /\ guid' \in [Peers -> Nat]
                     /\ searches' \in [Peers -> SUBSET [guid : Nat, group : Nat]]
                     /\ joins' \in 0..MaxJoins /\ restarts' \in 0..MaxRestarts /\ smooth' \in BOOLEAN
<1> USE GroupAssumption
<1>0. Typed
    BY Types
<1>a. /\ net \in [Peers -> [Peers -> Seq(Packet)]] /\ work \in [Peers -> [Peers -> W]]
      /\ entries \in [Peers -> Seq(Keys)] /\ gets \in [Peers -> SUBSET G]
      /\ key \in [Peers -> Keys \cup {0}]
    BY DEF TypeOK, Packet
<1>t. /\ group \in [Peers -> Nat] /\ responses \in [Peers -> Nat]
      /\ told \in [Peers -> {"none", "OK", "CREATED", "ERROR"}]
      /\ pc \in [Peers -> {"idle", "search", "sleep", "stop", "create"}]
      /\ guid \in [Peers -> Nat]
      /\ searches \in [Peers -> SUBSET [guid : Nat, group : Nat]]
      /\ joins \in 0..MaxJoins /\ restarts \in 0..MaxRestarts /\ smooth \in BOOLEAN
      /\ made \in Nat
    BY DEF TypeOK
<1>b. ASSUME Others, net' \in [Peers -> [Peers -> Seq(Packet)]], work' \in [Peers -> [Peers -> W]],
             made' = made, key' \in [Peers -> Keys \cup {0}],
             entries' \in [Peers -> Seq(Keys)], gets' \in [Peers -> SUBSET G]
      PROVE  TypeOK'
    <2>1. Keys' = Keys
        BY <1>b DEF Keys
    <2> QED BY <1>t, <1>b, <2>1 DEF TypeOK, Packet, Rqst, Resp
<1>1. CASE UNCHANGED vars
    BY <1>1 DEF vars, TypeOK, NetInv, Keys
<1>2. ASSUME NEW p \in Peers, JoinCall(p) PROVE TypeOK' /\ NetInv'
    <2>1. Others /\ UNCHANGED <<key, entries, net, work, gets, made>>
        BY <1>2, <1>t DEF JoinCall, Tell, Goto
    <2>2. /\ joins <= joins' /\ joins' \in Nat
          /\ \A q \in Peers : guid'[q] <= joins' /\ (pc'[q] # "idle" => guid'[q] # 0)
        BY <1>2, <1>t DEF JoinCall, Goto, NetInv
    <2> HIDE DEF W, G, Others
    <2>3. NetInv'
        BY <1>t, <2>1, <2>2, NetKept
    <2> QED BY <1>a, <1>b, <2>1, <2>3
<1>3. ASSUME NEW p \in Peers, JoinSearch(p) PROVE TypeOK' /\ NetInv'
    <2> DEFINE m == [type |-> "rqst", guid |-> guid[p]]
    <2>1. Others /\ UNCHANGED <<key, entries, work, gets, made, joins, guid>>
        BY <1>3, <1>t DEF JoinSearch, Goto
    <2>2. m \in Packet /\ m.guid \in 1..joins /\ m.type # "resp"
        BY <1>3, <1>t DEF JoinSearch, NetInv, Packet, Rqst
    <2>3. net' = [net EXCEPT ![p] = [q \in Peers |-> IF q = p THEN net[p][q] ELSE Append(net[p][q], m)]]
        BY <1>3 DEF JoinSearch
    <2> HIDE DEF m
    <2>4. \A q \in Peers : Append(net[p][q], m) \in Seq(Packet)
                           /\ Items(Append(net[p][q], m)) = Items(net[p][q]) \cup {m}
        BY <1>a, <2>2, ItemsOfSeqs
    <2>5. /\ net' \in [Peers -> [Peers -> Seq(Packet)]]
          /\ \A a, b \in Peers : \/ net'[a][b] = net[a][b]
                                 \/ Items(net'[a][b]) = Items(net[a][b]) \cup {m}
        BY <1>a, <2>3, <2>4
    <2>6. \A q \in Peers : guid'[q] <= joins' /\ (pc'[q] # "idle" => guid'[q] # 0)
        BY <1>3, <1>t, <2>1 DEF JoinSearch, Goto, NetInv
    <2>7. ASSUME NEW a \in Peers, NEW b \in Peers, NEW e \in Items(net'[a][b])
          PROVE  e \in Items(net[a][b]) \/ (e.guid \in 1..joins /\ (e.type = "resp" => e.refs # <<>>))
        <3>1. e \in Items(net[a][b]) \/ e = m
            <4>1. net'[a][b] = net[a][b] \/ Items(net'[a][b]) = Items(net[a][b]) \cup {m}
                BY <2>5
            <4>2. net'[a][b] = net[a][b] => Items(net'[a][b]) = Items(net[a][b])
                OBVIOUS
            <4> QED BY ONLY <2>7, <4>1, <4>2
        <3> QED BY <2>2, <3>1
    <2> HIDE DEF W, G, Others
    <2> QED BY <1>a, <1>b, NetKept, <1>t, <2>1, <2>5, <2>6, <2>7
<1>4. ASSUME NEW p \in Peers, JoinWake(p) \/ JoinStop(p) \/ Leave(p) PROVE TypeOK' /\ NetInv'
    <2>1. Others /\ UNCHANGED <<entries, net, work, gets, made, joins, guid>>
        <3>1. CASE JoinWake(p)
            BY <1>t, <3>1 DEF JoinWake, Goto
        <3>2. CASE JoinStop(p)
            BY <1>t, <3>2 DEF JoinStop, Goto
        <3>3. CASE Leave(p)
            BY <1>t, <3>3 DEF Leave, Tell
        <3> QED BY <1>4, <3>1, <3>2, <3>3
    <2>3. key' \in [Peers -> Keys \cup {0}]
        BY <1>4, <1>a DEF JoinWake, JoinStop, Leave
    <2>2. \A q \in Peers : guid'[q] <= joins' /\ (pc'[q] # "idle" => guid'[q] # 0)
        BY <1>4, <1>t, <2>1 DEF JoinWake, JoinStop, Leave, Goto, NetInv
    <2> HIDE DEF W, G, Others
    <2> QED BY <1>a, <1>b, NetKept, <1>t, <2>1, <2>2, <2>3
<1>5. ASSUME NEW p \in Peers, JoinCreate(p) PROVE TypeOK' /\ NetInv'
    <2>1. Others /\ UNCHANGED <<net, work, gets, joins, guid>> /\ made' = made + 1
        BY <1>5, <1>t DEF JoinCreate, Goto, Tell
    <2>2. PICK K : /\ K = Keys' /\ Keys \subseteq K /\ made' \in K
        BY <1>t, <2>1 DEF Keys
    <2>3. key' \in [Peers -> K \cup {0}]
        BY <1>5, <1>a, <2>2 DEF JoinCreate
    <2>5. entries \in [Peers -> Seq(K)]
        BY <1>a, <2>2, MoreItems
    <2>4. Append(entries[p], made') \in Seq(K)
        BY <2>2, <2>5, ItemsOfSeqs
    <2>6. entries' \in [Peers -> Seq(K)]
        BY <1>5, <2>4, <2>5 DEF JoinCreate
    <2>7. gets' \in [Peers -> SUBSET [from : Peers, ref : Nat, key : K, group : Nat]]
        <3>1. G \subseteq [from : Peers, ref : Nat, key : K, group : Nat]
            BY <2>2
        <3> HIDE DEF G
        <3> QED BY <1>a, <2>1, <3>1
    <2>8. TypeOK'
        <3>1. made' \in Nat /\ net' \in [Peers -> [Peers -> Seq(Packet)]] /\ work' \in [Peers -> [Peers -> W]]
            BY <1>a, <1>t, <2>1
        <3> QED BY <2>1, <2>2, <2>3, <2>6, <2>7, <3>1 DEF TypeOK, Packet, Rqst, Resp
    <2>9. \A q \in Peers : guid'[q] <= joins' /\ (pc'[q] # "idle" => guid'[q] # 0)
        BY <1>5, <1>t, <2>1 DEF JoinCreate, Goto, NetInv
    <2> HIDE DEF W, G, Others
    <2> QED BY NetKept, <1>t, <2>1, <2>8, <2>9
<1>6. ASSUME NEW p \in Peers, NEW q \in Peers \ {p}, Receive(p, q) PROVE TypeOK' /\ NetInv'
    <2>1. Others /\ UNCHANGED <<key, entries, gets, made, joins, guid, pc>>
        BY <1>6, <1>t DEF Receive
    <2>2. PICK m \in Items(net[q][p]) : Takes(p, q, m)
        BY <1>6, Received
    <2>3. m.guid \in 1..joins /\ (m.type = "resp" => m.refs # <<>>)
        BY DEF NetInv
    <2>4. \A a, b \in Peers : \A e \in Items(net'[a][b]) :
              e \in Items(net[a][b]) \/ (e.guid \in 1..joins /\ (e.type = "resp" => e.refs # <<>>))
        <3>1. ASSUME NEW a \in Peers, NEW b \in Peers, NEW e \in Items(net'[a][b])
              PROVE  \/ e \in Items(net[a][b])
                     \/ e.type = "resp" /\ e.guid = m.guid /\ e.refs # <<>>
            <4>1. CASE ~(a = q /\ b = p) /\ ~(a = p /\ b = q)
                <5>1. net'[a][b] = net[a][b]
                    BY <2>2, <4>1 DEF Takes
                <5> QED BY <5>1, <3>1
            <4>2. CASE a = q /\ b = p
                BY <2>2, <3>1, <4>2 DEF Takes
            <4>3. CASE a = p /\ b = q
                <5>1. \/ net'[p][q] = net[p][q]
                      \/ \E x \in Packet : /\ x.type = "resp" /\ x.guid = m.guid /\ x.refs # <<>>
                                           /\ Items(net'[p][q]) = Items(net[p][q]) \cup {x}
                    BY <2>2 DEF Takes
                <5>2. CASE net'[p][q] = net[p][q]
                    BY <3>1, <4>3, <5>2
                <5>3. ASSUME NEW x \in Packet, x.type = "resp", x.guid = m.guid, x.refs # <<>>,
                             Items(net'[p][q]) = Items(net[p][q]) \cup {x}
                      PROVE  \/ e \in Items(net[a][b])
                             \/ e.type = "resp" /\ e.guid = m.guid /\ e.refs # <<>>
                    BY <3>1, <4>3, <5>3
                <5> QED BY <5>1, <5>2, <5>3
            <4> QED BY <4>1, <4>2, <4>3
        <3> QED BY <2>3, <3>1
    <2>5. \A a \in Peers : guid'[a] <= joins' /\ (pc'[a] # "idle" => guid'[a] # 0)
        BY <2>1 DEF NetInv
    <2>6. CASE work' = work
        <3> HIDE DEF W, G, Others
        <3> QED BY <1>a, <1>b, NetKept, <1>t, <2>1, <2>2, <2>4, <2>5, <2>6 DEF Takes
    <2>7. CASE m.type = "resp" /\ work' = [work EXCEPT ![p][q] = HandleSearchResponse(p, m)]
        <3>1. PICK x \in W : /\ x = HandleSearchResponse(p, m)
                             /\ x = Idle \/ (x.stage = "scan" /\ x.refs = m.refs)
            BY <2>2, <2>7, Responses DEF Takes
        <3> HIDE DEF W, G
        <3>2. /\ work' \in [Peers -> [Peers -> W]] /\ work'[p][q] = x
              /\ \A a, b \in Peers : ~(a = p /\ b = q) => work'[a][b] = work[a][b]
            BY <1>a, <2>7, <3>1
        <3>3. x.stage # "idle" => x.refs # <<>>
            BY <2>3, <2>7, <3>1 DEF Idle
        <3>4. NetInv'
            BY NetKept, <1>t, <2>1, <2>4, <2>5, <3>2, <3>3
        <3> HIDE DEF Others
        <3> QED BY <1>a, <1>b, <2>1, <2>2, <3>2, <3>4 DEF Takes
    <2> QED BY <2>2, <2>6, <2>7 DEF Takes
<1>7. ASSUME NEW p \in Peers, NEW q \in Peers, Handles(p, q) PROVE TypeOK' /\ NetInv'
    <2>1. Others /\ UNCHANGED <<key, entries, net, made, joins, guid, pc>>
        BY <1>7, <1>t DEF Handles, FindKey, Grant, Refuse, Report, Tell
    <2>2. /\ work' \in [Peers -> [Peers -> W]]
          /\ \A a, b \in Peers : ~(a = p /\ b = q) => work'[a][b] = work[a][b]
          /\ work'[p][q].stage = "idle" \/ work'[p][q].refs # <<>>
        BY <1>7, Handled DEF Idle
    <2>3. gets' \in [Peers -> SUBSET G]
        <3>1. CASE Grant(p, q)
            <4>1. PICK ref \in DOMAIN entries[q] :
                      gets' = [gets EXCEPT ![p] = @ \cup
                          {[from |-> q, ref |-> ref, key |-> entries[q][ref], group |-> work[p][q].group]}]
                BY <3>1 DEF Grant
            <4>2. entries[q] \in Seq(Keys)
                BY <1>a
            <4>3. ref \in Nat /\ entries[q][ref] \in Keys
                BY <4>2
            <4>4. work[p][q].group \in Nat
                BY <1>0 DEF Typed
            <4>5. [from |-> q, ref |-> ref, key |-> entries[q][ref], group |-> work[p][q].group] \in G
                BY <4>3, <4>4
            <4> HIDE DEF G
            <4> QED BY <1>a, <4>1, <4>5
        <3>2. CASE FindKey(p, q) \/ Refuse(p, q)
            BY <1>a, <3>2 DEF FindKey, Refuse
        <3> QED BY <1>7, <3>1, <3>2 DEF Handles
    <2>4. NetInv'
        <3>1. \A a \in Peers : guid'[a] <= joins' /\ (pc'[a] # "idle" => guid'[a] # 0)
            BY <2>1 DEF NetInv
        <3>2. \A a, b \in Peers : work'[a][b] = work[a][b] \/ work'[a][b].stage = "idle"
                                  \/ work'[a][b].refs # <<>>
            BY <2>2
        <3> QED BY <1>t, <2>1, <3>1, <3>2, NetKept
    <2> HIDE DEF W, G, Others
    <2> QED BY <1>a, <1>b, <2>1, <2>2, <2>3, <2>4
<1>8. ASSUME NEW p \in Peers, NEW g \in gets[p], FetchKey(p, g) PROVE TypeOK' /\ NetInv'
    <2>1. Others /\ UNCHANGED <<net, work, made, joins, guid, pc>> /\ gets' \in [Peers -> SUBSET G]
        BY <1>8, <1>a, <1>t DEF FetchKey, Report, Tell
    <2>2. g.key \in Keys
        BY <1>a
    <2>3. key' \in [Peers -> Keys \cup {0}]
        BY <1>8, <1>a, <2>2 DEF FetchKey
    <2>4. entries[p] \in Seq(Keys) /\ Append(entries[p], g.key) \in Seq(Keys)
        BY <1>a, <2>2, ItemsOfSeqs
    <2>5. entries' \in [Peers -> Seq(Keys)]
        BY <1>8, <1>a, <2>4 DEF FetchKey
    <2>6. NetInv'
        BY <2>1 DEF NetInv
    <2> HIDE DEF W, G, Others
    <2> QED BY <1>a, <1>b, <2>1, <2>3, <2>5, <2>6
<1>9. ASSUME NEW p \in Peers, Restart(p) PROVE TypeOK' /\ NetInv'
    <2>1. Others /\ UNCHANGED <<made, joins>>
        BY <1>9, <1>t DEF Restart, Goto, Tell
    <2>2. /\ key' \in [Peers -> Keys \cup {0}] /\ gets' \in [Peers -> SUBSET G]
          /\ entries' \in [Peers -> Seq(Keys)]
        BY <1>9, <1>a DEF Restart
    <2>3. net' \in [Peers -> [Peers -> Seq(Packet)]]
        BY <1>9, <1>a DEF Restart
    <2>4. \A a, b \in Peers : net'[a][b] = net[a][b] \/ net'[a][b] = <<>>
        BY <1>9, <1>a DEF Restart
    <2>5. Idle \in W /\ Idle.stage = "idle"
        BY DEF Idle
    <2>6. work' \in [Peers -> [Peers -> W]]
        BY <1>9, <1>a, <2>5 DEF Restart
    <2>7. \A a, b \in Peers : work'[a][b] = work[a][b] \/ work'[a][b] = Idle
        BY <1>9, <1>a DEF Restart
    <2>8. \A a, b \in Peers : Items(net'[a][b]) \subseteq Items(net[a][b])
        BY <2>4 DEF Items
    <2>9. \A a \in Peers : guid'[a] <= joins' /\ (pc'[a] # "idle" => guid'[a] # 0)
        BY <1>9, <1>t, <2>1 DEF Restart, Goto, NetInv
    <2>10. NetInv'
        <3>1. \A a, b \in Peers : work'[a][b] = work[a][b] \/ work'[a][b].stage = "idle"
                                  \/ work'[a][b].refs # <<>>
            BY <2>5, <2>7
        <3>2. \A a, b \in Peers : \A e \in Items(net'[a][b]) :
                  e \in Items(net[a][b]) \/ (e.guid \in 1..joins /\ (e.type = "resp" => e.refs # <<>>))
            BY <2>8
        <3> QED BY <1>t, <2>1, <2>9, <3>1, <3>2, NetKept
    <2> HIDE DEF W, G, Others
    <2> QED BY <1>b, <2>1, <2>2, <2>3, <2>6, <2>10
<1>10. ASSUME NEW p \in Peers, NEW q \in Peers \ {p}, Misread(p, q) PROVE TypeOK' /\ NetInv'
    <2>1. Others /\ UNCHANGED <<key, entries, gets, made, joins, guid, pc, work>>
        BY <1>10, <1>t DEF Misread
    <2>2. net[q][p] \in Seq(Packet) /\ net[q][p] # <<>>
        BY <1>10, <1>a DEF Misread
    <2>3. PICK rest \in Seq(Packet) : /\ rest = ReceiveGnutella(net[q][p], 0)
                                      /\ Items(rest) \subseteq Items(net[q][p])
        <3>1. 0 \in 0..(Len(net[q][p]) - 1)
            BY <2>2
        <3> QED BY <2>2, <3>1, Rest
    <2>4. net' = [net EXCEPT ![q][p] = rest]
        BY <1>10, <2>3 DEF Misread
    <2>5. /\ net' \in [Peers -> [Peers -> Seq(Packet)]] /\ net'[q][p] = rest
          /\ \A a, b \in Peers : ~(a = q /\ b = p) => net'[a][b] = net[a][b]
        BY <1>a, <2>4
    <2>6. \A a, b \in Peers : \A e \in Items(net'[a][b]) : e \in Items(net[a][b])
        BY <2>3, <2>5
    <2>7. \A a \in Peers : guid'[a] <= joins' /\ (pc'[a] # "idle" => guid'[a] # 0)
        BY <2>1 DEF NetInv
    <2> HIDE DEF W, G, Others
    <2>8. NetInv'
        <3>1. joins \in Nat /\ joins' \in Nat /\ joins <= joins'
            BY <1>t, <2>1
        <3>2. \A a, b \in Peers : work'[a][b] = work[a][b] \/ work'[a][b].stage = "idle"
                                \/ work'[a][b].refs # <<>>
            BY <2>1
        <3>3. \A a, b \in Peers : \A e \in Items(net'[a][b]) :
                  e \in Items(net[a][b]) \/ (e.guid \in 1..joins /\ (e.type = "resp" => e.refs # <<>>))
            BY <2>6
        <3> QED BY ONLY NetInv, <3>1, <3>2, <3>3, <2>7, NetKept
    <2> QED BY <1>b, <1>a, <1>t, <2>1, <2>5, <2>8
<1> QED
    BY <1>1, <1>2, <1>3, <1>4, <1>5, <1>6, <1>7, <1>8, <1>9, <1>10
       DEF Next, JoinStep, GetStep, FetchStep, Handles

----------------------------------------------------------------------------
(* A join does not end in silence *)

\* Nothing of p changes.
Same(p) ==
    /\ group'[p] = group[p]
    /\ key'[p] = key[p]
    /\ responses'[p] = responses[p]
    /\ told'[p] = told[p]
    /\ pc'[p] = pc[p]
    /\ work'[p] = work[p]
    /\ gets'[p] = gets[p]
    /\ guid'[p] = guid[p] /\ entries'[p] = entries[p] /\ searches'[p] = searches[p]

LEMMA SameWaits ==
    ASSUME NEW p \in Peers, Waiting(p), Same(p)
    PROVE  Waiting(p)'
BY DEF Waiting, Promised, Same

\* A step of one peer is nothing to the others.
LEMMA OnlyOne ==
    ASSUME Typed, NEW p \in Peers,
           \/ JoinCall(p) \/ JoinStep(p) \/ Leave(p) \/ FetchStep(p) \/ Restart(p)
           \/ \E q \in Peers \ {p} :
                 Receive(p, q) \/ Misread(p, q) \/ FindKey(p, q) \/ GetStep(p, q),
           NEW r \in Peers, r # p
    PROVE  Same(r)
<1> USE DEF Typed, Same
<1>1. CASE JoinCall(p)
    BY <1>1 DEF JoinCall, Tell, Goto
<1>2. CASE JoinStep(p)
    BY <1>2 DEF JoinStep, JoinSearch, JoinWake, JoinStop, JoinCreate, Goto, Tell
<1>3. CASE Leave(p)
    BY <1>3 DEF Leave, Tell
<1>4. CASE FetchStep(p)
    BY <1>4 DEF FetchStep, FetchKey, Report, Tell
<1>5. CASE Restart(p)
    BY <1>5 DEF Restart, Goto, Tell
<1>6. ASSUME NEW q \in Peers, Receive(p, q) \/ Misread(p, q) \/ FindKey(p, q) \/ GetStep(p, q)
      PROVE  Same(r)
    <2>1. CASE Receive(p, q)
        BY <2>1 DEF Receive
    <2>2. CASE FindKey(p, q)
        BY <2>2 DEF FindKey
    <2>3. CASE Grant(p, q)
        BY <2>3 DEF Grant
    <2>4. CASE Refuse(p, q)
        BY <2>4 DEF Refuse, Report, Tell
    <2>5. CASE Misread(p, q)
        BY <2>5 DEF Misread
    <2> QED BY <1>6, <2>1, <2>2, <2>3, <2>4, <2>5 DEF GetStep
<1> QED BY <1>1, <1>2, <1>3, <1>4, <1>5, <1>6

\* And it leaves its own peer waiting only for what will come.
LEMMA OwnWaits ==
    ASSUME Typed, NEW p \in Peers, Waiting(p),
           \/ JoinCall(p) \/ JoinStep(p) \/ Leave(p) \/ FetchStep(p) \/ Restart(p)
           \/ \E q \in Peers \ {p} :
                 Receive(p, q) \/ Misread(p, q) \/ FindKey(p, q) \/ GetStep(p, q)
    PROVE  Waiting(p)'
<1>0. Typed /\ Waiting(p)
    OBVIOUS
<1>d. DOMAIN work = Peers /\ \A r \in Peers : DOMAIN work[r] = Peers
    BY DEF Typed
<1>1. CASE JoinCall(p)
    <2>1. CASE group[p] = 0 \/ key[p] # 0
        <3>1. pc'[p] = "search" /\ responses'[p] = 0
            BY <1>0, <1>1, <2>1 DEF JoinCall, Goto, Typed
        <3> QED BY <3>1 DEF Waiting
    <2>2. CASE ~(group[p] = 0 \/ key[p] # 0)
        <3>1. told'[p] = "OK"
            BY <1>0, <1>1, <2>2 DEF JoinCall, Tell, Typed
        <3> QED BY <3>1 DEF Waiting
    <2> QED BY <2>1, <2>2
<1>2. CASE JoinSearch(p) \/ JoinStop(p)
    <2>1. /\ UNCHANGED <<group, key, told, responses, work, gets>>
          /\ pc'[p] # "idle"
        BY <1>0, <1>2 DEF JoinSearch, JoinStop, Goto, Typed
    <2> QED BY <1>0, <2>1 DEF Waiting, Promised
<1>3. CASE JoinWake(p)
    <2>1. /\ UNCHANGED <<group, key, told, responses, work, gets>>
          /\ pc'[p] # "idle" \/ key[p] # 0 \/ responses[p] > 0
        BY <1>0, <1>3 DEF JoinWake, Goto, Typed
    <2> QED BY <1>0, <2>1 DEF Waiting, Promised
<1>4. CASE JoinCreate(p)
    <2>1. told'[p] = "CREATED"
        BY <1>0, <1>4 DEF JoinCreate, Tell, Typed
    <2> QED BY <2>1 DEF Waiting
<1>5. CASE Leave(p) \/ Restart(p)
    <2>1. group'[p] = 0
        BY <1>0, <1>5 DEF Leave, Restart, Typed
    <2> QED BY <2>1 DEF Waiting
<1>6. ASSUME NEW g \in gets[p], FetchKey(p, g)
      PROVE  Waiting(p)'
    <2>1. UNCHANGED <<group, responses, pc, work>> /\ gets'[p] = gets[p] \ {g}
        BY <1>0, <1>6 DEF FetchKey, Typed
    <2>2. CASE g.group = group[p]
        <3>1. told'[p] # "none"
            BY <1>0, <1>6, <2>2 DEF FetchKey, Report, Tell, Typed
        <3> QED BY <3>1 DEF Waiting
    <2>3. CASE g.group # group[p]
        <3>1. UNCHANGED <<key, told>>
            BY <1>6, <2>3 DEF FetchKey, Report
        <3> QED BY <1>0, <2>1, <2>3, <3>1 DEF Waiting, Promised
    <2> QED BY <2>2, <2>3
<1>7. ASSUME NEW q \in Peers, Receive(p, q)
      PROVE  Waiting(p)'
    <2>1. /\ UNCHANGED <<group, key, told, responses, pc, gets>>
          /\ work[p][q].stage # "get"
          /\ \A r \in Peers : r # q => work'[p][r] = work[p][r]
        BY <1>7, <1>d DEF Receive
    <2> QED BY <1>0, <2>1 DEF Waiting, Promised
<1>8. ASSUME NEW q \in Peers, FindKey(p, q)
      PROVE  Waiting(p)'
    <2>1. /\ UNCHANGED <<group, key, told, pc, gets>>
          /\ work[p][q].stage = "scan"
          /\ \A r \in Peers : r # q => work'[p][r] = work[p][r]
        BY <1>0, <1>8 DEF FindKey, Typed
    <2>2. CASE work[p][q].group = group[p] /\ key[p] = 0
        <3>1. work'[p][q].stage = "get" /\ work'[p][q].group = work[p][q].group
            <4>1. DOMAIN work[p][q] = {"stage", "group", "refs"}
                BY <1>0 DEF Typed
            <4> QED BY <1>8, <1>d, <2>2, <4>1 DEF FindKey
        <3> QED BY <2>1, <2>2, <3>1 DEF Waiting, Promised
    <2>3. CASE ~(work[p][q].group = group[p] /\ key[p] = 0)
        <3>1. UNCHANGED responses
            BY <1>8, <2>3 DEF FindKey
        <3> QED BY <1>0, <2>1, <3>1 DEF Waiting, Promised
    <2> QED BY <2>2, <2>3
<1>9. ASSUME NEW q \in Peers, Grant(p, q)
      PROVE  Waiting(p)'
    <2> DEFINE ref == Head(work[p][q].refs)
               rec == [from |-> q, ref |-> ref, key |-> entries[q][ref],
                       group |-> work[p][q].group]
    <2>1. /\ UNCHANGED <<group, key, told, responses, pc>>
          /\ \A r \in Peers : r # q => work'[p][r] = work[p][r]
          /\ gets'[p] = gets[p] \cup {rec}
        BY <1>0, <1>9 DEF Grant, Typed
    <2>2. rec \in gets'[p] /\ rec.group = work[p][q].group
        BY <2>1
    <2> HIDE DEF rec
    <2> QED BY <1>0, <2>1, <2>2 DEF Waiting, Promised
<1>10. ASSUME NEW q \in Peers, Refuse(p, q)
      PROVE  Waiting(p)'
    <2>1. /\ UNCHANGED <<group, key, responses, pc, gets>>
          /\ \A r \in Peers : r # q => work'[p][r] = work[p][r]
        BY <1>0, <1>10 DEF Refuse, Typed
    <2>2. CASE work[p][q].group = group[p]
        <3>1. told'[p] = "ERROR"
            BY <1>0, <1>10, <2>2 DEF Refuse, Report, Tell, Typed
        <3> QED BY <3>1 DEF Waiting
    <2>3. CASE work[p][q].group # group[p]
        <3>1. UNCHANGED told
            BY <1>10, <2>3 DEF Refuse, Report
        <3> QED BY <1>0, <2>1, <2>3, <3>1 DEF Waiting, Promised
    <2> QED BY <2>2, <2>3
<1>11. ASSUME NEW q \in Peers, Misread(p, q)
       PROVE  Waiting(p)'
    <2>1. UNCHANGED <<group, key, told, responses, pc, gets, work>>
        BY <1>11 DEF Misread
    <2> QED BY <1>0, <2>1 DEF Waiting, Promised
<1> QED
    BY <1>1, <1>2, <1>3, <1>4, <1>5, <1>6, <1>7, <1>8, <1>9, <1>10, <1>11
       DEF JoinStep, GetStep, FetchStep

----------------------------------------------------------------------------
(* One key, as long as joins do not overlap *)

LEMMA Asked ==
    ASSUME NEW p \in Peers, NEW q \in Peers
    PROVE  /\ Outstanding(p, q) <=>
                  \/ \E m \in Items(net[p][q]) : m.type = "rqst" /\ m.guid = guid[p]
                  \/ \E m \in Items(net[q][p]) : m.type = "resp" /\ m.guid = guid[p]
                  \/ work[p][q].stage = "scan"
           /\ Outstanding(p, q)' <=>
                  \/ \E m \in Items(net'[p][q]) : m.type = "rqst" /\ m.guid = guid'[p]
                  \/ \E m \in Items(net'[q][p]) : m.type = "resp" /\ m.guid = guid'[p]
                  \/ work'[p][q].stage = "scan"
BY DEF Outstanding, Items

\* What p's step must leave of the others' joins.
Spares(p) ==
    /\ \A r \in Peers \ {p} : Same(r)
    /\ \A r \in Peers \ {p}, x \in Peers :
           /\ Outstanding(r, x)' => Outstanding(r, x)
           /\ Outstanding(r, x) /\ entries'[x] # <<>> => Outstanding(r, x)'
    /\ \/ Quiet(p) => Quiet(p)' /\ (entries'[p] = entries[p] \/ entries'[p] = <<>>)
       \/ \A r \in Peers \ {p} : pc[r] \notin {"sleep", "stop", "create"}

LEMMA Spared ==
    ASSUME Typed, NEW p \in Peers, Spares(p), Own(p)', Joining(p)',
           \A r \in Peers : Own(r) /\ Joining(r)
    PROVE  \A r \in Peers : Own(r)' /\ Joining(r)'
<1>1. ASSUME NEW r \in Peers \ {p} PROVE Own(r)'
    <2>1. Same(r) /\ Own(r)
        BY DEF Spares
    <2> QED BY <2>1 DEF Same, Own
<1>2. ASSUME NEW r \in Peers \ {p}, Quiet(r) PROVE Quiet(r)'
    BY <1>2 DEF Spares, Same, Quiet
<1>3. ASSUME NEW r \in Peers \ {p} PROVE Joining(r)'
    <2>1. /\ pc'[r] = pc[r] /\ key'[r] = key[r] /\ responses'[r] = responses[r]
          /\ entries'[r] = entries[r] /\ gets'[r] = gets[r] /\ Joining(r)
        BY DEF Spares, Same
    <2>2. CASE pc[r] \notin {"sleep", "stop", "create"}
        BY <2>1, <2>2 DEF Joining
    <2>3. CASE pc[r] \in {"sleep", "stop", "create"}
        <3>1. \A q \in Peers \ {r} : Quiet(q)
            BY <2>1, <2>3 DEF Joining
        <3>2. Quiet(p)' /\ (entries'[p] = entries[p] \/ entries'[p] = <<>>)
            BY <2>3, <3>1 DEF Spares
        <3>3. \A q \in Peers \ {r} : Quiet(q)'
            BY <1>2, <3>1, <3>2
        <3>4. \A q \in Peers : entries'[q] = entries[q] \/ entries'[q] = <<>>
            BY <3>2 DEF Spares, Same
        <3>5. \A q \in Peers \ {r} : gets'[q] = {}
            BY <3>3 DEF Quiet
        <3>6. pc'[r] \in {"stop", "create"} => \A q \in Peers : entries'[q] = <<>> /\ gets'[q] = {}
            BY <2>1, <3>4, <3>5 DEF Joining
        <3>7. pc'[r] = "sleep" /\ key'[r] = 0 /\ responses'[r] = 0 =>
                  \A q \in Peers \ {r} : entries'[q] # <<>> => Outstanding(r, q)'
            BY <2>1, <3>4 DEF Joining, Spares
        <3> QED BY <3>3, <3>6, <3>7 DEF Joining
    <2> QED BY <2>2, <2>3
<1> QED BY <1>1, <1>3

\* Most steps leave the packets alone.
LEMMA NetAlone ==
    ASSUME NEW p \in Peers, \A r \in Peers \ {p} : Same(r), UNCHANGED net
    PROVE  \A r \in Peers \ {p}, x \in Peers : Outstanding(r, x)' <=> Outstanding(r, x)
BY Asked DEF Same

LEMMA OneKeyKept ==
    ASSUME OneKey, NEW p \in Peers, \A r \in Peers \ {p} : Same(r),
           \A k \in Nat : Held(p, k)' => \E q \in Peers : Held(q, k)
    PROVE  OneKey'
<1>1. \A q \in Peers \ {p}, k \in Nat : Held(q, k)' => Held(q, k)
    BY DEF Held, Same
<1> QED BY <1>1 DEF OneKey

LEMMA StepKeepsOne ==
    ASSUME TypeOK, NetInv, OneKey, \A r \in Peers : Own(r) /\ Joining(r), [Next]_vars, smooth'
    PROVE  OneKey' /\ \A r \in Peers : Own(r)' /\ Joining(r)'
<1>0. Typed
    BY Types
<1>s. ASSUME NEW p \in Peers,
             \/ JoinCall(p) \/ JoinStep(p) \/ Leave(p) \/ FetchStep(p) \/ Restart(p)
             \/ \E q \in Peers \ {p} :
                   Receive(p, q) \/ Misread(p, q) \/ FindKey(p, q) \/ GetStep(p, q)
      PROVE  \A r \in Peers \ {p} : Same(r)
    BY <1>0, <1>s, OnlyOne
<1>1. CASE UNCHANGED vars
    <2>1. \A r \in Peers : Same(r)
        BY <1>1 DEF vars, Same
    <2>2. UNCHANGED <<group, key, responses, pc, guid, entries, searches, net, work, gets>>
        BY <1>1 DEF vars
    <2>3. OneKey'
        BY <2>2 DEF OneKey, Held
    <2>4. ASSUME NEW p \in Peers PROVE Own(p)'
        BY <2>2 DEF Own
    <2>5. ASSUME NEW p \in Peers PROVE Joining(p)'
        <3>1. Joining(p)
            OBVIOUS
        <3> QED BY <2>2, <3>1 DEF Joining, Quiet, Outstanding
    <2> QED BY <2>3, <2>4, <2>5
\* A join begins: its number is a new one, so that nothing is under way for it.
<1>2. ASSUME NEW p \in Peers, JoinCall(p) PROVE OneKey' /\ \A r \in Peers : Own(r)' /\ Joining(r)'
    <2>1. \A r \in Peers \ {p} : Same(r)
        BY <1>2, <1>s
    <2>2. UNCHANGED <<key, entries, searches, net, work, gets>>
        BY <1>2 DEF JoinCall
    <2>3. \/ group[p] # 0 /\ key[p] # 0 /\ group'[p] = group[p] /\ pc'[p] = "search"
          \/ group[p] = 0 /\ group'[p] # 0 /\ pc'[p] = "search" /\ guid'[p] = joins + 1
          \/ /\ group[p] # 0 /\ key[p] = 0 /\ group'[p] = group[p] /\ pc'[p] = "idle"
             /\ responses'[p] = responses[p] /\ guid'[p] = guid[p]
        BY <1>0, <1>2 DEF JoinCall, Typed, Goto
    <2>4. Own(p)'
        BY <2>2, <2>3 DEF Own
    <2>5. Joining(p)'
        BY <2>3 DEF Joining
    <2>6. Quiet(p) => Quiet(p)'
        <3>1. ASSUME group[p] = 0, guid'[p] = joins + 1, NEW r \in Peers PROVE ~Outstanding(p, r)'
            <4>1. \A a, b \in Peers : \A m \in Items(net[a][b]) : m.guid # joins + 1
                <5>1. joins \in Nat
                    BY <1>0 DEF Typed
                <5>2. \A i \in 1..joins : i # joins + 1
                    BY <5>1
                <5> QED BY <5>2 DEF NetInv
            <4>2. work[p][r].stage = "idle"
                BY <3>1 DEF Own
            <4> QED BY <2>2, <3>1, <4>1, <4>2, Asked
        <3>2. ASSUME guid'[p] = guid[p], NEW r \in Peers PROVE Outstanding(p, r)' <=> Outstanding(p, r)
            BY <2>2, <3>2, Asked
        <3> QED BY <2>2, <2>3, <3>1, <3>2 DEF Quiet
    <2>7. Spares(p)
        BY <2>1, <2>2, <2>6, NetAlone DEF Spares
    <2>8. OneKey'
        BY <2>2 DEF OneKey, Held
    <2> QED BY <1>0, <2>4, <2>5, <2>7, <2>8, Spared
\* It asks, while the others are quiet.
<1>3. ASSUME NEW p \in Peers, JoinSearch(p) PROVE OneKey' /\ \A r \in Peers : Own(r)' /\ Joining(r)'
    <2> DEFINE m == [type |-> "rqst", guid |-> guid[p]]
    <2>1. \A r \in Peers \ {p} : Same(r)
        BY <1>3, <1>s DEF JoinStep
    <2>2. /\ UNCHANGED <<group, key, responses, guid, entries, work, gets>>
          /\ pc[p] = "search" /\ pc'[p] = "sleep"
          /\ searches'[p] = searches[p] \cup {[guid |-> guid[p], group |-> group[p]]}
          /\ \A r \in Peers \ {p} : ~Busy(r)
        BY <1>0, <1>3 DEF JoinSearch, Goto, Typed
    <2>3. /\ \A q \in Peers \ {p} : Items(net'[p][q]) = Items(net[p][q]) \cup {m}
          /\ \A a, b \in Peers : a # p => net'[a][b] = net[a][b]
          /\ net'[p][p] = net[p][p]
        <3>1. \A q \in Peers : net[p][q] \in Seq(Packet)
            BY DEF TypeOK, Packet
        <3>2. m \in Packet
            BY <1>0 DEF Packet, Rqst, Typed
        <3>3. \A q \in Peers : /\ q # p => net'[p][q] = Append(net[p][q], m)
                               /\ q = p => net'[p][q] = net[p][q]
            BY <1>0, <1>3 DEF JoinSearch, Typed
        <3>4. \A a, b \in Peers : a # p => net'[a][b] = net[a][b]
            BY <1>0, <1>3 DEF JoinSearch, Typed
        <3> HIDE DEF m
        <3>5. ASSUME NEW q \in Peers \ {p} PROVE Items(net'[p][q]) = Items(net[p][q]) \cup {m}
            <4>1. net[p][q] \in Seq(Packet) /\ net'[p][q] = Append(net[p][q], m)
                BY <3>1, <3>3
            <4> QED BY <3>2, <4>1, ItemsOfSeqs
        <3> QED BY <3>3, <3>4, <3>5
    <2>4. m.type = "rqst" /\ m.guid = guid[p]
        OBVIOUS
    <2> HIDE DEF m
    <2>5. Own(p)'
        <3>1. PICK n \in searches'[p] : n = [guid |-> guid[p], group |-> group[p]]
            BY <2>2
        <3>2. n.guid = guid[p] /\ n.group = group[p]
            BY <3>1
        <3>3. searches'[p] = searches[p] \cup {n}
            BY <2>2, <3>1
        <3>4. Own(p) /\ group[p] # 0
            BY <2>2 DEF Own
        <3> QED BY <2>2, <3>1, <3>2, <3>3, <3>4 DEF Own
    <2>6. ASSUME NEW r \in Peers \ {p}, NEW x \in Peers PROVE Outstanding(r, x)' <=> Outstanding(r, x)
        <3>1. net'[r][x] = net[r][x]
            BY <2>3
        <3>2. Items(net'[x][r]) = Items(net[x][r]) \/ Items(net'[x][r]) = Items(net[x][r]) \cup {m}
            BY <2>3
        <3> QED BY <2>2, <2>4, <3>1, <3>2, Asked
    <2>7. \A r \in Peers \ {p} : Quiet(r)'
        BY <2>1, <2>2, <2>6 DEF Busy, Quiet, Same, Idle
    <2>8. \A q \in Peers \ {p} : Outstanding(p, q)'
        BY <2>2, <2>3, <2>4, Asked
    <2>9. Joining(p)'
        BY <2>2, <2>7, <2>8 DEF Joining
    <2>10. Spares(p)
        BY <2>1, <2>2, <2>6 DEF Spares, Busy
    <2>11. OneKey'
        BY <2>2 DEF OneKey, Held
    <2> QED BY <1>0, <2>5, <2>9, <2>10, <2>11, Spared
<1>4. ASSUME NEW p \in Peers, JoinWake(p) PROVE OneKey' /\ \A r \in Peers : Own(r)' /\ Joining(r)'
    <2>1. \A r \in Peers \ {p} : Same(r)
        BY <1>4, <1>s DEF JoinStep
    <2>2. /\ UNCHANGED <<group, key, responses, guid, entries, searches, net, work, gets>>
          /\ pc[p] = "sleep"
          /\ \/ pc'[p] = "idle"
             \/ /\ pc'[p] = "stop" /\ key[p] = 0 /\ responses[p] = 0
                /\ \A q \in Peers \ {p} : ~Outstanding(p, q)
        <3>1. responses[p] \in Nat /\ key[p] \in Nat /\ DOMAIN pc = Peers
            BY <1>0 DEF Typed
        <3>2. CASE key[p] # 0 \/ responses[p] > 0
            <4>1. pc'[p] = "idle"
                BY <1>4, <3>1, <3>2 DEF JoinWake, Goto
            <4> QED BY <1>4, <4>1 DEF JoinWake
        <3>3. CASE ~(key[p] # 0 \/ responses[p] > 0)
            <4>1. key[p] = 0 /\ responses[p] = 0
                BY <3>1, <3>3
            <4>2. pc'[p] = "stop" /\ \A q \in Peers \ {p} : ~Outstanding(p, q)
                BY <1>4, <3>1, <3>3 DEF JoinWake, Goto
            <4> QED BY <1>4, <4>1, <4>2 DEF JoinWake
        <3> QED BY <3>2, <3>3
    <2>3. Own(p)'
        BY <2>2 DEF Own
    <2>4. Joining(p)'
        <3>1. CASE pc'[p] = "idle"
            BY <3>1 DEF Joining
        <3>2. CASE pc'[p] = "stop"
            <4>1. \A q \in Peers \ {p} : Quiet(q) /\ entries[q] = <<>>
                BY <2>2, <3>2 DEF Joining
            <4>2. gets[p] = {} /\ entries[p] = <<>>
                BY <2>2, <3>2 DEF Own
            <4>3. \A q \in Peers \ {p} : Quiet(q)'
                BY <2>1, <2>2, <4>1, NetAlone DEF Quiet, Same
            <4> QED BY <2>2, <3>2, <4>1, <4>2, <4>3 DEF Joining, Quiet
        <3> QED BY <2>2, <3>1, <3>2
    <2>5. Spares(p)
        BY <2>1, <2>2, NetAlone DEF Spares, Quiet
    <2>6. OneKey'
        BY <2>2 DEF OneKey, Held
    <2> QED BY <1>0, <2>3, <2>4, <2>5, <2>6, Spared
<1>5. ASSUME NEW p \in Peers, JoinStop(p) PROVE OneKey' /\ \A r \in Peers : Own(r)' /\ Joining(r)'
    <2>1. \A r \in Peers \ {p} : Same(r)
        BY <1>5, <1>s DEF JoinStep
    <2>2. /\ UNCHANGED <<group, key, responses, guid, entries, net, work, gets>>
          /\ pc[p] = "stop" /\ pc'[p] = "create" /\ searches'[p] \subseteq searches[p]
        BY <1>0, <1>5 DEF JoinStop, Goto, Typed
    <2>3. Own(p)'
        BY <2>2 DEF Own
    <2>4. \A q \in Peers \ {p} : Quiet(q)'
        BY <2>1, <2>2, NetAlone DEF Quiet, Same, Joining
    <2>5. Joining(p)'
        BY <2>2, <2>4 DEF Joining
    <2>6. Spares(p)
        BY <2>1, <2>2, NetAlone DEF Spares, Quiet
    <2>7. OneKey'
        BY <2>2 DEF OneKey, Held
    <2> QED BY <1>0, <2>3, <2>5, <2>6, <2>7, Spared
\* There is no other key when one is made.
<1>6. ASSUME NEW p \in Peers, JoinCreate(p) PROVE OneKey' /\ \A r \in Peers : Own(r)' /\ Joining(r)'
    <2>1. \A r \in Peers \ {p} : Same(r)
        BY <1>6, <1>s DEF JoinStep
    <2>2. /\ UNCHANGED <<group, responses, guid, searches, net, work, gets>>
          /\ pc[p] = "create" /\ pc'[p] = "idle" /\ key'[p] = made + 1 /\ key'[p] # 0
          /\ entries'[p] = Append(entries[p], made + 1)
        BY <1>0, <1>6 DEF JoinCreate, Goto, Typed
    <2>3. \A q \in Peers : entries[q] = <<>> /\ gets[q] = {} /\ key[q] = 0
        BY <2>2 DEF Joining, Own
    <2>4. entries'[p] = <<made + 1>>
        <3>1. entries[p] = <<>>
            BY <2>3
        <3>2. \A x : Append(<<>>, x) = <<x>>
            OBVIOUS
        <3> QED BY <2>2, <3>1, <3>2
    <2>5. entries'[p] # <<>> /\ Items(entries'[p]) = {made + 1} /\ Items(<<>>) = {}
        BY <2>4 DEF Items
    <2>6. \A q \in Peers, k \in Nat : Held(q, k)' => q = p /\ k = made + 1
        BY <2>1, <2>2, <2>3, <2>5 DEF Held, Same
    <2>7. OneKey'
        BY <2>6 DEF OneKey
    <2>8. Own(p)'
        BY <2>2, <2>3, <2>5 DEF Own
    <2>9. Joining(p)'
        BY <2>2 DEF Joining
    <2>10. Spares(p)
        BY <2>1, <2>2, NetAlone DEF Spares, Quiet
    <2> QED BY <1>0, <2>7, <2>8, <2>9, <2>10, Spared
<1>7. ASSUME NEW p \in Peers, Leave(p) PROVE OneKey' /\ \A r \in Peers : Own(r)' /\ Joining(r)'
    BY <1>7 DEF Leave
\* A packet that is lost is not smooth.
<1>15. ASSUME NEW p \in Peers, NEW q \in Peers \ {p}, Misread(p, q)
       PROVE  OneKey' /\ \A r \in Peers : Own(r)' /\ Joining(r)'
    BY <1>15 DEF Misread
\* A packet is taken: who has a key answers, and the answer is for this join.
<1>8. ASSUME NEW p \in Peers, NEW q \in Peers \ {p}, Receive(p, q)
      PROVE  OneKey' /\ \A r \in Peers : Own(r)' /\ Joining(r)'
    <2>1. \A r \in Peers \ {p} : Same(r)
        BY <1>8, <1>s
    <2>2. UNCHANGED <<group, key, responses, told, pc, guid, entries, searches, gets>>
        BY <1>8 DEF Receive
    <2>3. PICK m \in Items(net[q][p]) : Takes(p, q, m)
        BY <1>8, Received
    <2>4. Items(net[q][p]) = Items(net'[q][p]) \cup {m} /\ work[p][q].stage = "idle"
        BY <1>8, <2>3 DEF Takes, Receive
    <2>5. OneKey'
        BY <2>2 DEF OneKey, Held
    <2>6. ASSUME \A r \in Peers \ {p}, x \in Peers : Outstanding(r, x)' => Outstanding(r, x)
          PROVE  \A r \in Peers \ {p} : Quiet(r) => Quiet(r)'
        BY <2>1, <2>6 DEF Quiet, Same
    <2>7. CASE m.type = "rqst"
        <3>1. work' = work
            BY <2>3, <2>7 DEF Takes
        <3>2. \/ entries[p] = <<>> /\ Items(net'[p][q]) = Items(net[p][q])
              \/ \E e \in Packet : /\ e.type = "resp" /\ e.guid = m.guid
                                   /\ Items(net'[p][q]) = Items(net[p][q]) \cup {e}
            BY <2>3, <2>7 DEF Takes
        <3>3. ASSUME NEW a \in Peers, NEW b \in Peers, ~(a = q /\ b = p), ~(a = p /\ b = q)
              PROVE  Outstanding(a, b)' <=> Outstanding(a, b)
            <4>1. net'[a][b] = net[a][b] /\ net'[b][a] = net[b][a]
                BY <2>3, <3>3 DEF Takes
            <4> QED BY <2>2, <3>1, <4>1, Asked
        <3>4. Outstanding(p, q)' <=> Outstanding(p, q)
            <4>1. \A i \in Packet : i.type = "resp" => i.type # "rqst"
                OBVIOUS
            <4> QED BY <2>2, <2>4, <2>7, <3>1, <3>2, <4>1, Asked
        <3>5. /\ Outstanding(q, p)' => Outstanding(q, p)
              /\ Outstanding(q, p) /\ entries[p] # <<>> => Outstanding(q, p)'
            BY <2>2, <2>4, <2>7, <3>1, <3>2, Asked
        <3>6. \A x \in Peers : Outstanding(p, x)' <=> Outstanding(p, x)
            BY <3>3, <3>4
        <3>7. \A r \in Peers \ {p}, x \in Peers :
                  /\ Outstanding(r, x)' => Outstanding(r, x)
                  /\ Outstanding(r, x) /\ entries'[x] # <<>> => Outstanding(r, x)'
            BY <2>2, <3>3, <3>5
        <3>8. Own(p)'
            BY <2>2, <3>1 DEF Own
        <3>9. Joining(p)'
            BY <2>2, <2>6, <3>6, <3>7 DEF Joining
        <3>10. Spares(p)
            BY <2>1, <2>2, <3>1, <3>6, <3>7 DEF Spares, Quiet
        <3> QED BY <1>0, <2>5, <3>8, <3>9, <3>10, Spared
    <2>8. CASE m.type = "resp"
        <3>1. m \in Packet /\ DOMAIN work = Peers /\ DOMAIN work[p] = Peers
            BY <1>0, <2>3 DEF Takes, Typed
        <3>2. /\ work'[p][q] = HandleSearchResponse(p, m)
              /\ \A a, b \in Peers : ~(a = p /\ b = q) => work'[a][b] = work[a][b]
            <4>1. work' = [work EXCEPT ![p][q] = HandleSearchResponse(p, m)]
                BY <2>3, <2>8 DEF Takes
            <4>2. \A a \in Peers : DOMAIN work[a] = Peers
                BY <1>0 DEF Typed
            <4> QED BY <3>1, <4>1, <4>2
        <3>3. \/ work'[p][q] = Idle /\ ~\E s \in searches[p] : s.guid = m.guid
              \/ /\ work'[p][q].stage = "scan"
                 /\ \E s \in searches[p] : s.guid = m.guid /\ s.group = work'[p][q].group
            BY <2>8, <3>1, <3>2, Responses
        <3>4. \A a, b \in Peers : ~(a = q /\ b = p) => net'[a][b] = net[a][b]
            BY <2>3, <2>8 DEF Takes
        <3>5. Idle.stage = "idle"
            BY DEF Idle
        <3>6. ASSUME NEW a \in Peers, NEW b \in Peers, ~(a = p /\ b = q)
              PROVE  Outstanding(a, b)' <=> Outstanding(a, b)
            <4>1. CASE a = q /\ b = p
                <5>1. net'[p][q] = net[p][q] /\ work'[q][p] = work[q][p]
                    BY <3>2, <3>4
                <5>2. m.type # "rqst"
                    BY <2>8
                <5>3. Outstanding(q, p)' <=> Outstanding(q, p)
                    BY <2>2, <2>4, <5>1, <5>2, Asked
                <5> QED BY <4>1, <5>3
            <4>2. CASE ~(a = q /\ b = p)
                <5>1. /\ net'[a][b] = net[a][b] /\ net'[b][a] = net[b][a]
                      /\ work'[a][b] = work[a][b]
                    BY <3>2, <3>4, <3>6, <4>2
                <5> QED BY <2>2, <5>1, Asked
            <4> QED BY <4>1, <4>2
        <3>7. Own(p)'
            <4>1. Own(p)
                OBVIOUS
            <4>2. work'[p][q].stage # "idle" => work'[p][q].group = group[p] /\ group[p] # 0
                BY <3>3, <3>5, <4>1 DEF Own
            <4>3. work'[p][q].stage # "get"
                BY <3>3, <3>5
            <4>4. \A r \in Peers \ {q} : work'[p][r] = work[p][r]
                BY <3>2
            <4> QED BY <2>2, <4>1, <4>2, <4>3, <4>4 DEF Own
        <3>8. pc[p] = "sleep" /\ key[p] = 0 /\ Outstanding(p, q) => Outstanding(p, q)'
            <4>1. CASE m.guid = guid[p]
                <5>1. pc[p] = "sleep" => \E s \in searches[p] : s.guid = guid[p]
                    BY DEF Own
                <5> QED BY <3>3, <4>1, <5>1, Asked
            <4>2. CASE m.guid # guid[p]
                <5>1. net'[p][q] = net[p][q]
                    BY <3>4
                <5> QED BY <2>2, <2>4, <4>2, <5>1, Asked
            <4> QED BY <4>1, <4>2
        <3>9. Joining(p)'
            <4>1. \A r \in Peers \ {p} : Quiet(r) => Quiet(r)'
                BY <2>6, <3>6
            <4> QED BY <2>2, <3>6, <3>8, <4>1 DEF Joining
        <3>10. Quiet(p) => Quiet(p)'
            <4>1. ASSUME Quiet(p), key[p] = 0 PROVE ~Outstanding(p, q)'
                <5>1. ~Outstanding(p, q)
                    BY <4>1 DEF Quiet
                <5>2. m.guid # guid[p]
                    BY <2>4, <2>8, <5>1, Asked
                <5>3. work'[p][q] = Idle
                    BY <3>3, <4>1, <5>2 DEF Own
                <5> QED BY <2>2, <2>4, <3>4, <3>5, <5>1, <5>3, Asked
            <4>2. work'[p][q].stage # "get"
                BY <3>3, <3>5
            <4> QED BY <2>2, <3>2, <3>6, <4>1, <4>2 DEF Quiet
        <3>11. Spares(p)
            BY <2>1, <2>2, <3>6, <3>10 DEF Spares
        <3> QED BY <1>0, <2>5, <3>7, <3>9, <3>11, Spared
    <2>9. m.type = "rqst" \/ m.type = "resp"
        BY <2>3 DEF Takes
    <2> QED BY <2>7, <2>8, <2>9
\* From here on the packets stay and p is not quiet.
<1>9. ASSUME NEW p \in Peers, \A r \in Peers \ {p} : Same(r), UNCHANGED <<net, pc>>,
             \A q \in Peers \ {p} : entries'[q] = entries[q],
             Own(p)',
             key'[p] = 0 /\ responses'[p] = 0 /\ pc[p] = "sleep" => FALSE,
             pc[p] \in {"stop", "create"} => entries'[p] = entries[p] /\ gets'[p] = gets[p],
             Quiet(p) => Quiet(p)' /\ entries'[p] = entries[p],
             \A k \in Nat : Held(p, k)' => \E q \in Peers : Held(q, k)
      PROVE  OneKey' /\ \A r \in Peers : Own(r)' /\ Joining(r)'
    <2>1. \A r \in Peers \ {p}, x \in Peers : Outstanding(r, x)' <=> Outstanding(r, x)
        BY <1>9, NetAlone
    <2>2. \A r \in Peers \ {p} : Quiet(r) => Quiet(r)'
        BY <1>9, <2>1 DEF Quiet, Same
    <2>3. \A r \in Peers \ {p} : gets'[r] = gets[r]
        BY <1>9 DEF Same
    <2>4. Joining(p)'
        BY <1>9, <2>2, <2>3 DEF Joining
    <2>5. Spares(p)
        BY <1>9, <2>1 DEF Spares
    <2>6. OneKey'
        BY <1>9, OneKeyKept
    <2> QED BY <1>0, <1>9, <2>4, <2>5, <2>6, Spared
\* The answer is looked at: it is counted, or the key is there already.
<1>10. ASSUME NEW p \in Peers, NEW q \in Peers \ {p}, FindKey(p, q)
       PROVE  OneKey' /\ \A r \in Peers : Own(r)' /\ Joining(r)'
    <2>1. \A r \in Peers \ {p} : Same(r)
        BY <1>10, <1>s
    <2>2. /\ UNCHANGED <<group, key, pc, guid, entries, searches, net, gets>>
          /\ work[p][q].stage = "scan"
        BY <1>10 DEF FindKey
    <2>3. work[p][q].group = group[p] /\ group[p] # 0
        BY <2>2 DEF Own
    <2>4. /\ \A r \in Peers \ {q} : work'[p][r] = work[p][r]
          /\ work'[p][q].stage # "idle" => work'[p][q].group = group[p]
        <3>1. Handles(p, q)
            BY <1>10 DEF Handles
        <3>2. Idle.stage = "idle"
            BY DEF Idle
        <3> QED BY <2>3, <3>1, <3>2, Handled
    <2>5. \/ key[p] = 0 /\ responses'[p] # 0
          \/ key[p] # 0 /\ responses' = responses /\ work'[p][q].stage # "get"
        <3>1. CASE key[p] = 0
            <4>1. responses[p] \in Nat /\ DOMAIN responses = Peers
                BY <1>0 DEF Typed
            <4>2. responses' = [responses EXCEPT ![p] = @ + 1]
                BY <1>10, <2>3, <3>1 DEF FindKey
            <4> QED BY <3>1, <4>1, <4>2
        <3>2. CASE key[p] # 0
            <4>1. /\ work' = [work EXCEPT ![p][q] = NextFile(@)] /\ responses' = responses
                BY <1>10, <2>3, <3>2 DEF FindKey
            <4>2. /\ work[p][q] \in [stage : {"idle", "scan", "get"}, group : Nat, refs : Seq(Nat)]
                  /\ work[p][q].refs # <<>>
                <5>1. work \in [Peers -> [Peers ->
                          [stage : {"idle", "scan", "get"}, group : Nat, refs : Seq(Nat)]]]
                    BY DEF TypeOK
                <5>2. work[p][q].refs # <<>>
                    BY <2>2 DEF NetInv
                <5> QED BY <5>1, <5>2
            <4>3. NextFile(work[p][q]).stage # "get"
                BY <4>2, NextFiles DEF Idle
            <4>4. DOMAIN work = Peers /\ DOMAIN work[p] = Peers
                BY <1>0 DEF Typed
            <4> QED BY <3>2, <4>1, <4>3, <4>4
        <3> QED BY <3>1, <3>2
    <2>6. Own(p)'
        <3>1. Own(p)
            OBVIOUS
        <3> QED BY <2>2, <2>3, <2>4, <2>5, <3>1 DEF Own
    <2>7. Quiet(p) => Quiet(p)'
        <3>1. Quiet(p) => key[p] # 0
            BY <2>2 DEF Quiet, Outstanding
        <3> QED BY <2>2, <2>4, <2>5, <3>1 DEF Quiet
    <2>8. key'[p] = 0 /\ responses'[p] = 0 => FALSE
        BY <2>2, <2>5
    <2>9. \A k \in Nat : Held(p, k)' => Held(p, k)
        BY <2>2 DEF Held
    <2> QED BY <1>9, <2>1, <2>2, <2>6, <2>7, <2>8, <2>9
\* A Get that begins is for a key that its peer shares.
<1>11. ASSUME NEW p \in Peers, NEW q \in Peers \ {p}, Grant(p, q)
       PROVE  OneKey' /\ \A r \in Peers : Own(r)' /\ Joining(r)'
    <2> DEFINE ref == Head(work[p][q].refs)
               rec == [from |-> q, ref |-> ref, key |-> entries[q][ref],
                       group |-> work[p][q].group]
    <2>1. \A r \in Peers \ {p} : Same(r)
        BY <1>11, <1>s DEF GetStep
    <2>2. /\ UNCHANGED <<group, key, responses, pc, guid, entries, searches, net>>
          /\ work[p][q].stage = "get" /\ ref \in DOMAIN entries[q]
          /\ gets'[p] = gets[p] \cup {rec}
        BY <1>0, <1>11 DEF Grant, Typed
    <2>3. rec.group = work[p][q].group /\ rec.key = entries[q][ref]
        OBVIOUS
    <2>4. Held(q, rec.key) /\ entries[q] # <<>>
        BY <2>2, <2>3 DEF Held, Items
    <2> HIDE DEF rec, ref
    <2>5. work[p][q].group = group[p] /\ group[p] # 0 /\ ~(key[p] = 0 /\ responses[p] = 0)
        BY <2>2 DEF Own
    <2>6. /\ \A r \in Peers \ {q} : work'[p][r] = work[p][r]
          /\ work'[p][q].stage # "idle" => work'[p][q].group = group[p]
        <3>1. Handles(p, q)
            BY <1>11 DEF Handles
        <3>2. Idle.stage = "idle"
            BY DEF Idle
        <3> QED BY <2>5, <3>1, <3>2, Handled
    <2>7. Own(p)'
        <3>1. Own(p)
            OBVIOUS
        <3> QED BY <2>2, <2>3, <2>5, <2>6, <3>1 DEF Own
    <2>8. ~Quiet(p) /\ pc[p] \notin {"stop", "create"}
        BY <2>2, <2>4 DEF Quiet, Joining
    <2>9. \A k \in Nat : Held(p, k)' => \E x \in Peers : Held(x, k)
        BY <2>2, <2>4 DEF Held
    <2> QED BY <1>9, <2>1, <2>2, <2>5, <2>7, <2>8, <2>9
<1>12. ASSUME NEW p \in Peers, NEW q \in Peers \ {p}, Refuse(p, q)
       PROVE  OneKey' /\ \A r \in Peers : Own(r)' /\ Joining(r)'
    <2>1. \A r \in Peers \ {p} : Same(r)
        BY <1>12, <1>s DEF GetStep
    <2>2. /\ UNCHANGED <<group, key, responses, pc, guid, entries, searches, net, gets>>
          /\ work[p][q].stage = "get"
        BY <1>12 DEF Refuse
    <2>3. work[p][q].group = group[p] /\ group[p] # 0 /\ ~(key[p] = 0 /\ responses[p] = 0)
        BY <2>2 DEF Own
    <2>4. /\ \A r \in Peers \ {q} : work'[p][r] = work[p][r]
          /\ work'[p][q].stage # "idle" => work'[p][q].group = group[p]
        <3>1. Handles(p, q)
            BY <1>12 DEF Handles
        <3>2. Idle.stage = "idle"
            BY DEF Idle
        <3> QED BY <2>3, <3>1, <3>2, Handled
    <2>5. Own(p)'
        <3>1. Own(p)
            OBVIOUS
        <3> QED BY <2>2, <2>3, <2>4, <3>1 DEF Own
    <2>6. ~Quiet(p)
        BY <2>2 DEF Quiet
    <2>7. \A k \in Nat : Held(p, k)' => Held(p, k)
        BY <2>2 DEF Held
    <2> QED BY <1>9, <2>1, <2>2, <2>3, <2>5, <2>6, <2>7
\* The key that arrives was counted as p's before.
<1>13. ASSUME NEW p \in Peers, NEW g \in gets[p], FetchKey(p, g)
       PROVE  OneKey' /\ \A r \in Peers : Own(r)' /\ Joining(r)'
    <2>1. \A r \in Peers \ {p} : Same(r)
        BY <1>13, <1>s DEF FetchStep
    <2>2. /\ UNCHANGED <<group, responses, pc, guid, searches, net, work>>
          /\ gets'[p] = gets[p] \ {g}
        BY <1>0, <1>13 DEF FetchKey, Typed
    <2>3. g.group = group[p] /\ group[p] # 0 /\ ~(key[p] = 0 /\ responses[p] = 0)
        BY DEF Own
    <2>4. ~Quiet(p) /\ pc[p] \notin {"stop", "create"}
        BY DEF Quiet, Joining
    <2>5. g.key \in Keys /\ entries[p] \in Seq(Keys) /\ g.key # 0
        BY DEF TypeOK, Keys
    <2>6. \/ key' = key /\ entries' = entries
          \/ /\ key'[p] = g.key /\ entries'[p] = Append(entries[p], g.key)
             /\ \A r \in Peers \ {p} : entries'[r] = entries[r]
        BY <1>0, <1>13, <2>3 DEF FetchKey, Typed
    <2>7. /\ Items(Append(entries[p], g.key)) = Items(entries[p]) \cup {g.key}
          /\ Append(entries[p], g.key) # <<>>
        BY <2>5, ItemsOfSeqs
    <2>8. Own(p)'
        <3>1. Own(p)
            OBVIOUS
        <3> QED BY <2>2, <2>3, <2>5, <2>6, <2>7, <3>1 DEF Own
    <2>9. \A k \in Nat : Held(p, k)' => Held(p, k)
        BY <2>2, <2>6, <2>7 DEF Held
    <2>10. key'[p] = 0 /\ responses'[p] = 0 => FALSE
        BY <2>2, <2>3, <2>5, <2>6
    <2>11. \A r \in Peers \ {p} : entries'[r] = entries[r]
        BY <2>6
    <2> QED BY <1>9, <2>1, <2>2, <2>4, <2>8, <2>9, <2>10, <2>11
\* Of the packets that were p's none is p's any more.
<1>14. ASSUME NEW p \in Peers, Restart(p)
       PROVE  OneKey' /\ \A r \in Peers : Own(r)' /\ Joining(r)'
    <2>1. \A r \in Peers \ {p} : Same(r)
        BY <1>14, <1>s
    <2>2. /\ group'[p] = 0 /\ key'[p] = 0 /\ responses'[p] = 0 /\ pc'[p] = "idle" /\ guid'[p] = 0
          /\ entries'[p] = <<>> /\ searches'[p] = {} /\ gets'[p] = {}
          /\ \A q \in Peers : work'[p][q] = Idle
        BY <1>0, <1>14 DEF Restart, Tell, Goto, Typed
    <2>3. \A a, b \in Peers : /\ b = p => net'[a][b] = <<>>
                              /\ b # p => net'[a][b] = net[a][b]
        BY <1>0, <1>14 DEF Restart, Typed
    <2>4. Idle.stage = "idle" /\ Items(<<>>) = {}
        BY DEF Idle, Items
    <2>5. Own(p)'
        BY <2>2, <2>4 DEF Own
    <2>6. Joining(p)'
        BY <2>2 DEF Joining
    <2>7. ASSUME NEW r \in Peers PROVE ~Outstanding(p, r)'
        <3>1. \A a, b \in Peers : \A m \in Items(net'[a][b]) : m.guid # 0
            <4>1. \A a, b \in Peers : Items(net'[a][b]) \subseteq Items(net[a][b])
                BY <2>3, <2>4
            <4>2. \A i \in 1..joins : i # 0
                BY <1>0 DEF Typed
            <4> QED BY <4>1, <4>2 DEF NetInv
        <3> QED BY <2>2, <2>4, <3>1, Asked
    <2>8. ASSUME NEW r \in Peers \ {p}, NEW x \in Peers
          PROVE  /\ Outstanding(r, x)' => Outstanding(r, x)
                 /\ Outstanding(r, x) /\ entries'[x] # <<>> => Outstanding(r, x)'
        <3>1. guid'[r] = guid[r] /\ work'[r][x] = work[r][x] /\ net'[x][r] = net[x][r]
            BY <2>1, <2>3 DEF Same
        <3>2. CASE x = p
            BY <2>2, <2>3, <2>4, <3>1, <3>2, Asked
        <3>3. CASE x # p
            <4>1. net'[r][x] = net[r][x]
                BY <2>3, <3>3
            <4> QED BY <3>1, <4>1, Asked
        <3> QED BY <3>2, <3>3
    <2>9. Spares(p)
        BY <2>1, <2>2, <2>4, <2>7, <2>8 DEF Spares, Quiet
    <2>10. \A k \in Nat : Held(p, k)' => \E q \in Peers : Held(q, k)
        BY <2>2, <2>4 DEF Held
    <2>11. OneKey'
        BY <2>1, <2>10, OneKeyKept
    <2> QED BY <1>0, <2>5, <2>6, <2>9, <2>11, Spared
<1> QED
    BY <1>1, <1>2, <1>3, <1>4, <1>5, <1>6, <1>7, <1>8, <1>10, <1>11, <1>12, <1>13, <1>14, <1>15
       DEF Next, JoinStep, GetStep, FetchStep

\* What was not smooth does not become so.
LEMMA SmoothBefore ==
    ASSUME [Next]_vars, smooth'
    PROVE  smooth
<1>1. CASE UNCHANGED vars
    BY <1>1 DEF vars
<1>2. ASSUME NEW p \in Peers,
             \/ JoinCall(p) \/ JoinStep(p) \/ Leave(p) \/ FetchStep(p) \/ Restart(p)
             \/ \E q \in Peers \ {p} :
                   Receive(p, q) \/ Misread(p, q) \/ FindKey(p, q) \/ GetStep(p, q)
      PROVE  smooth
    BY <1>2 DEF JoinCall, JoinStep, JoinSearch, JoinWake, JoinStop, JoinCreate, Leave, Receive,
                Misread, FindKey, GetStep, Grant, Refuse, FetchStep, FetchKey, Restart
<1> QED BY <1>1, <1>2 DEF Next

\* The inductive invariant: an answer that was counted is reported or is still being
\* fetched; and up to now, joins that did not overlap have brought one key.
THEOREM GroupInvariant == Spec => []SInv
<1>1. Init => SInv
    <2> SUFFICES ASSUME Init PROVE SInv
        OBVIOUS
    <2>1. TypeOK
        BY GroupAssumption DEF Init, TypeOK, Keys, Idle
    <2>2. Items(<<>>) = {} /\ Idle.stage = "idle"
        BY DEF Items, Idle
    <2>3. NetInv
        BY <2>2 DEF Init, NetInv
    <2>4. ASSUME NEW p \in Peers PROVE Waiting(p) /\ Own(p) /\ Joining(p)
        BY <2>2 DEF Init, Waiting, Own, Joining
    <2>5. OneKey
        BY <2>2 DEF Init, OneKey, Held
    <2> QED BY <2>1, <2>3, <2>4, <2>5 DEF SInv
<1>2. SInv /\ [Next]_vars => SInv'
    <2> SUFFICES ASSUME SInv, [Next]_vars PROVE SInv'
        OBVIOUS
    <2>0. TypeOK /\ NetInv /\ Typed
        BY Types DEF SInv
    <2>1. TypeOK' /\ NetInv'
        BY <2>0, StepKeepsTypes
    <2>2. ASSUME NEW r \in Peers PROVE Waiting(r)'
        <3>0. Waiting(r)
            BY DEF SInv
        <3>1. CASE UNCHANGED vars
            BY <3>0, <3>1 DEF vars, Waiting, Promised
        <3>2. CASE Next
            <4>1. PICK p \in Peers :
                     \/ JoinCall(p) \/ JoinStep(p) \/ Leave(p) \/ FetchStep(p) \/ Restart(p)
                     \/ \E q \in Peers \ {p} :
                           Receive(p, q) \/ Misread(p, q) \/ FindKey(p, q) \/ GetStep(p, q)
                BY <3>2 DEF Next
            <4>2. CASE r = p
                BY <2>0, <3>0, <4>1, <4>2, OwnWaits
            <4>3. CASE r # p
                <5>1. Same(r)
                    BY <2>0, <4>1, <4>3, OnlyOne
                <5> QED BY <3>0, <5>1, SameWaits
            <4> QED BY <4>2, <4>3
        <3> QED BY <3>1, <3>2
    <2>3. ASSUME smooth' PROVE OneKey' /\ \A r \in Peers : Own(r)' /\ Joining(r)'
        <3>1. OneKey /\ \A r \in Peers : Own(r) /\ Joining(r)
            BY <2>3, SmoothBefore DEF SInv
        <3> QED BY <2>0, <2>3, <3>1, StepKeepsOne
    <2> QED BY <2>1, <2>2, <2>3 DEF SInv
<1> QED BY <1>1, <1>2, PTL DEF Spec

\* The group's variables stay within their types: a key that is held, shared or
\* fetched is one that was made, and a packet is a request or an answer.
THEOREM GroupTypeOK == Spec => []TypeOK
<1>1. SInv => TypeOK
    BY DEF SInv
<1> QED BY <1>1, GroupInvariant, PTL

\* JoinGroup never returns without a key, without a call of the join callback
\* and without a Get under way that will make it.
THEOREM GroupNoSilence == Spec => []NoSilence
<1>1. SInv => NoSilence
    BY DEF SInv, Waiting, Promised, NoSilence
<1> QED BY <1>1, GroupInvariant, PTL

\* All members have the same key, whatever their number and that of the joins and
\* restarts, as long as the joins are smooth: none begins while another is under
\* way, no answer is lost or late, nobody leaves.
THEOREM GroupAgreement == Spec => []Agreement
<1>1. SInv => Agreement
    <2> SUFFICES ASSUME SInv, smooth, NEW p \in Peers, NEW q \in Peers, key[p] # 0, key[q] # 0
                 PROVE  key[p] = key[q]
        BY DEF Agreement
    <2>1. key[p] \in Nat /\ key[q] \in Nat
        BY Types DEF SInv, Typed
    <2>2. Held(p, key[p]) /\ Held(q, key[q])
        BY DEF Held
    <2> QED BY <2>1, <2>2 DEF SInv, OneKey
<1> QED BY <1>1, GroupInvariant, PTL

----------------------------------------------------------------------------
(* Connection: the inductive invariant *)

\* What the peer has written from a to b on the last of these sockets.
Piece(list, a, b) ==
    [i \in 1..(b - a) |->
        [sock |-> Len(list), at |-> a + i, char |-> Text[list[Len(list)]][a + i]]]

\* How much of the socket's bytes is no longer in the buffer, and in front of
\* what was given back.
Here == rcvd - Len(unget)
Behind == rcvd - Len(unget) - Len(buf)

\* The buffer and what was given back are consecutive pieces of what the peer
\* writes on this socket, and what is in front of them is with the callers, but
\* for what an error lost.
Pieces ==
    open =>
        /\ scripts # <<>>
        /\ sent <= Len(Text[scripts[sock]])
        /\ taken <= Behind
        /\ fault # "reset" => taken = Behind
        /\ buf = Piece(scripts, Behind, Here)
        /\ unget = Piece(scripts, Here, rcvd)

\* What holds between the calls and inside each.
Phases ==
    /\ phase \notin {"idle", "gone"} => open
    /\ phase \notin {"header", "body"} => buf = <<>>
    /\ phase = "accept" => inbound /\ rcvd = 0 /\ https = 0 /\ ret = None
    /\ phase = "header" => op \in {"hdr", "http"}
    /\ phase = "header" /\ op = "http" => max = -1
    /\ phase = "body" => op \in {"http", "all"}

\* A header that a caller may still give back is what it was given last.
Returnable ==
    open /\ phase = "idle" /\ ret.op = "hdr" /\ ret.ok =>
        /\ Len(ret.data) <= taken
        /\ ret.data = Piece(scripts, Behind - Len(ret.data), Behind)

\* An outbound connection that may be closed has nothing given back: its peer
\* sends one message, and ReadHttp goes on until the end of it.
Clean ==
    ~inbound =>
        /\ ~open => unget = <<>> /\ phase = "idle"
        /\ open => scripts[sock] \in OutScripts
        /\ open /\ phase = "idle" =>
            /\ ret.op = "http" => unget = <<>>
            /\ ret.op = "hdr" /\ ret.max < 0 /\ scripts[sock] = << <<>> >> => unget = <<>>
        /\ phase = "body" /\ op = "http" /\ max >= 0 =>
            /\ max = Len(scripts[sock][1])
            /\ total = max + 1
            /\ \/ Behind >= Header(scripts[sock][1])
               \/ unget = <<>> /\ fault = "eof" /\ rcvd = sent

\* A header that was read from where a message begins.
Headers ==
    open /\ ret.op = "hdr" /\ ret.ok /\ ret.max < 0 =>
        \A k \in 1..Len(scripts[sock]) :
            LET from == End(scripts[sock], k - 1)
                to == from + Header(scripts[sock][k])
            IN  ret.data[1].at = from + 1 =>
                    \/ sent >= to /\ ret.data = Piece(scripts, from, to)
                    \/ sent < to /\ fault # "none" /\ ret.data = Piece(scripts, from, sent)

\* The first k messages of the socket have content.
Filled(script, k) == k <= Len(script) /\ \A i \in 1..k : script[i] # <<>>

\* The peer has ended before the end of the k-th message.
CutBefore(k) == fault = "eof" /\ sent < End(scripts[sock], k)

\* Where the k-th ReadHttp in a row is.
Messages ==
    open /\ https >= 0 /\ fault # "reset" /\ Filled(scripts[sock], https) =>
        /\ phase = "idle" =>
            \/ CutBefore(https)
            \/ /\ taken = End(scripts[sock], https)
               /\ https > 0 =>
                     ret.data = Piece(scripts, taken - Len(scripts[sock][https]), taken)
        /\ phase = "header" =>
            https > 0 /\ (CutBefore(https) \/ taken = End(scripts[sock], https - 1))
        /\ phase = "body" =>
            /\ https > 0
            /\ \/ CutBefore(https)
               \/ /\ taken = End(scripts[sock], https - 1) + Header(scripts[sock][https])
                  /\ max = Len(scripts[sock][https])
                  /\ total = max + 1
                  /\ Len(buf) <= max

\* Only calls of ReadHttp are counted, and only in a row.
Counted ==
    https >= 0 => ret.op # "hdr" /\ (phase \in {"header", "body"} => op = "http")

RInv ==
    /\ ConnTypes /\ Pieces /\ Phases /\ Returnable /\ Clean /\ Headers /\ Counted /\ Messages

----------------------------------------------------------------------------
(* Places in lists *)

\* The smallest number of a set, and of two.
LEMMA MinFacts ==
    ASSUME NEW S \in SUBSET Nat, S # {}
    PROVE  Min(S) \in S /\ \A n \in S : Min(S) <= n
<1> DEFINE R == OpToRel(<, Nat)
<1>1. PICK x \in S : \A y \in S : <<y, x>> \notin R
    <2>1. IsWellFoundedOn(R, Nat)
        BY NatLessThanWellFounded
    <2> QED BY <2>1, WFMin
<1>2. \A y \in S : ~(y < x)
    BY <1>1 DEF OpToRel
<1>3. \A y \in S : x <= y
    BY <1>2
<1> QED BY <1>3 DEF Min

LEMMA MinOfTwo ==
    ASSUME NEW a \in Nat, NEW b \in Nat
    PROVE  Min({a, b}) = IF a <= b THEN a ELSE b
<1>1. Min({a, b}) \in {a, b} /\ \A n \in {a, b} : Min({a, b}) <= n
    BY MinFacts
<1> QED BY <1>1

\* What is in front of a place, and behind it.
LEMMA FrontFacts ==
    ASSUME NEW S, NEW s \in Seq(S), NEW k \in 0..Len(s)
    PROVE  /\ SubSeq(s, 1, k) \in Seq(S)
           /\ Len(SubSeq(s, 1, k)) = k
           /\ \A i \in 1..k : SubSeq(s, 1, k)[i] = s[i]
<1>1. \A i \in 1..k : s[i] \in S
    OBVIOUS
<1> QED BY <1>1, SubSeqProperties

LEMMA BackFacts ==
    ASSUME NEW S, NEW s \in Seq(S), NEW k \in 0..Len(s)
    PROVE  /\ SubSeq(s, k + 1, Len(s)) \in Seq(S)
           /\ Len(SubSeq(s, k + 1, Len(s))) = Len(s) - k
           /\ \A i \in 1..(Len(s) - k) : SubSeq(s, k + 1, Len(s))[i] = s[k + i]
<1>1. \A i \in (k + 1)..Len(s) : s[i] \in S
    OBVIOUS
<1>2. k + 1 \in Int /\ Len(s) \in Int
    OBVIOUS
<1>3. /\ SubSeq(s, k + 1, Len(s)) \in Seq(S)
      /\ Len(SubSeq(s, k + 1, Len(s))) = IF k + 1 <= Len(s) THEN Len(s) - (k + 1) + 1 ELSE 0
      /\ \A i \in 1..(Len(s) - (k + 1) + 1) : SubSeq(s, k + 1, Len(s))[i] = s[(k + 1) + i - 1]
    BY <1>1, <1>2, SubSeqProperties
<1>4. \A i \in 1..(Len(s) - k) : (k + 1) + i - 1 = k + i
    OBVIOUS
<1>5. Len(s) - (k + 1) + 1 = Len(s) - k
    OBVIOUS
<1> DEFINE back == SubSeq(s, k + 1, Len(s))
<1>6. back \in Seq(S) /\ Len(back) = Len(s) - k
    <2>1. CASE k + 1 <= Len(s)
        BY <1>3, <1>5, <2>1
    <2>2. CASE k = Len(s)
        <3>1. ~(k + 1 <= Len(s)) /\ Len(s) - k = 0
            BY <2>2
        <3> QED BY <1>3, <3>1
    <2>3. k + 1 <= Len(s) \/ k = Len(s)
        OBVIOUS
    <2> QED BY <2>1, <2>2, <2>3
<1>7. \A i \in 1..(Len(s) - k) : back[i] = s[k + i]
    <2> HIDE DEF back
    <2>1. \A i \in 1..(Len(s) - (k + 1) + 1) : back[i] = s[(k + 1) + i - 1]
        BY <1>3 DEF back
    <2> QED BY <1>4, <1>5, <2>1
<1> QED BY <1>6, <1>7

----------------------------------------------------------------------------
(* What the peer writes *)

\* A message: everything in front of its content, and the content.
Top(body) ==
    IF body = <<>> THEN <<"line", "cr", "lf", "cr", "lf">>
    ELSE <<"line", "cr", "lf", "length", "cr", "lf", "cr", "lf">>

LEMMA Joined ==
    ASSUME NEW S, NEW a \in Seq(S), NEW b \in Seq(S), NEW c \in Seq(S),
           Len(c) = Len(a) + Len(b),
           \A i \in 1..Len(c) : c[i] = IF i <= Len(a) THEN a[i] ELSE b[i - Len(a)]
    PROVE  a \o b = c
<1>1. /\ a \o b \in Seq(S)
      /\ Len(a \o b) = Len(a) + Len(b)
      /\ \A i \in 1..(Len(a) + Len(b)) :
            (a \o b)[i] = IF i <= Len(a) THEN a[i] ELSE b[i - Len(a)]
    BY ConcatProperties
<1>2. \A i \in 1..Len(a \o b) : (a \o b)[i] = c[i]
    BY <1>1
<1> QED BY <1>1, <1>2, SeqEqual

LEMMA TopFacts ==
    ASSUME NEW body \in Bodies
    PROVE  /\ Top(body) \in Seq(Chars)
           /\ Len(Top(body)) = IF body = <<>> THEN 5 ELSE 8
           /\ WriteHttp(body) = Top(body) \o body
<1>1. "line" \in Chars /\ "cr" \in Chars /\ "lf" \in Chars /\ "length" \in Chars
    BY DEF Chars
<1>2. body \in Seq(STRING)
    BY ConnAssumption
<1> DEFINE line == <<"line", "cr", "lf">>
           length == <<"length", "cr", "lf">>
           blank == <<"cr", "lf">>
<1>3. line \in Seq(Chars) /\ length \in Seq(Chars) /\ blank \in Seq(Chars)
    BY <1>1
<1>4. CASE body = <<>>
    <2>1. WriteHttp(body) = (line \o <<>>) \o blank \o body
        BY <1>4 DEF WriteHttp
    <2>2. line \o <<>> = line
        BY <1>3
    <2> DEFINE five == <<"line", "cr", "lf", "cr", "lf">>
    <2>3. line \o blank = five
        <3>1. five \in Seq(Chars) /\ Len(five) = Len(line) + Len(blank)
            BY <1>1
        <3>2. \A i \in 1..Len(five) : five[i] = IF i <= Len(line) THEN line[i] ELSE blank[i - Len(line)]
            OBVIOUS
        <3> HIDE DEF line, blank, five
        <3> QED BY <1>3, <3>1, <3>2, Joined
    <2> QED BY <1>1, <1>4, <2>1, <2>2, <2>3 DEF Top
<1>5. CASE body # <<>>
    <2>1. WriteHttp(body) = (line \o length) \o blank \o body
        BY <1>5 DEF WriteHttp
    <2> DEFINE six == <<"line", "cr", "lf", "length", "cr", "lf">>
               eight == <<"line", "cr", "lf", "length", "cr", "lf", "cr", "lf">>
    <2>2. line \o length = six
        <3>1. six \in Seq(Chars) /\ Len(six) = Len(line) + Len(length)
            BY <1>1
        <3>2. \A i \in 1..Len(six) : six[i] = IF i <= Len(line) THEN line[i] ELSE length[i - Len(line)]
            OBVIOUS
        <3> HIDE DEF line, length, six
        <3> QED BY <1>3, <3>1, <3>2, Joined
    <2>3. six \o blank = eight
        <3>1. six \in Seq(Chars) /\ eight \in Seq(Chars) /\ Len(eight) = Len(six) + Len(blank)
            BY <1>1
        <3>2. \A i \in 1..Len(eight) : eight[i] = IF i <= Len(six) THEN six[i] ELSE blank[i - Len(six)]
            OBVIOUS
        <3> HIDE DEF blank, six, eight
        <3> QED BY <1>3, <3>1, <3>2, Joined
    <2> QED BY <1>1, <1>5, <2>1, <2>2, <2>3 DEF Top
<1> QED BY <1>4, <1>5

LEMMA MessageFacts ==
    ASSUME NEW body \in Bodies
    PROVE  /\ body \in Seq(Chars)
           /\ WriteHttp(body) \in Seq(Chars)
           /\ Header(body) = IF body = <<>> THEN 5 ELSE 8
           /\ Len(WriteHttp(body)) = Header(body) + Len(body)
           /\ \A i \in 1..Header(body) : WriteHttp(body)[i] = Top(body)[i]
           /\ \A i \in 1..Len(body) : WriteHttp(body)[Header(body) + i] = body[i]
<1>1. body \in Seq(Chars)
    <2>1. body \in Seq(STRING)
        BY ConnAssumption
    <2>2. \A i \in 1..Len(body) : body[i] \in Chars
        BY <2>1 DEF Chars, Range
    <2> QED BY <2>1, <2>2
<1> DEFINE top == Top(body)
<1>2. /\ top \in Seq(Chars)
      /\ Len(top) = IF body = <<>> THEN 5 ELSE 8
      /\ WriteHttp(body) = top \o body
    BY TopFacts
<1> HIDE DEF top
<1>3. /\ top \o body \in Seq(Chars)
      /\ Len(top \o body) = Len(top) + Len(body)
      /\ \A i \in 1..(Len(top) + Len(body)) :
            (top \o body)[i] = IF i <= Len(top) THEN top[i] ELSE body[i - Len(top)]
    BY <1>1, <1>2, ConcatProperties
<1>4. Header(body) = Len(top) /\ Len(body) \in Nat /\ Len(top) \in Nat
    BY <1>1, <1>2, <1>3 DEF Header
<1>5. \A i \in 1..Header(body) : WriteHttp(body)[i] = top[i]
    BY <1>2, <1>3, <1>4
<1>6. \A i \in 1..Len(body) : WriteHttp(body)[Header(body) + i] = body[i]
    BY <1>2, <1>3, <1>4
<1> QED BY <1>1, <1>2, <1>3, <1>4, <1>5, <1>6 DEF top

\* A script and its text, message by message.
LEMMA ScriptFacts ==
    ASSUME NEW script \in Scripts
    PROVE  /\ Len(script) \in {1, 2}
           /\ \A k \in 1..Len(script) : script[k] \in Bodies
           /\ Text[script] \in Seq(Chars)
           /\ End(script, 0) = 0
           /\ Len(Text[script]) = End(script, Len(script))
           /\ \A k \in 1..Len(script) :
                 /\ End(script, k - 1) \in Nat
                 /\ End(script, k) = End(script, k - 1) + Len(WriteHttp(script[k]))
                 /\ End(script, k) <= Len(Text[script])
                 /\ \A i \in 1..Len(WriteHttp(script[k])) :
                       Text[script][End(script, k - 1) + i] = WriteHttp(script[k])[i]
<1>1. CASE \E body \in Bodies : script = <<body>>
    <2>1. PICK body \in Bodies : script = <<body>>
        BY <1>1
    <2>2. Len(script) = 1 /\ script[1] = body
        BY <2>1
    <2> DEFINE w == WriteHttp(body)
    <2>3. w \in Seq(Chars)
        BY MessageFacts
    <2>4. Text[script] = w \o <<>>
        BY <2>2 DEF Text
    <2> HIDE DEF w
    <2>5. Text[script] = w
        BY <2>3, <2>4
    <2>6. End(script, 0) = 0 /\ End(script, 1) = Len(w)
        BY <2>2 DEF End, w
    <2> QED BY <2>2, <2>3, <2>5, <2>6 DEF w
<1>2. CASE \E body, next \in Bodies : script = <<body, next>>
    <2>1. PICK body \in Bodies, next \in Bodies : script = <<body, next>>
        BY <1>2
    <2>2. Len(script) = 2 /\ script[1] = body /\ script[2] = next
        BY <2>1
    <2> DEFINE w == WriteHttp(body)
               v == WriteHttp(next)
    <2>3. w \in Seq(Chars) /\ v \in Seq(Chars)
        BY MessageFacts
    <2>4. Text[script] = w \o v
        <3>1. Text[script] = WriteHttp(script[1])
                \o (IF Len(script) = 1 THEN <<>> ELSE WriteHttp(script[2]))
            BY DEF Text
        <3> QED BY <2>2, <3>1
    <2>5. End(script, 0) = 0 /\ End(script, 1) = Len(w) /\ End(script, 2) = Len(Text[script])
        BY <2>2 DEF End
    <2> HIDE DEF w, v
    <2>6. /\ w \o v \in Seq(Chars)
          /\ Len(w \o v) = Len(w) + Len(v)
          /\ \A i \in 1..(Len(w) + Len(v)) :
                (w \o v)[i] = IF i <= Len(w) THEN w[i] ELSE v[i - Len(w)]
        BY <2>3, ConcatProperties
    <2>7. Len(w) \in Nat /\ Len(v) \in Nat
        BY <2>3
    <2>8. \A i \in 1..Len(v) : (w \o v)[Len(w) + i] = v[i]
        BY <2>6, <2>7
    <2>9. \A i \in 1..Len(w) : (w \o v)[0 + i] = w[i]
        BY <2>6, <2>7
    <2>10. Text[script] \in Seq(Chars) /\ Len(Text[script]) = Len(w) + Len(v)
        BY <2>4, <2>6
    <2>11. \A k \in 1..2 :
              /\ End(script, k - 1) \in Nat
              /\ End(script, k) = End(script, k - 1) + Len(WriteHttp(script[k]))
              /\ End(script, k) <= Len(Text[script])
        BY <2>2, <2>5, <2>7, <2>10 DEF w, v
    <2>12. \A i \in 1..Len(WriteHttp(script[1])) :
              Text[script][End(script, 1 - 1) + i] = WriteHttp(script[1])[i]
        BY <2>2, <2>4, <2>5, <2>9 DEF w
    <2>13. \A i \in 1..Len(WriteHttp(script[2])) :
              Text[script][End(script, 2 - 1) + i] = WriteHttp(script[2])[i]
        BY <2>2, <2>4, <2>5, <2>8 DEF v
    <2>14. 1..Len(script) = {1, 2}
        BY <2>2
    <2> QED BY <2>2, <2>5, <2>10, <2>11, <2>12, <2>13, <2>14
<1> QED BY <1>1, <1>2 DEF Scripts, OutScripts

----------------------------------------------------------------------------
(* Pieces of it *)

\* There is a socket, whose peer writes one of the scripts; how much that is.
OnSocket == scripts \in Seq(Scripts) /\ scripts # <<>>
Whole == Len(Text[scripts[sock]])

LEMMA SocketFacts ==
    ASSUME OnSocket
    PROVE  /\ sock \in Nat /\ sock > 0
           /\ scripts[sock] \in Scripts
           /\ Text[scripts[sock]] \in Seq(Chars)
           /\ Whole \in Nat
<1>1. sock \in Nat /\ sock > 0 /\ scripts[sock] \in Scripts
    BY DEF OnSocket, sock
<1>2. Text[scripts[sock]] \in Seq(Chars)
    BY <1>1, ScriptFacts
<1> QED BY <1>1, <1>2 DEF Whole

LEMMA BytesFacts ==
    ASSUME OnSocket, NEW a \in Nat, NEW b \in Nat, a <= b, b <= Whole
    PROVE  /\ Bytes(a, b) \in Seq(Byte)
           /\ Len(Bytes(a, b)) = b - a
           /\ \A i \in 1..(b - a) :
                 Bytes(a, b)[i] = [sock |-> sock, at |-> a + i, char |-> Text[scripts[sock]][a + i]]
<1> DEFINE text == Text[scripts[sock]]
           piece == Bytes(a, b)
<1>1. text \in Seq(Chars) /\ sock \in Nat /\ Len(text) = Whole
    BY SocketFacts DEF Whole
<1>2. piece = [i \in 1..(b - a) |-> [sock |-> sock, at |-> a + i, char |-> text[a + i]]]
    BY DEF Bytes
<1> HIDE DEF text, piece
<1>3. b - a \in Nat
    OBVIOUS
<1>4. \A i \in 1..(b - a) : piece[i] \in Byte
    <2> SUFFICES ASSUME NEW i \in 1..(b - a) PROVE piece[i] \in Byte
        OBVIOUS
    <2>1. a + i \in Nat /\ a + i \in 1..Len(text)
        BY <1>1
    <2>2. text[a + i] \in Chars
        BY <1>1, <2>1
    <2> QED BY <1>1, <1>2, <2>1, <2>2 DEF Byte
<1>5. piece \in Seq(Byte)
    <2>1. piece \in [1..(b - a) -> Byte]
        BY <1>2, <1>4
    <2> QED BY <1>3, <2>1
<1>6. Len(piece) = b - a
    BY <1>2, <1>3
<1> QED BY <1>2, <1>5, <1>6 DEF text, piece

LEMMA BytesNone ==
    ASSUME OnSocket, NEW a \in Nat, a <= Whole
    PROVE  Bytes(a, a) = <<>>
<1>1. Bytes(a, a) \in Seq(Byte) /\ Len(Bytes(a, a)) = 0
    BY BytesFacts
<1> QED BY <1>1

LEMMA BytesJoin ==
    ASSUME OnSocket, NEW a \in Nat, NEW b \in Nat, NEW c \in Nat,
           a <= b, b <= c, c <= Whole
    PROVE  Bytes(a, b) \o Bytes(b, c) = Bytes(a, c)
<1>1. Whole \in Nat
    BY SocketFacts
<1>2. a <= c /\ b <= Whole
    BY <1>1
<1>3. /\ Bytes(a, b) \in Seq(Byte) /\ Len(Bytes(a, b)) = b - a
      /\ \A i \in 1..(b - a) :
            Bytes(a, b)[i] = [sock |-> sock, at |-> a + i, char |-> Text[scripts[sock]][a + i]]
    BY <1>2, BytesFacts
<1>4. /\ Bytes(b, c) \in Seq(Byte) /\ Len(Bytes(b, c)) = c - b
      /\ \A i \in 1..(c - b) :
            Bytes(b, c)[i] = [sock |-> sock, at |-> b + i, char |-> Text[scripts[sock]][b + i]]
    BY BytesFacts
<1>5. /\ Bytes(a, c) \in Seq(Byte) /\ Len(Bytes(a, c)) = c - a
      /\ \A i \in 1..(c - a) :
            Bytes(a, c)[i] = [sock |-> sock, at |-> a + i, char |-> Text[scripts[sock]][a + i]]
    BY <1>2, BytesFacts
<1>6. Len(Bytes(a, c)) = Len(Bytes(a, b)) + Len(Bytes(b, c))
    BY <1>3, <1>4, <1>5
<1>7. ASSUME NEW i \in 1..Len(Bytes(a, c))
      PROVE  Bytes(a, c)[i] = IF i <= Len(Bytes(a, b)) THEN Bytes(a, b)[i]
                              ELSE Bytes(b, c)[i - Len(Bytes(a, b))]
    <2>1. CASE i <= b - a
        <3>1. i \in 1..(b - a) /\ i \in 1..(c - a)
            BY <1>5, <2>1
        <3> QED BY <1>3, <1>5, <2>1, <3>1
    <2>2. CASE ~(i <= b - a)
        <3>1. i - (b - a) \in 1..(c - b) /\ i \in 1..(c - a) /\ b + (i - (b - a)) = a + i
            BY <1>5, <2>2
        <3>2. Bytes(b, c)[i - (b - a)] =
                [sock |-> sock, at |-> b + (i - (b - a)),
                 char |-> Text[scripts[sock]][b + (i - (b - a))]]
            BY <1>4, <3>1
        <3> QED BY <1>3, <1>5, <2>2, <3>1, <3>2
    <2> QED BY <2>1, <2>2
<1> QED BY <1>3, <1>4, <1>5, <1>6, <1>7, Joined

LEMMA BytesCut ==
    ASSUME OnSocket, NEW a \in Nat, NEW b \in Nat, a <= b, b <= Whole, NEW k \in 0..(b - a)
    PROVE  /\ SubSeq(Bytes(a, b), 1, k) = Bytes(a, a + k)
           /\ SubSeq(Bytes(a, b), k + 1, Len(Bytes(a, b))) = Bytes(a + k, b)
<1>1. Whole \in Nat /\ a + k \in Nat /\ a <= a + k /\ a + k <= b /\ a + k <= Whole
    BY SocketFacts
<1> DEFINE all == Bytes(a, b)
           front == Bytes(a, a + k)
           back == Bytes(a + k, b)
<1>2. /\ all \in Seq(Byte) /\ Len(all) = b - a
      /\ \A i \in 1..(b - a) :
            all[i] = [sock |-> sock, at |-> a + i, char |-> Text[scripts[sock]][a + i]]
    BY BytesFacts
<1>3. /\ front \in Seq(Byte) /\ Len(front) = (a + k) - a
      /\ \A i \in 1..((a + k) - a) :
            front[i] = [sock |-> sock, at |-> a + i, char |-> Text[scripts[sock]][a + i]]
    BY <1>1, BytesFacts
<1>4. /\ back \in Seq(Byte) /\ Len(back) = b - (a + k)
      /\ \A i \in 1..(b - (a + k)) :
            back[i] = [sock |-> sock, at |-> (a + k) + i, char |-> Text[scripts[sock]][(a + k) + i]]
    BY <1>1, BytesFacts
<1> HIDE DEF all, front, back
<1>5. SubSeq(all, 1, k) = front
    <2>1. /\ SubSeq(all, 1, k) \in Seq(Byte) /\ Len(SubSeq(all, 1, k)) = k
          /\ \A i \in 1..k : SubSeq(all, 1, k)[i] = all[i]
        BY <1>2, FrontFacts
    <2>2. \A i \in 1..k : all[i] = front[i]
        BY <1>2, <1>3
    <2>3. Len(front) = k
        BY <1>3
    <2> QED BY <1>3, <2>1, <2>2, <2>3, SeqEqual
<1>6. SubSeq(all, k + 1, Len(all)) = back
    <2>1. /\ SubSeq(all, k + 1, Len(all)) \in Seq(Byte)
          /\ Len(SubSeq(all, k + 1, Len(all))) = Len(all) - k
          /\ \A i \in 1..(Len(all) - k) : SubSeq(all, k + 1, Len(all))[i] = all[k + i]
        BY <1>2, BackFacts
    <2>2. ASSUME NEW i \in 1..(Len(all) - k) PROVE all[k + i] = back[i]
        <3>1. k + i \in 1..(b - a) /\ i \in 1..(b - (a + k)) /\ a + (k + i) = (a + k) + i
            BY <1>2
        <3>2. all[k + i] = [sock |-> sock, at |-> a + (k + i), char |-> Text[scripts[sock]][a + (k + i)]]
            BY <1>2, <3>1
        <3> QED BY <1>4, <3>1, <3>2
    <2>3. Len(back) = Len(all) - k
        BY <1>2, <1>4
    <2> QED BY <1>4, <2>1, <2>2, <2>3, SeqEqual
<1> QED BY <1>5, <1>6 DEF all, front, back

----------------------------------------------------------------------------
(* Read *)

\* What Read(n) may return: the next bytes, of those given back or of the
\* socket, in either case the ones behind what is in the buffer.
LEMMA ReadFacts ==
    ASSUME OnSocket, rcvd \in Nat, sent \in Nat, rcvd <= sent, sent <= Whole,
           unget \in Seq(Byte), Len(unget) <= rcvd, unget = Bytes(Here, rcvd),
           NEW n \in Nat, n > 0, NEW r \in Read(n)
    PROVE  /\ r.ok \in BOOLEAN
           /\ r.data \in Seq(Byte) /\ Len(r.data) <= n
           /\ r.rcvd \in Nat /\ rcvd <= r.rcvd /\ r.rcvd <= sent
           /\ Here \in Nat /\ Here + Len(r.data) <= r.rcvd
           /\ r.data = Bytes(Here, Here + Len(r.data))
           /\ r.left = Bytes(Here + Len(r.data), r.rcvd)
           /\ r.data = <<>> => unget = <<>> /\ r.left = <<>> /\ r.rcvd = rcvd
           /\ r.ok /\ r.data = <<>> => fault = "eof" /\ rcvd = sent
           /\ ~r.ok => fault = "reset" /\ r.data = <<>>
<1>0. /\ Whole \in Nat /\ Here \in Nat /\ Here <= rcvd /\ rcvd <= Whole
      /\ Len(unget) \in Nat /\ Here + Len(unget) = rcvd
    BY SocketFacts DEF Here
<1>1. CASE unget # <<>>
    <2> DEFINE k == Min({n, Len(unget)})
    <2>1. r = Get(n)
        BY <1>1 DEF Read
    <2>2. k \in 0..Len(unget) /\ k <= n /\ k > 0
        <3>1. Len(unget) > 0
            BY <1>1
        <3> QED BY <1>0, <3>1, MinOfTwo
    <2>3. /\ r.ok = TRUE
          /\ r.data = SubSeq(unget, 1, k)
          /\ r.left = SubSeq(unget, k + 1, Len(unget))
          /\ r.rcvd = rcvd
        BY <1>1, <2>1 DEF Get, Got
    <2> HIDE DEF k
    <2>4. k \in 0..(rcvd - Here)
        BY <1>0, <2>2
    <2>5. r.data = Bytes(Here, Here + k) /\ r.left = Bytes(Here + k, rcvd)
        <3>1. /\ SubSeq(Bytes(Here, rcvd), 1, k) = Bytes(Here, Here + k)
              /\ SubSeq(Bytes(Here, rcvd), k + 1, Len(Bytes(Here, rcvd))) = Bytes(Here + k, rcvd)
            BY <1>0, <2>4, BytesCut
        <3> QED BY <2>3, <3>1
    <2>6. r.data \in Seq(Byte) /\ Len(r.data) = k
        BY <2>2, <2>3, FrontFacts
    <2>7. r.data # <<>>
        BY <2>2, <2>6
    <2>8. Here + k <= rcvd
        BY <1>0, <2>4
    <2>c1. r.ok \in BOOLEAN
        BY <1>0, <2>2, <2>3, <2>5, <2>6, <2>7, <2>8
    <2>c2. r.data \in Seq(Byte) /\ Len(r.data) <= n
        BY <1>0, <2>2, <2>3, <2>5, <2>6, <2>7, <2>8
    <2>c3. r.rcvd \in Nat /\ rcvd <= r.rcvd /\ r.rcvd <= sent
        BY <1>0, <2>2, <2>3, <2>5, <2>6, <2>7, <2>8
    <2>c4. Here \in Nat /\ Here + Len(r.data) <= r.rcvd
        BY <1>0, <2>2, <2>3, <2>5, <2>6, <2>7, <2>8
    <2>c5. r.data = Bytes(Here, Here + Len(r.data)) /\ r.left = Bytes(Here + Len(r.data), r.rcvd)
        BY <1>0, <2>2, <2>3, <2>5, <2>6, <2>7, <2>8
    <2>c6. r.data = <<>> => unget = <<>> /\ r.left = <<>> /\ r.rcvd = rcvd
        BY <1>0, <2>2, <2>3, <2>5, <2>6, <2>7, <2>8
    <2>c7. r.ok /\ r.data = <<>> => fault = "eof" /\ rcvd = sent
        BY <1>0, <2>2, <2>3, <2>5, <2>6, <2>7, <2>8
    <2>c8. ~r.ok => fault = "reset" /\ r.data = <<>>
        BY <1>0, <2>2, <2>3, <2>5, <2>6, <2>7, <2>8
    <2> QED BY <2>c1, <2>c2, <2>c3, <2>c4, <2>c5, <2>c6, <2>c7, <2>c8
<1>2. CASE unget = <<>>
    <2>0. Here = rcvd
        BY <1>2 DEF Here
    <2>1. CASE r \in {Got(Bytes(rcvd, rcvd + k), <<>>) : k \in 1..Min({n, sent - rcvd})}
        <3>1. PICK k \in 1..Min({n, sent - rcvd}) : r = Got(Bytes(rcvd, rcvd + k), <<>>)
            BY <2>1
        <3>2. sent - rcvd \in Nat
            OBVIOUS
        <3>3. k \in Nat /\ k > 0 /\ k <= n /\ rcvd + k <= sent /\ rcvd + k \in Nat /\ rcvd + k <= Whole
            <4>1. Min({n, sent - rcvd}) \in Nat /\ Min({n, sent - rcvd}) <= n
                  /\ Min({n, sent - rcvd}) <= sent - rcvd
                BY <3>2, MinOfTwo
            <4> QED BY <1>0, <4>1
        <3> DEFINE d == Bytes(rcvd, rcvd + k)
        <3>4. d \in Seq(Byte) /\ Len(d) = (rcvd + k) - rcvd
            BY <3>3, BytesFacts
        <3>5. Len(d) = k /\ d # <<>>
            BY <3>3, <3>4
        <3>6. Bytes(rcvd + k, rcvd + k) = <<>>
            BY <3>3, BytesNone
        <3>7. r.ok = TRUE /\ r.data = d /\ r.left = <<>> /\ r.rcvd = rcvd + k
            BY <1>2, <3>1, <3>5 DEF Got
        <3>8. Here + Len(r.data) = rcvd + k
            BY <2>0, <3>5, <3>7
        <3>9. r.data = Bytes(Here, Here + Len(r.data)) /\ r.left = Bytes(Here + Len(r.data), r.rcvd)
            BY <2>0, <3>6, <3>7, <3>8
        <3>c1. r.ok \in BOOLEAN
            BY <1>0, <2>0, <3>3, <3>4, <3>5, <3>7, <3>8, <3>9
        <3>c2. r.data \in Seq(Byte) /\ Len(r.data) <= n
            BY <1>0, <2>0, <3>3, <3>4, <3>5, <3>7, <3>8, <3>9
        <3>c3. r.rcvd \in Nat /\ rcvd <= r.rcvd /\ r.rcvd <= sent
            BY <1>0, <2>0, <3>3, <3>4, <3>5, <3>7, <3>8, <3>9
        <3>c4. Here \in Nat /\ Here + Len(r.data) <= r.rcvd
            BY <1>0, <2>0, <3>3, <3>4, <3>5, <3>7, <3>8, <3>9
        <3>c5. r.data = Bytes(Here, Here + Len(r.data)) /\ r.left = Bytes(Here + Len(r.data), r.rcvd)
            BY <1>0, <2>0, <3>3, <3>4, <3>5, <3>7, <3>8, <3>9
        <3>c6. r.data = <<>> => unget = <<>> /\ r.left = <<>> /\ r.rcvd = rcvd
            BY <1>0, <2>0, <3>3, <3>4, <3>5, <3>7, <3>8, <3>9
        <3>c7. r.ok /\ r.data = <<>> => fault = "eof" /\ rcvd = sent
            BY <1>0, <2>0, <3>3, <3>4, <3>5, <3>7, <3>8, <3>9
        <3>c8. ~r.ok => fault = "reset" /\ r.data = <<>>
            BY <1>0, <2>0, <3>3, <3>4, <3>5, <3>7, <3>8, <3>9
        <3> QED BY <3>c1, <3>c2, <3>c3, <3>c4, <3>c5, <3>c6, <3>c7, <3>c8
    <2>2. CASE fault = "eof" /\ rcvd = sent /\ r = Got(<<>>, <<>>)
        <3>1. r.ok = TRUE /\ r.data = <<>> /\ r.left = <<>> /\ r.rcvd = rcvd
            BY <1>2, <2>2 DEF Got
        <3>2. Bytes(rcvd, rcvd) = <<>>
            BY <1>0, BytesNone
        <3>3. Here + Len(r.data) = rcvd /\ Len(r.data) = 0
            BY <1>0, <2>0, <3>1
        <3>4. r.data = Bytes(Here, Here + Len(r.data)) /\ r.left = Bytes(Here + Len(r.data), r.rcvd)
            BY <2>0, <3>1, <3>2, <3>3
        <3>5. r.data \in Seq(Byte)
            BY <3>1
        <3>c1. r.ok \in BOOLEAN
            BY <1>0, <1>2, <2>0, <2>2, <3>1, <3>3, <3>4, <3>5
        <3>c2. r.data \in Seq(Byte) /\ Len(r.data) <= n
            BY <1>0, <1>2, <2>0, <2>2, <3>1, <3>3, <3>4, <3>5
        <3>c3. r.rcvd \in Nat /\ rcvd <= r.rcvd /\ r.rcvd <= sent
            BY <1>0, <1>2, <2>0, <2>2, <3>1, <3>3, <3>4, <3>5
        <3>c4. Here \in Nat /\ Here + Len(r.data) <= r.rcvd
            BY <1>0, <1>2, <2>0, <2>2, <3>1, <3>3, <3>4, <3>5
        <3>c5. r.data = Bytes(Here, Here + Len(r.data)) /\ r.left = Bytes(Here + Len(r.data), r.rcvd)
            BY <1>0, <1>2, <2>0, <2>2, <3>1, <3>3, <3>4, <3>5
        <3>c6. r.data = <<>> => unget = <<>> /\ r.left = <<>> /\ r.rcvd = rcvd
            BY <1>0, <1>2, <2>0, <2>2, <3>1, <3>3, <3>4, <3>5
        <3>c7. r.ok /\ r.data = <<>> => fault = "eof" /\ rcvd = sent
            BY <1>0, <1>2, <2>0, <2>2, <3>1, <3>3, <3>4, <3>5
        <3>c8. ~r.ok => fault = "reset" /\ r.data = <<>>
            BY <1>0, <1>2, <2>0, <2>2, <3>1, <3>3, <3>4, <3>5
        <3> QED BY <3>c1, <3>c2, <3>c3, <3>c4, <3>c5, <3>c6, <3>c7, <3>c8
    <2>3. CASE fault = "reset" /\ r = Lost
        <3>1. r.ok = FALSE /\ r.data = <<>> /\ r.left = <<>> /\ r.rcvd = rcvd
            BY <2>3 DEF Lost
        <3>2. Bytes(rcvd, rcvd) = <<>>
            BY <1>0, BytesNone
        <3>3. Here + Len(r.data) = rcvd /\ Len(r.data) = 0
            BY <1>0, <2>0, <3>1
        <3>4. r.data = Bytes(Here, Here + Len(r.data)) /\ r.left = Bytes(Here + Len(r.data), r.rcvd)
            BY <2>0, <3>1, <3>2, <3>3
        <3>5. r.data \in Seq(Byte)
            BY <3>1
        <3>c1. r.ok \in BOOLEAN
            BY <1>0, <1>2, <2>0, <2>3, <3>1, <3>3, <3>4, <3>5
        <3>c2. r.data \in Seq(Byte) /\ Len(r.data) <= n
            BY <1>0, <1>2, <2>0, <2>3, <3>1, <3>3, <3>4, <3>5
        <3>c3. r.rcvd \in Nat /\ rcvd <= r.rcvd /\ r.rcvd <= sent
            BY <1>0, <1>2, <2>0, <2>3, <3>1, <3>3, <3>4, <3>5
        <3>c4. Here \in Nat /\ Here + Len(r.data) <= r.rcvd
            BY <1>0, <1>2, <2>0, <2>3, <3>1, <3>3, <3>4, <3>5
        <3>c5. r.data = Bytes(Here, Here + Len(r.data)) /\ r.left = Bytes(Here + Len(r.data), r.rcvd)
            BY <1>0, <1>2, <2>0, <2>3, <3>1, <3>3, <3>4, <3>5
        <3>c6. r.data = <<>> => unget = <<>> /\ r.left = <<>> /\ r.rcvd = rcvd
            BY <1>0, <1>2, <2>0, <2>3, <3>1, <3>3, <3>4, <3>5
        <3>c7. r.ok /\ r.data = <<>> => fault = "eof" /\ rcvd = sent
            BY <1>0, <1>2, <2>0, <2>3, <3>1, <3>3, <3>4, <3>5
        <3>c8. ~r.ok => fault = "reset" /\ r.data = <<>>
            BY <1>0, <1>2, <2>0, <2>3, <3>1, <3>3, <3>4, <3>5
        <3> QED BY <3>c1, <3>c2, <3>c3, <3>c4, <3>c5, <3>c6, <3>c7, <3>c8
    <2>4. r \in {Got(Bytes(rcvd, rcvd + k), <<>>) : k \in 1..Min({n, sent - rcvd})}
                \cup (IF fault = "eof" /\ rcvd = sent THEN {Got(<<>>, <<>>)} ELSE {})
                \cup (IF fault = "reset" THEN {Lost} ELSE {})
        BY <1>2 DEF Read
    <2> QED BY <2>1, <2>2, <2>3, <2>4
<1> QED BY <1>1, <1>2

----------------------------------------------------------------------------
(* Where a header ends *)

\* Where these ends are in the text of a socket.
Crlf(text, p) == text[p - 3] = "cr" /\ text[p - 2] = "lf" /\ text[p - 1] = "cr" /\ text[p] = "lf"
Lflf(text, p) == text[p - 1] = "lf" /\ text[p] = "lf"
Length(text, p) == text[p - 1] = "lf" /\ text[p] = "length"

LEMMA EndsFacts ==
    ASSUME OnSocket, NEW a \in Nat, NEW b \in Nat, a <= b, b <= Whole
    PROVE  /\ Ends(Bytes(a, b), <<"cr", "lf", "cr", "lf">>)
                = {i \in 4..(b - a) : Crlf(Text[scripts[sock]], a + i)}
           /\ Ends(Bytes(a, b), <<"lf", "lf">>)
                = {i \in 2..(b - a) : Lflf(Text[scripts[sock]], a + i)}
           /\ Ends(Bytes(a, b), <<"lf", "length">>)
                = {i \in 2..(b - a) : Length(Text[scripts[sock]], a + i)}
<1> DEFINE text == Text[scripts[sock]]
           h == Bytes(a, b)
<1>1. /\ Len(h) = b - a
      /\ \A i \in 1..(b - a) : h[i].char = text[a + i]
    <2>1. /\ Len(h) = b - a
          /\ \A i \in 1..(b - a) : h[i] = [sock |-> sock, at |-> a + i, char |-> text[a + i]]
        BY BytesFacts
    <2>2. \A i \in 1..(b - a) : h[i].char = text[a + i]
        <3> SUFFICES ASSUME NEW i \in 1..(b - a) PROVE h[i].char = text[a + i]
            OBVIOUS
        <3>1. h[i] = [sock |-> sock, at |-> a + i, char |-> text[a + i]]
            BY <2>1
        <3> HIDE DEF text, h
        <3> QED BY <3>1
    <2> QED BY <2>1, <2>2
<1> HIDE DEF text, h
<1>2. ASSUME NEW i \in 4..(b - a)
      PROVE  (\A j \in 1..4 : h[i - 4 + j].char = <<"cr", "lf", "cr", "lf">>[j]) <=> Crlf(text, a + i)
    <2>1. i - 4 + 1 \in 1..(b - a) /\ i - 4 + 2 \in 1..(b - a) /\ i - 4 + 3 \in 1..(b - a)
          /\ i - 4 + 4 \in 1..(b - a)
        OBVIOUS
    <2>2. /\ a + (i - 4 + 1) = a + i - 3 /\ a + (i - 4 + 2) = a + i - 2
          /\ a + (i - 4 + 3) = a + i - 1 /\ a + (i - 4 + 4) = a + i
        OBVIOUS
    <2>3. /\ h[i - 4 + 1].char = text[a + i - 3] /\ h[i - 4 + 2].char = text[a + i - 2]
          /\ h[i - 4 + 3].char = text[a + i - 1] /\ h[i - 4 + 4].char = text[a + i]
        BY <1>1, <2>1, <2>2
    <2>4. 1..4 = {1, 2, 3, 4}
        OBVIOUS
    <2> QED BY <2>3, <2>4 DEF Crlf
<1>3. ASSUME NEW i \in 2..(b - a)
      PROVE  /\ (\A j \in 1..2 : h[i - 2 + j].char = <<"lf", "lf">>[j]) <=> Lflf(text, a + i)
             /\ (\A j \in 1..2 : h[i - 2 + j].char = <<"lf", "length">>[j]) <=> Length(text, a + i)
    <2>1. i - 2 + 1 \in 1..(b - a) /\ i - 2 + 2 \in 1..(b - a)
        OBVIOUS
    <2>2. a + (i - 2 + 1) = a + i - 1 /\ a + (i - 2 + 2) = a + i
        OBVIOUS
    <2>3. h[i - 2 + 1].char = text[a + i - 1] /\ h[i - 2 + 2].char = text[a + i]
        BY <1>1, <2>1, <2>2
    <2>4. 1..2 = {1, 2}
        OBVIOUS
    <2> QED BY <2>3, <2>4 DEF Lflf, Length
<1>4. Ends(h, <<"cr", "lf", "cr", "lf">>)
        = {i \in 4..(b - a) : \A j \in 1..4 : h[i - 4 + j].char = <<"cr", "lf", "cr", "lf">>[j]}
    BY <1>1 DEF Ends
<1>5. Ends(h, <<"lf", "lf">>)
        = {i \in 2..(b - a) : \A j \in 1..2 : h[i - 2 + j].char = <<"lf", "lf">>[j]}
    BY <1>1 DEF Ends
<1>6. Ends(h, <<"lf", "length">>)
        = {i \in 2..(b - a) : \A j \in 1..2 : h[i - 2 + j].char = <<"lf", "length">>[j]}
    BY <1>1 DEF Ends
<1>7. Ends(h, <<"cr", "lf", "cr", "lf">>) = {i \in 4..(b - a) : Crlf(text, a + i)}
    BY <1>2, <1>4
<1>8. Ends(h, <<"lf", "lf">>) = {i \in 2..(b - a) : Lflf(text, a + i)}
    BY <1>3, <1>5
<1>9. Ends(h, <<"lf", "length">>) = {i \in 2..(b - a) : Length(text, a + i)}
    BY <1>3, <1>6
<1> QED BY <1>7, <1>8, <1>9 DEF text, h

\* How a message begins.
LEMMA StartFacts ==
    ASSUME NEW script \in Scripts, NEW k \in 1..Len(script)
    PROVE  LET from == End(script, k - 1)
               text == Text[script]
           IN  /\ from \in Nat
               /\ Header(script[k]) = IF script[k] = <<>> THEN 5 ELSE 8
               /\ from + Header(script[k]) + Len(script[k]) = End(script, k)
               /\ Len(script[k]) \in Nat
               /\ End(script, k) <= Len(text) /\ Len(text) \in Nat
               /\ text[from + 1] = "line" /\ text[from + 2] = "cr" /\ text[from + 3] = "lf"
               /\ script[k] = <<>> => text[from + 4] = "cr" /\ text[from + 5] = "lf"
               /\ script[k] # <<>> =>
                    /\ text[from + 4] = "length" /\ text[from + 5] = "cr" /\ text[from + 6] = "lf"
                    /\ text[from + 7] = "cr" /\ text[from + 8] = "lf"
<1> DEFINE from == End(script, k - 1)
           text == Text[script]
           body == script[k]
           w == WriteHttp(body)
<1>1. /\ body \in Bodies /\ from \in Nat /\ End(script, k) = from + Len(w)
      /\ End(script, k) <= Len(text) /\ text \in Seq(Chars)
      /\ \A i \in 1..Len(w) : text[from + i] = w[i]
    BY ScriptFacts
<1> HIDE DEF from, text, body, w
<1>2. /\ body \in Seq(Chars)
      /\ Header(body) = IF body = <<>> THEN 5 ELSE 8
      /\ Len(w) = Header(body) + Len(body)
      /\ \A i \in 1..Header(body) : w[i] = Top(body)[i]
    BY <1>1, MessageFacts DEF w
<1>3. Len(body) \in Nat /\ Len(text) \in Nat
    BY <1>1, <1>2
<1>4. \A i \in 1..Header(body) : i \in 1..Len(w) /\ text[from + i] = Top(body)[i]
    BY <1>1, <1>2, <1>3
<1>5. CASE body = <<>>
    <2>1. Header(body) = 5
        BY <1>2, <1>5
    <2>2. /\ text[from + 1] = Top(body)[1] /\ text[from + 2] = Top(body)[2]
          /\ text[from + 3] = Top(body)[3] /\ text[from + 4] = Top(body)[4]
          /\ text[from + 5] = Top(body)[5]
        BY <1>4, <2>1
    <2>3. Top(body) = <<"line", "cr", "lf", "cr", "lf">>
        BY <1>5 DEF Top
    <2> QED BY <1>1, <1>2, <1>3, <1>5, <2>1, <2>2, <2>3 DEF from, text, body
<1>6. CASE body # <<>>
    <2>1. Header(body) = 8
        BY <1>2, <1>6
    <2>2. /\ text[from + 1] = Top(body)[1] /\ text[from + 2] = Top(body)[2]
          /\ text[from + 3] = Top(body)[3] /\ text[from + 4] = Top(body)[4]
          /\ text[from + 5] = Top(body)[5] /\ text[from + 6] = Top(body)[6]
          /\ text[from + 7] = Top(body)[7] /\ text[from + 8] = Top(body)[8]
        BY <1>4, <2>1
    <2>3. Top(body) = <<"line", "cr", "lf", "length", "cr", "lf", "cr", "lf">>
        BY <1>6 DEF Top
    <2>4. /\ text[from + 1] = "line" /\ text[from + 2] = "cr" /\ text[from + 3] = "lf"
          /\ text[from + 4] = "length" /\ text[from + 5] = "cr" /\ text[from + 6] = "lf"
          /\ text[from + 7] = "cr" /\ text[from + 8] = "lf"
        BY <2>2, <2>3
    <2>5. from + Header(body) + Len(body) = End(script, k)
        BY <1>1, <1>2, <1>3
    <2> QED BY <1>1, <1>2, <1>3, <1>6, <2>4, <2>5 DEF from, text, body
<1> QED BY <1>5, <1>6

\* No header seems to end within the one a message without content begins with.
LEMMA ShortTop ==
    ASSUME NEW text, NEW from \in Nat,
           text[from + 1] = "line",
           text[from + 2] = "cr",
           text[from + 3] = "lf",
           text[from + 4] = "cr",
           text[from + 5] = "lf",
           NEW i \in 1..5
    PROVE  /\ i >= 4 => (Crlf(text, from + i) <=> i = 5)
           /\ i >= 2 => ~Lflf(text, from + i)
           /\ i >= 2 => (Length(text, from + i) <=> FALSE)
<1>1. CASE i = 1
    <2>1. from + i = from + 1
        BY <1>1
    <2>2. text[from + i] = "line"
        BY <2>1
    <2> QED BY <1>1, <2>2 DEF Crlf, Lflf, Length
<1>2. CASE i = 2
    <2>1. from + i = from + 2 /\ from + i - 1 = from + 1
        BY <1>2
    <2>2. text[from + i] = "cr" /\ text[from + i - 1] = "line"
        BY <2>1
    <2> QED BY <1>2, <2>2 DEF Crlf, Lflf, Length
<1>3. CASE i = 3
    <2>1. from + i = from + 3 /\ from + i - 1 = from + 2 /\ from + i - 2 = from + 1
        BY <1>3
    <2>2. text[from + i] = "lf" /\ text[from + i - 1] = "cr" /\ text[from + i - 2] = "line"
        BY <2>1
    <2> QED BY <1>3, <2>2 DEF Crlf, Lflf, Length
<1>4. CASE i = 4
    <2>1. from + i = from + 4 /\ from + i - 1 = from + 3 /\ from + i - 2 = from + 2 /\ from + i - 3 = from + 1
        BY <1>4
    <2>2. text[from + i] = "cr" /\ text[from + i - 1] = "lf" /\ text[from + i - 2] = "cr" /\ text[from + i - 3] = "line"
        BY <2>1
    <2> QED BY <1>4, <2>2 DEF Crlf, Lflf, Length
<1>5. CASE i = 5
    <2>1. from + i = from + 5 /\ from + i - 1 = from + 4 /\ from + i - 2 = from + 3 /\ from + i - 3 = from + 2
        BY <1>5
    <2>2. text[from + i] = "lf" /\ text[from + i - 1] = "cr" /\ text[from + i - 2] = "lf" /\ text[from + i - 3] = "cr"
        BY <2>1
    <2> QED BY <1>5, <2>2 DEF Crlf, Lflf, Length
<1> QED BY <1>1, <1>2, <1>3, <1>4, <1>5

\* The same for one with content, in which there is one length.
LEMMA LongTop ==
    ASSUME NEW text, NEW from \in Nat,
           text[from + 1] = "line",
           text[from + 2] = "cr",
           text[from + 3] = "lf",
           text[from + 4] = "length",
           text[from + 5] = "cr",
           text[from + 6] = "lf",
           text[from + 7] = "cr",
           text[from + 8] = "lf",
           NEW i \in 1..8
    PROVE  /\ i >= 4 => (Crlf(text, from + i) <=> i = 8)
           /\ i >= 2 => ~Lflf(text, from + i)
           /\ i >= 2 => (Length(text, from + i) <=> i = 4)
<1>1. CASE i = 1
    <2>1. from + i = from + 1
        BY <1>1
    <2>2. text[from + i] = "line"
        BY <2>1
    <2> QED BY <1>1, <2>2 DEF Crlf, Lflf, Length
<1>2. CASE i = 2
    <2>1. from + i = from + 2 /\ from + i - 1 = from + 1
        BY <1>2
    <2>2. text[from + i] = "cr" /\ text[from + i - 1] = "line"
        BY <2>1
    <2> QED BY <1>2, <2>2 DEF Crlf, Lflf, Length
<1>3. CASE i = 3
    <2>1. from + i = from + 3 /\ from + i - 1 = from + 2 /\ from + i - 2 = from + 1
        BY <1>3
    <2>2. text[from + i] = "lf" /\ text[from + i - 1] = "cr" /\ text[from + i - 2] = "line"
        BY <2>1
    <2> QED BY <1>3, <2>2 DEF Crlf, Lflf, Length
<1>4. CASE i = 4
    <2>1. from + i = from + 4 /\ from + i - 1 = from + 3 /\ from + i - 2 = from + 2 /\ from + i - 3 = from + 1
        BY <1>4
    <2>2. text[from + i] = "length" /\ text[from + i - 1] = "lf" /\ text[from + i - 2] = "cr" /\ text[from + i - 3] = "line"
        BY <2>1
    <2> QED BY <1>4, <2>2 DEF Crlf, Lflf, Length
<1>5. CASE i = 5
    <2>1. from + i = from + 5 /\ from + i - 1 = from + 4 /\ from + i - 2 = from + 3 /\ from + i - 3 = from + 2
        BY <1>5
    <2>2. text[from + i] = "cr" /\ text[from + i - 1] = "length" /\ text[from + i - 2] = "lf" /\ text[from + i - 3] = "cr"
        BY <2>1
    <2> QED BY <1>5, <2>2 DEF Crlf, Lflf, Length
<1>6. CASE i = 6
    <2>1. from + i = from + 6 /\ from + i - 1 = from + 5 /\ from + i - 2 = from + 4 /\ from + i - 3 = from + 3
        BY <1>6
    <2>2. text[from + i] = "lf" /\ text[from + i - 1] = "cr" /\ text[from + i - 2] = "length" /\ text[from + i - 3] = "lf"
        BY <2>1
    <2> QED BY <1>6, <2>2 DEF Crlf, Lflf, Length
<1>7. CASE i = 7
    <2>1. from + i = from + 7 /\ from + i - 1 = from + 6 /\ from + i - 2 = from + 5 /\ from + i - 3 = from + 4
        BY <1>7
    <2>2. text[from + i] = "cr" /\ text[from + i - 1] = "lf" /\ text[from + i - 2] = "cr" /\ text[from + i - 3] = "length"
        BY <2>1
    <2> QED BY <1>7, <2>2 DEF Crlf, Lflf, Length
<1>8. CASE i = 8
    <2>1. from + i = from + 8 /\ from + i - 1 = from + 7 /\ from + i - 2 = from + 6 /\ from + i - 3 = from + 5
        BY <1>8
    <2>2. text[from + i] = "lf" /\ text[from + i - 1] = "cr" /\ text[from + i - 2] = "lf" /\ text[from + i - 3] = "cr"
        BY <2>1
    <2> QED BY <1>8, <2>2 DEF Crlf, Lflf, Length
<1> QED BY <1>1, <1>2, <1>3, <1>4, <1>5, <1>6, <1>7, <1>8

LEMMA TopOnly ==
    ASSUME NEW script \in Scripts, NEW k \in 1..Len(script), NEW i \in 1..Header(script[k])
    PROVE  LET from == End(script, k - 1)
               text == Text[script]
           IN  /\ i >= 4 => (Crlf(text, from + i) <=> i = Header(script[k]))
               /\ i >= 2 => ~Lflf(text, from + i)
               /\ i >= 2 => (Length(text, from + i) <=> script[k] # <<>> /\ i = 4)
<1> DEFINE from == End(script, k - 1)
           text == Text[script]
<1>1. /\ from \in Nat
      /\ Header(script[k]) = IF script[k] = <<>> THEN 5 ELSE 8
      /\ text[from + 1] = "line" /\ text[from + 2] = "cr" /\ text[from + 3] = "lf"
      /\ script[k] = <<>> => text[from + 4] = "cr" /\ text[from + 5] = "lf"
      /\ script[k] # <<>> =>
           /\ text[from + 4] = "length" /\ text[from + 5] = "cr" /\ text[from + 6] = "lf"
           /\ text[from + 7] = "cr" /\ text[from + 8] = "lf"
    BY StartFacts
<1> HIDE DEF from, text
<1>2. CASE script[k] = <<>>
    <2>1. Header(script[k]) = 5 /\ i \in 1..5
        BY <1>1, <1>2
    <2>2. /\ i >= 4 => (Crlf(text, from + i) <=> i = 5)
          /\ i >= 2 => ~Lflf(text, from + i)
          /\ i >= 2 => (Length(text, from + i) <=> FALSE)
        BY <1>1, <1>2, <2>1, ShortTop
    <2> QED BY <1>2, <2>1, <2>2 DEF from, text
<1>3. CASE script[k] # <<>>
    <2>1. Header(script[k]) = 8 /\ i \in 1..8
        BY <1>1, <1>3
    <2>2. /\ i >= 4 => (Crlf(text, from + i) <=> i = 8)
          /\ i >= 2 => ~Lflf(text, from + i)
          /\ i >= 2 => (Length(text, from + i) <=> i = 4)
        BY <1>1, <1>3, <2>1, LongTop
    <2> QED BY <1>3, <2>1, <2>2 DEF from, text
<1> QED BY <1>2, <1>3

\* Where ReadHttpHdr takes the header to end: within what it has; behind the
\* header, if it began where a message does, and nowhere as long as it has less
\* than that; and never within the header of the only message.
LEMMA HeaderEndFacts ==
    ASSUME OnSocket, NEW a \in Nat, NEW b \in Nat, a <= b, b <= Whole
    PROVE  /\ HeaderEnd(Bytes(a, b)) \in 0..(b - a)
           /\ \A k \in 1..Len(scripts[sock]) :
                 a = End(scripts[sock], k - 1) =>
                    HeaderEnd(Bytes(a, b)) =
                        IF b >= a + Header(scripts[sock][k]) THEN Header(scripts[sock][k]) ELSE 0
           /\ Len(scripts[sock]) = 1 /\ HeaderEnd(Bytes(a, b)) > 0 =>
                 a + HeaderEnd(Bytes(a, b)) >= Header(scripts[sock][1])
<1> DEFINE script == scripts[sock]
           text == Text[script]
           h == Bytes(a, b)
           C == {i \in 4..(b - a) : Crlf(text, a + i)}
           L == {i \in 2..(b - a) : Lflf(text, a + i)}
<1>1. script \in Scripts
    BY SocketFacts
<1>2. HeaderEnd(h) = IF C # {} THEN Min(C) ELSE IF L # {} THEN Min(L) ELSE 0
    BY EndsFacts DEF HeaderEnd
<1> HIDE DEF script, text, h
<1>3. C \in SUBSET Nat /\ L \in SUBSET Nat
    OBVIOUS
<1>4. \/ /\ C = {} /\ L = {} /\ HeaderEnd(h) = 0
      \/ /\ C = {} /\ HeaderEnd(h) \in L
      \/ /\ HeaderEnd(h) \in C /\ \A i \in C : HeaderEnd(h) <= i
    <2> HIDE DEF C, L
    <2>1. CASE C # {}
        BY <1>2, <1>3, <2>1, MinFacts
    <2>2. CASE C = {} /\ L # {}
        BY <1>2, <1>3, <2>2, MinFacts
    <2> QED BY <1>2, <2>1, <2>2
<1>5. HeaderEnd(h) \in 0..(b - a)
    BY <1>4
<1>6. ASSUME NEW k \in 1..Len(script), a = End(script, k - 1)
      PROVE  HeaderEnd(h) = IF b >= a + Header(script[k]) THEN Header(script[k]) ELSE 0
    <2>1. Header(script[k]) \in {5, 8}
        BY <1>1, StartFacts
    <2>2. \A i \in 1..Header(script[k]) :
              /\ i >= 4 => (Crlf(text, a + i) <=> i = Header(script[k]))
              /\ i >= 2 => ~Lflf(text, a + i)
        BY <1>1, <1>6, TopOnly DEF text
    <2> DEFINE n == Header(script[k])
    <2> HIDE DEF n
    <2>3. CASE b >= a + n
        <3>1. n \in C
            <4>1. n \in 1..n /\ n >= 4 /\ n \in 4..(b - a)
                BY <2>1, <2>3 DEF n
            <4> QED BY <2>2, <4>1 DEF n
        <3>2. \A i \in C : i >= n
            <4> SUFFICES ASSUME NEW i \in C, i < n PROVE FALSE
                BY <2>1 DEF n
            <4>1. i \in 1..n /\ i >= 4 /\ Crlf(text, a + i)
                BY <2>1 DEF n
            <4> QED BY <2>2, <4>1 DEF n
        <3>3. HeaderEnd(h) \in C /\ \A i \in C : HeaderEnd(h) <= i
            BY <1>4, <3>1
        <3>4. HeaderEnd(h) <= n /\ n <= HeaderEnd(h)
            BY <3>1, <3>2, <3>3
        <3>5. HeaderEnd(h) \in Nat /\ n \in Nat
            BY <1>5, <2>1 DEF n
        <3>6. HeaderEnd(h) = n
            BY <3>4, <3>5
        <3> QED BY <2>3, <3>6 DEF n
    <2>4. CASE ~(b >= a + n)
        <3>1. \A i \in C : FALSE
            <4> SUFFICES ASSUME NEW i \in C PROVE FALSE
                OBVIOUS
            <4>1. i \in 1..n /\ i >= 4 /\ Crlf(text, a + i) /\ i # n
                BY <2>1, <2>4 DEF n
            <4> QED BY <2>2, <4>1 DEF n
        <3>2. \A i \in L : FALSE
            <4> SUFFICES ASSUME NEW i \in L PROVE FALSE
                OBVIOUS
            <4>1. i \in 1..n /\ i >= 2 /\ Lflf(text, a + i)
                BY <2>1, <2>4 DEF n
            <4> QED BY <2>2, <4>1 DEF n
        <3>3. C = {} /\ L = {}
            BY <3>1, <3>2
        <3>4. HeaderEnd(h) = 0
            BY <1>4, <3>3
        <3> QED BY <2>4, <3>4 DEF n
    <2> QED BY <2>3, <2>4
<1>7. ASSUME Len(script) = 1, HeaderEnd(h) > 0
      PROVE  a + HeaderEnd(h) >= Header(script[1])
    <2> SUFFICES ASSUME a + HeaderEnd(h) < Header(script[1]) PROVE FALSE
        <3>1. Header(script[1]) \in {5, 8}
            BY <1>1, <1>7, StartFacts
        <3> QED BY <1>5, <3>1
    <2> DEFINE i == a + HeaderEnd(h)
    <2>1. Header(script[1]) \in {5, 8} /\ End(script, 0) = 0
        BY <1>1, <1>7, StartFacts, ScriptFacts
    <2>2. \A j \in 1..Header(script[1]) :
              /\ j >= 4 => (Crlf(text, 0 + j) <=> j = Header(script[1]))
              /\ j >= 2 => ~Lflf(text, 0 + j)
        <3>1. 1 \in 1..Len(script) /\ End(script, 1 - 1) = 0
            BY <1>7, <2>1
        <3> QED BY <1>1, <3>1, TopOnly DEF text
    <2>3. i \in 1..Header(script[1]) /\ 0 + i = i /\ i >= HeaderEnd(h) /\ i # Header(script[1])
        BY <1>5, <1>7, <2>1
    <2>4. HeaderEnd(h) \in C \/ HeaderEnd(h) \in L
        BY <1>4, <1>7
    <2>5. CASE HeaderEnd(h) \in C
        <3>1. i >= 4 /\ Crlf(text, i)
            BY <2>5
        <3> HIDE DEF i
        <3> QED BY <2>2, <2>3, <3>1
    <2>6. CASE HeaderEnd(h) \in L
        <3>1. i >= 2 /\ Lflf(text, i)
            BY <2>6
        <3> HIDE DEF i
        <3> QED BY <2>2, <2>3, <3>1
    <2> QED BY <2>4, <2>5, <2>6
<1> QED BY <1>5, <1>6, <1>7 DEF script, h

\* The length that ReadHttp finds: one of the peer's, and that of the message if
\* the header of one with content is all there.
LEMMA ContentSizeFacts ==
    ASSUME OnSocket, NEW a \in Nat, NEW b \in Nat, a <= b, b <= Whole
    PROVE  /\ ContentSize(Bytes(a, b)) \in Nat \cup {-1}
           /\ Len(scripts[sock]) = 1 =>
                 ContentSize(Bytes(a, b)) \in {Len(scripts[sock][1]), -1}
           /\ \A k \in 1..Len(scripts[sock]) :
                 a = End(scripts[sock], k - 1) /\ b = a + Header(scripts[sock][k])
                     /\ scripts[sock][k] # <<>> =>
                 ContentSize(Bytes(a, b)) = Len(scripts[sock][k])
<1> DEFINE script == scripts[sock]
           text == Text[script]
           h == Bytes(a, b)
           S == {i \in 2..(b - a) : Length(text, a + i)}
<1>1. /\ script \in Scripts /\ sock \in Nat
      /\ Len(script) \in {1, 2} /\ \A k \in 1..Len(script) : Len(script[k]) \in Nat
    BY SocketFacts, ScriptFacts, StartFacts
<1>2. /\ Len(h) = b - a
      /\ \A i \in 1..(b - a) : h[i] = [sock |-> sock, at |-> a + i, char |-> text[a + i]]
    BY BytesFacts
<1>3. Ends(h, <<"lf", "length">>) = S
    BY EndsFacts
<1> HIDE DEF h
<1>4. S = {} => ContentSize(h) = -1
    BY <1>3 DEF ContentSize
<1>5. S # {} => /\ Min(S) \in S /\ \A i \in S : Min(S) <= i
                /\ ContentSize(h) = Value(script, a + Min(S))
    <2> SUFFICES ASSUME S # {} 
                 PROVE  /\ Min(S) \in S /\ \A i \in S : Min(S) <= i
                        /\ ContentSize(h) = Value(script, a + Min(S))
        OBVIOUS
    <2>1. Min(S) \in S /\ \A i \in S : Min(S) <= i
        <3>1. S \in SUBSET Nat
            OBVIOUS
        <3> HIDE DEF S
        <3> QED BY <3>1, MinFacts
    <2>2. Min(S) \in 1..(b - a)
        BY <2>1
    <2> HIDE DEF S
    <2>3. h[Min(S)].sock = sock /\ h[Min(S)].at = a + Min(S)
        <3>1. h[Min(S)] = [sock |-> sock, at |-> a + Min(S), char |-> text[a + Min(S)]]
            BY <1>2, <2>2
        <3> QED BY <3>1
    <2>4. ContentSize(h) = Value(scripts[h[Min(S)].sock], h[Min(S)].at)
        BY <1>3 DEF ContentSize
    <2> QED BY <2>1, <2>3, <2>4
<1> HIDE DEF script, text
<1>6. ContentSize(h) \in Nat \cup {-1}
    <2>1. CASE S = {}
        BY <1>4, <2>1
    <2>2. CASE S # {}
        <3>1. Min(S) \in 2..(b - a) /\ ContentSize(h) = Value(script, a + Min(S))
            BY <1>5, <2>2
        <3>2. CASE Len(script) = 2
            BY <1>1, <3>1, <3>2 DEF Value
        <3>3. CASE Len(script) = 1
            <4>1. a + Min(S) <= End(script, 1)
                <5>1. Whole = End(script, 1)
                    BY <1>1, <3>3, ScriptFacts DEF Whole, script
                <5>2. Whole \in Nat
                    BY SocketFacts
                <5> QED BY <3>1, <5>1, <5>2
            <4> QED BY <1>1, <3>1, <3>3, <4>1 DEF Value
        <3> QED BY <1>1, <3>2, <3>3
    <2> QED BY <2>1, <2>2
<1>7. ASSUME Len(script) = 1 PROVE ContentSize(h) \in {Len(script[1]), -1}
    <2>1. CASE S = {}
        BY <1>4, <2>1
    <2>2. CASE S # {}
        <3>1. Min(S) \in 2..(b - a) /\ ContentSize(h) = Value(script, a + Min(S))
            BY <1>5, <2>2
        <3>2. a + Min(S) <= End(script, 1)
            <4>1. Whole = End(script, 1)
                BY <1>1, <1>7, ScriptFacts DEF Whole, script
            <4>2. Whole \in Nat
                BY SocketFacts
            <4> QED BY <3>1, <4>1, <4>2
        <3> QED BY <3>1, <3>2 DEF Value
    <2> QED BY <2>1, <2>2
<1>8. ASSUME NEW k \in 1..Len(script), a = End(script, k - 1), b = a + Header(script[k]), script[k] # <<>>
      PROVE  ContentSize(h) = Len(script[k])
    <2>1. Header(script[k]) = 8
        BY <1>1, <1>8, StartFacts
    <2>2. \A i \in 1..8 : i >= 2 => (Length(text, a + i) <=> i = 4)
        BY <1>1, <1>8, <2>1, TopOnly DEF text
    <2>3. b - a = 8
        BY <1>8, <2>1
    <2>4. S = {4}
        BY <2>2, <2>3
    <2> HIDE DEF S
    <2>5. Min(S) = 4 /\ ContentSize(h) = Value(script, a + 4)
        BY <1>5, <2>4
    <2>6. CASE k = 1
        <3>1. a + 4 <= End(script, 1)
            <4>1. a + 8 + Len(script[k]) = End(script, k) /\ Len(script[k]) \in Nat
                <5>1. /\ End(script, k - 1) + Header(script[k]) + Len(script[k]) = End(script, k)
                      /\ Len(script[k]) \in Nat
                    BY <1>1, StartFacts
                <5> QED BY <1>8, <2>1, <5>1
            <4>2. \A n \in Nat : a + 4 <= a + 8 + n
                OBVIOUS
            <4>3. a + 4 <= End(script, k)
                BY <4>1, <4>2
            <4> QED BY <2>6, <4>3
        <3> QED BY <2>5, <2>6, <3>1 DEF Value
    <2>7. CASE k = 2
        <3>1. a = End(script, 1)
            BY <1>8, <2>7
        <3>2. ~(a + 4 <= End(script, 1))
            BY <3>1
        <3> QED BY <2>5, <2>7, <3>2 DEF Value
    <2> QED BY <1>1, <2>6, <2>7
<1> QED BY <1>6, <1>7, <1>8 DEF script, h

----------------------------------------------------------------------------
(* The state in terms of pieces *)

LEMMA PieceFacts ==
    ASSUME OnSocket, NEW a \in Nat, NEW b \in Nat, a <= b, b <= Whole
    PROVE  /\ Piece(scripts, a, b) \in Seq(Byte)
           /\ Len(Piece(scripts, a, b)) = b - a
           /\ Piece(scripts, a, b) = Bytes(a, b)
           /\ a < b => Piece(scripts, a, b)[1].at = a + 1
<1>1. Piece(scripts, a, b) = Bytes(a, b)
    BY DEF Piece, Bytes, sock
<1>2. /\ Bytes(a, b) \in Seq(Byte) /\ Len(Bytes(a, b)) = b - a
      /\ \A i \in 1..(b - a) :
           Bytes(a, b)[i] = [sock |-> sock, at |-> a + i, char |-> Text[scripts[sock]][a + i]]
    BY BytesFacts
<1>3. ASSUME a < b PROVE Bytes(a, b)[1].at = a + 1
    <2>1. 1 \in 1..(b - a)
        BY <1>3
    <2>2. Bytes(a, b)[1] = [sock |-> sock, at |-> a + 1, char |-> Text[scripts[sock]][a + 1]]
        BY <1>2, <2>1
    <2> QED BY <2>2
<1> QED BY <1>1, <1>2, <1>3

LEMMA PieceNone ==
    ASSUME OnSocket, NEW a \in Nat, a <= Whole
    PROVE  Piece(scripts, a, a) = <<>>
BY PieceFacts, BytesNone

LEMMA PieceJoin ==
    ASSUME OnSocket, NEW a \in Nat, NEW b \in Nat, NEW c \in Nat,
           a <= b, b <= c, c <= Whole
    PROVE  Piece(scripts, a, b) \o Piece(scripts, b, c) = Piece(scripts, a, c)
<1>1. \A x, y : Piece(scripts, x, y) = Bytes(x, y)
    BY DEF Piece, Bytes, sock
<1>2. Bytes(a, b) \o Bytes(b, c) = Bytes(a, c)
    BY BytesJoin
<1> QED BY <1>1, <1>2

LEMMA PieceCut ==
    ASSUME OnSocket, NEW a \in Nat, NEW b \in Nat, a <= b, b <= Whole, NEW k \in 0..(b - a)
    PROVE  /\ SubSeq(Piece(scripts, a, b), 1, k) = Piece(scripts, a, a + k)
           /\ SubSeq(Piece(scripts, a, b), k + 1, Len(Piece(scripts, a, b)))
                = Piece(scripts, a + k, b)
<1>1. \A x, y : Piece(scripts, x, y) = Bytes(x, y)
    BY DEF Piece, Bytes, sock
<1>2. /\ SubSeq(Bytes(a, b), 1, k) = Bytes(a, a + k)
      /\ SubSeq(Bytes(a, b), k + 1, Len(Bytes(a, b))) = Bytes(a + k, b)
    BY BytesCut
<1> QED BY <1>1, <1>2

\* The state while the connection is open.
LEMMA OpenFacts ==
    ASSUME ConnTypes, Pieces, open
    PROVE  /\ OnSocket
           /\ scripts[sock] \in Scripts
           /\ Whole \in Nat /\ sent \in Nat /\ rcvd \in Nat /\ taken \in Nat
           /\ Here \in Nat /\ Behind \in Nat
           /\ taken <= Behind /\ Behind <= Here /\ Here <= rcvd /\ rcvd <= sent /\ sent <= Whole
           /\ Len(buf) \in Nat /\ Behind + Len(buf) = Here
           /\ Len(unget) \in Nat /\ Here + Len(unget) = rcvd
           /\ fault # "reset" => taken = Behind
           /\ buf = Piece(scripts, Behind, Here)
           /\ unget = Piece(scripts, Here, rcvd)
<1>1. /\ scripts \in Seq(Scripts) /\ scripts # <<>>
      /\ sent \in Nat /\ rcvd \in 0..sent /\ taken \in 0..rcvd
      /\ buf \in Seq(Byte) /\ unget \in Seq(Byte)
    BY DEF ConnTypes, Pieces
<1>2. OnSocket
    BY <1>1 DEF OnSocket
<1>3. Whole \in Nat /\ scripts[sock] \in Scripts
    BY <1>2, SocketFacts
<1>4. /\ sent <= Whole
      /\ taken <= Behind
      /\ fault # "reset" => taken = Behind
      /\ buf = Piece(scripts, Behind, Here)
      /\ unget = Piece(scripts, Here, rcvd)
    BY DEF Pieces, Whole
<1>5. Len(buf) \in Nat /\ Len(unget) \in Nat
    BY <1>1
<1>6. Behind \in Int /\ Here \in Int /\ Here = rcvd - Len(unget) /\ Behind = Here - Len(buf)
    BY <1>1, <1>5 DEF Behind, Here
<1> HIDE DEF Pieces
<1>7. /\ Here \in Nat /\ Behind \in Nat /\ Behind <= Here /\ Here <= rcvd /\ rcvd <= sent
      /\ Behind + Len(buf) = Here /\ Here + Len(unget) = rcvd
    BY <1>1, <1>4, <1>5, <1>6
<1> QED BY <1>1, <1>2, <1>3, <1>4, <1>5, <1>7

\* What a call that reads has after Read.
LEMMA Reading ==
    ASSUME ConnTypes, Pieces, open, NEW n \in Nat, n > 0, NEW r \in Read(n)
    PROVE  LET m == Here + Len(r.data)
           IN  /\ r.ok \in BOOLEAN
               /\ m \in Nat /\ Here <= m /\ m <= r.rcvd
               /\ r.rcvd \in Nat /\ rcvd <= r.rcvd /\ r.rcvd <= sent
               /\ r.data \in Seq(Byte) /\ Len(r.data) <= n /\ r.data = Piece(scripts, Here, m)
               /\ r.left \in Seq(Byte) /\ Len(r.left) = r.rcvd - m
               /\ r.left = Piece(scripts, m, r.rcvd)
               /\ buf \o r.data \in Seq(Byte) /\ Len(buf \o r.data) = m - Behind
               /\ buf \o r.data = Piece(scripts, Behind, m)
               /\ r.data = <<>> =>
                    m = Here /\ r.left = <<>> /\ r.rcvd = rcvd /\ rcvd = Here
               /\ r.ok /\ r.data = <<>> => fault = "eof" /\ rcvd = sent
               /\ ~r.ok => fault = "reset" /\ r.data = <<>>
<1> DEFINE m == Here + Len(r.data)
<1>1. /\ OnSocket
      /\ Whole \in Nat /\ sent \in Nat /\ rcvd \in Nat
      /\ Here \in Nat /\ Behind \in Nat
      /\ Behind <= Here /\ Here <= rcvd /\ rcvd <= sent /\ sent <= Whole
      /\ Len(unget) \in Nat /\ Here + Len(unget) = rcvd
      /\ buf = Piece(scripts, Behind, Here)
      /\ unget = Piece(scripts, Here, rcvd)
    BY OpenFacts
<1>2. unget \in Seq(Byte) /\ unget = Bytes(Here, rcvd) /\ Len(unget) <= rcvd
    <2>1. Here <= rcvd /\ rcvd <= Whole
        BY <1>1
    <2> QED BY <1>1, <2>1, PieceFacts
<1>3. /\ r.ok \in BOOLEAN
      /\ r.data \in Seq(Byte) /\ Len(r.data) <= n
      /\ r.rcvd \in Nat /\ rcvd <= r.rcvd /\ r.rcvd <= sent
      /\ Here + Len(r.data) <= r.rcvd
      /\ r.data = Bytes(Here, m)
      /\ r.left = Bytes(m, r.rcvd)
      /\ r.data = <<>> => unget = <<>> /\ r.left = <<>> /\ r.rcvd = rcvd
      /\ r.ok /\ r.data = <<>> => fault = "eof" /\ rcvd = sent
      /\ ~r.ok => fault = "reset" /\ r.data = <<>>
    BY <1>1, <1>2, ReadFacts
<1>4. Len(r.data) \in Nat /\ m \in Nat /\ Here <= m /\ m <= r.rcvd /\ m <= Whole /\ r.rcvd <= Whole
      /\ Behind <= m
    <2>1. Len(r.data) \in Nat
        BY <1>3
    <2>2. /\ Here \in Nat /\ Behind \in Nat /\ Behind <= Here
          /\ Whole \in Nat /\ sent \in Nat /\ sent <= Whole
        BY <1>1
    <2>3. r.rcvd \in Nat /\ r.rcvd <= sent /\ m <= r.rcvd
        BY <1>3
    <2> QED BY ONLY <2>1, <2>2, <2>3
<1>5. r.data = <<>> => m = Here /\ rcvd = Here
    BY <1>1, <1>3
<1> HIDE DEF m
<1>6. r.data = Piece(scripts, Here, m)
    BY <1>1, <1>3, <1>4, PieceFacts
<1>7. r.left = Piece(scripts, m, r.rcvd) /\ r.left \in Seq(Byte) /\ Len(r.left) = r.rcvd - m
    <2> DEFINE left == Piece(scripts, m, r.rcvd)
    <2>1. left = Bytes(m, r.rcvd) /\ left \in Seq(Byte) /\ Len(left) = r.rcvd - m
        BY <1>1, <1>3, <1>4, PieceFacts
    <2>2. r.left = left
        BY <1>3, <2>1
    <2> QED BY <2>1, <2>2
<1>8. buf \o r.data = Piece(scripts, Behind, m)
    <2>1. Piece(scripts, Behind, Here) \o Piece(scripts, Here, m) = Piece(scripts, Behind, m)
        <3>1. OnSocket /\ Behind \in Nat /\ Here \in Nat /\ Behind <= Here
            BY <1>1
        <3>2. m \in Nat /\ Here <= m /\ m <= Whole
            BY <1>4
        <3> QED BY ONLY <3>1, <3>2, PieceJoin
    <2> QED BY <1>1, <1>6, <2>1
<1>9. buf \o r.data \in Seq(Byte) /\ Len(buf \o r.data) = m - Behind
    <2>1. Piece(scripts, Behind, m) \in Seq(Byte) /\ Len(Piece(scripts, Behind, m)) = m - Behind
        BY <1>1, <1>4, PieceFacts
    <2> QED BY <1>8, <2>1
<1> QED BY <1>3, <1>4, <1>5, <1>6, <1>7, <1>8, <1>9 DEF m

----------------------------------------------------------------------------
(* The peer *)

LEMMA PeerWriteStep ==
    ASSUME RInv, PeerWrite
    PROVE  RInv'
<1>1. /\ open /\ fault = "none"
      /\ sent' \in (sent + 1)..Len(Text[scripts[sock]])
      /\ UNCHANGED <<inbound, open, scripts, fault, rcvd, unget, phase, op, buf, total, max, ret,
                     taken, https, calls>>
    BY DEF PeerWrite, callVars
<1>2. sock' = sock /\ Here' = Here /\ Behind' = Behind
    BY <1>1 DEF sock, Here, Behind
<1>3. ConnTypes /\ OnSocket /\ sent \in Nat /\ rcvd \in 0..sent /\ Whole \in Nat
    BY <1>1, OpenFacts DEF RInv, ConnTypes
<1>4. sent' \in Nat /\ sent' <= Len(Text[scripts[sock]]) /\ rcvd \in 0..sent'
    BY <1>1, <1>3 DEF Whole
<1>5. ConnTypes'
    BY <1>1, <1>3, <1>4 DEF ConnTypes
<1>6. Pieces'
    BY <1>1, <1>2, <1>4 DEF RInv, Pieces
<1>7. Phases' /\ Returnable' /\ Counted'
    BY <1>1, <1>2 DEF RInv, Phases, Returnable, Counted
<1>8. Clean'
    BY <1>1, <1>2 DEF RInv, Clean
<1>9. Headers'
    <2> SUFFICES ASSUME ret.op = "hdr", ret.ok, ret.max < 0,
                        NEW k \in 1..Len(scripts[sock]),
                        ret.data[1].at = End(scripts[sock], k - 1) + 1
                 PROVE  LET from == End(scripts[sock], k - 1)
                            to == from + Header(scripts[sock][k])
                        IN  sent' >= to /\ ret.data = Piece(scripts, from, to)
        BY <1>1, <1>2 DEF Headers
    <2> DEFINE from == End(scripts[sock], k - 1)
               to == from + Header(scripts[sock][k])
    <2>1. sent >= to /\ ret.data = Piece(scripts, from, to)
        BY <1>1 DEF RInv, Headers
    <2>2. to \in Nat
        <3>1. scripts[sock] \in Scripts
            BY <1>3, SocketFacts
        <3>2. from \in Nat /\ Header(scripts[sock][k]) \in {5, 8}
            BY <3>1, StartFacts
        <3> QED BY <3>2
    <2> HIDE DEF to
    <2>3. sent' >= to
        BY <1>1, <1>3, <2>1, <2>2
    <2> QED BY <2>1, <2>3 DEF to
<1>10. Messages'
    BY <1>1, <1>2 DEF RInv, Messages, Filled, CutBefore
<1> QED BY <1>5, <1>6, <1>7, <1>8, <1>9, <1>10 DEF RInv

LEMMA PeerEndStep ==
    ASSUME RInv, PeerEnd
    PROVE  RInv'
<1>1. /\ open /\ fault = "none" /\ fault' \in {"eof", "reset"}
      /\ UNCHANGED <<inbound, open, scripts, sent, rcvd, unget, phase, op, buf, total, max, ret,
                     taken, https, calls>>
    BY DEF PeerEnd, callVars
<1>2. sock' = sock /\ Here' = Here /\ Behind' = Behind
    BY <1>1 DEF sock, Here, Behind
<1>3. ConnTypes'
    BY <1>1 DEF RInv, ConnTypes
<1>4. Pieces'
    BY <1>1, <1>2 DEF RInv, Pieces
<1>5. Phases' /\ Returnable' /\ Counted'
    BY <1>1, <1>2 DEF RInv, Phases, Returnable, Counted
<1>6. Clean'
    BY <1>1, <1>2 DEF RInv, Clean
<1>7. Headers'
    BY <1>1, <1>2 DEF RInv, Headers
<1>8. Messages'
    BY <1>1, <1>2 DEF RInv, Messages, Filled, CutBefore
<1> QED BY <1>3, <1>4, <1>5, <1>6, <1>7, <1>8 DEF RInv

----------------------------------------------------------------------------
(* Open and Close *)

LEMMA OpenStep ==
    ASSUME RInv, Open
    PROVE  RInv'
<1>1. /\ ~inbound /\ ~open /\ open'
      /\ sent' = 0 /\ fault' = "none" /\ rcvd' = 0 /\ taken' = 0 /\ https' = 0 /\ ret' = None
      /\ UNCHANGED <<inbound, unget, phase, op, buf, total, max, calls>>
    BY DEF Open
<1>2. PICK script \in OutScripts : scripts' = Append(scripts, script)
    BY DEF Open
<1>3. unget = <<>> /\ phase = "idle" /\ buf = <<>>
    BY <1>1 DEF RInv, Clean, Phases
<1>4. /\ script \in Scripts /\ scripts \in Seq(Scripts)
      /\ scripts' \in Seq(Scripts) /\ scripts' # <<>> /\ Len(scripts') = Len(scripts) + 1
      /\ scripts'[Len(scripts')] = script
    <2>1. script \in Scripts
        BY <1>2 DEF Scripts
    <2>2. scripts \in Seq(Scripts)
        BY DEF RInv, ConnTypes
    <2> QED BY ONLY <1>2, <2>1, <2>2
<1>5. sock' = Len(scripts') /\ scripts'[sock'] = script
    BY <1>4 DEF sock
<1>6. Here' = 0 /\ Behind' = 0
    <2>1. unget' = <<>> /\ buf' = <<>> /\ Len(<<>>) = 0
        BY <1>1, <1>3
    <2>2. Here' = rcvd' - Len(unget') /\ Behind' = rcvd' - Len(unget') - Len(buf')
        BY DEF Here, Behind
    <2>3. rcvd' = 0 /\ Len(unget') = 0 /\ Len(buf') = 0
        BY <1>1, <2>1
    <2> QED BY <2>2, <2>3
<1>7. Piece(scripts', 0, 0) = <<>>
    <2>1. 1..(0 - 0) = {}
        OBVIOUS
    <2> QED BY <2>1 DEF Piece
<1>8. ConnTypes'
    <2>1. ret' \in [op : Calls, ok : BOOLEAN, data : Seq(Byte), max : Int]
        BY <1>1 DEF None, Calls
    <2> QED BY <1>1, <1>4, <2>1 DEF RInv, ConnTypes
<1>9. Pieces'
    <2>1. Len(Text[script]) \in Nat
        BY <1>4, StartFacts, ScriptFacts
    <2> QED BY <1>1, <1>3, <1>4, <1>5, <1>6, <1>7, <2>1 DEF Pieces
<1>10. Phases'
    BY <1>1, <1>3 DEF RInv, Phases
<1>11. Returnable' /\ Headers' /\ Counted'
    BY <1>1, <1>3 DEF Returnable, Headers, Counted, None
<1>12. Clean'
    BY <1>1, <1>3, <1>5 DEF Clean, None
<1>13. Messages'
    <2>1. End(script, 0) = 0
        BY <1>4, ScriptFacts
    <2> QED BY <1>1, <1>3, <1>5, <2>1 DEF Messages
<1> QED BY <1>8, <1>9, <1>10, <1>11, <1>12, <1>13 DEF RInv

LEMMA CloseStep ==
    ASSUME RInv, Close
    PROVE  RInv'
<1>1. /\ open /\ phase = "idle" /\ ~open' /\ open' \in BOOLEAN
      /\ \/ ret.op = "http"
         \/ ret.op = "hdr" /\ ret.max < 0 /\ scripts[sock] = << <<>> >>
         \/ rcvd = 0
      /\ phase' = IF inbound THEN "gone" ELSE "idle"
      /\ UNCHANGED <<inbound, scripts, sent, fault, rcvd, unget, op, buf, total, max, ret,
                     taken, https, calls>>
    BY DEF Close, peerVars
<1>2. buf = <<>> /\ (~inbound => unget = <<>>)
    <2>1. buf = <<>>
        BY <1>1 DEF RInv, Phases
    <2>2. CASE rcvd = 0
        <3>1. Len(unget) = 0
            BY <1>1, <2>2, OpenFacts DEF RInv
        <3>2. unget \in Seq(Byte)
            BY DEF RInv, ConnTypes
        <3> QED BY <2>1, <3>1, <3>2
    <2>3. CASE rcvd # 0
        BY <1>1, <2>1, <2>3 DEF RInv, Clean
    <2> QED BY <2>2, <2>3
<1>3. ConnTypes'
    BY <1>1 DEF RInv, ConnTypes
<1>4. Pieces' /\ Returnable' /\ Headers' /\ Messages'
    BY <1>1 DEF Pieces, Returnable, Headers, Messages
<1>5. Phases' /\ Counted'
    BY <1>1, <1>2 DEF RInv, Phases, Counted
<1>6. Clean'
    BY <1>1, <1>2 DEF Clean
<1> QED BY <1>3, <1>4, <1>5, <1>6 DEF RInv

----------------------------------------------------------------------------
(* The beginning of the calls *)

\* A caller enters a function; a call of ReadHttp counts if all before it do.
LEMMA CallStep ==
    ASSUME RInv, NEW name \in {"hdr", "http", "all"}, NEW at \in {"header", "body"},
           NEW size \in Nat, NEW maxsize \in Int, NEW count \in Int,
           Call(name, at, size, maxsize, count),
           at = "header" <=> name # "all",
           name = "http" => maxsize = -1,
           count = IF name = "http" /\ https >= 0 THEN https + 1 ELSE -1
    PROVE  RInv'
<1>1. /\ open /\ phase = "idle" /\ calls < MaxCalls /\ calls' = calls + 1
      /\ phase' = at /\ op' = name /\ total' = size /\ max' = maxsize /\ https' = count
      /\ UNCHANGED <<inbound, open, scripts, sent, fault, rcvd, unget, buf, ret, taken>>
    BY DEF Call, peerVars
<1>2. sock' = sock /\ Here' = Here /\ Behind' = Behind
    BY <1>1 DEF sock, Here, Behind
<1>3. ConnTypes'
    <2>1. calls' \in 0..MaxCalls
        BY <1>1, ConnAssumption DEF RInv, ConnTypes
    <2>2. name \in Calls /\ at \in {"accept", "idle", "header", "body", "gone"}
        BY DEF Calls
    <2> QED BY <1>1, <2>1, <2>2 DEF RInv, ConnTypes
<1>4. Pieces'
    BY <1>1, <1>2 DEF RInv, Pieces
<1>5. buf = <<>>
    BY <1>1 DEF RInv, Phases
<1>6. Phases' /\ Returnable'
    BY <1>1, <1>5 DEF RInv, Phases, Returnable
<1>7. Clean'
    BY <1>1, <1>2 DEF RInv, Clean
<1>8. Headers'
    BY <1>1, <1>2 DEF RInv, Headers
<1>9. Counted'
    <2>1. https \in Int
        BY DEF RInv, ConnTypes
    <2> QED BY <1>1, <2>1 DEF RInv, Counted
<1>10. Messages'
    <2> SUFFICES ASSUME https' >= 0, fault # "reset", Filled(scripts[sock], https')
                 PROVE  /\ phase' = "header"
                        /\ https' > 0
                        /\ \/ fault = "eof" /\ sent < End(scripts[sock], https')
                           \/ taken = End(scripts[sock], https' - 1)
        BY <1>1, <1>2 DEF Messages, CutBefore
    <2>1. https \in Int
        BY DEF RInv, ConnTypes
    <2>2. name = "http" /\ https >= 0 /\ https' = https + 1
        BY <1>1, <2>1
    <2>3. phase' = "header" /\ https' > 0 /\ https' - 1 = https
        BY <1>1, <2>1, <2>2
    <2>4. scripts[sock] \in Scripts /\ sent \in Nat
        BY <1>1, OpenFacts DEF RInv
    <2>5. https' \in 1..Len(scripts[sock]) /\ Filled(scripts[sock], https)
        <3>1. Len(scripts[sock]) \in Nat
            BY <2>4, ScriptFacts
        <3> QED BY <2>1, <2>2, <3>1 DEF Filled
    <2>6. CutBefore(https) \/ taken = End(scripts[sock], https)
        BY <1>1, <2>2, <2>5 DEF RInv, Messages
    <2>7. CASE CutBefore(https)
        <3>1. /\ End(scripts[sock], https' - 1) \in Nat
              /\ End(scripts[sock], https' - 1) + Header(scripts[sock][https'])
                    + Len(scripts[sock][https']) = End(scripts[sock], https')
              /\ Header(scripts[sock][https']) \in Nat /\ Len(scripts[sock][https']) \in Nat
            <4>1. Header(scripts[sock][https']) \in {5, 8}
                BY ONLY <2>4, <2>5, StartFacts
            <4> QED BY ONLY <2>4, <2>5, <4>1, StartFacts
        <3>2. sent < End(scripts[sock], https' - 1)
            BY <2>3, <2>7 DEF CutBefore
        <3>3. sent < End(scripts[sock], https')
            BY <2>4, <3>1, <3>2
        <3> QED BY <2>3, <2>7, <3>3 DEF CutBefore
    <2>8. CASE taken = End(scripts[sock], https)
        BY <2>3, <2>8
    <2> QED BY <2>6, <2>7, <2>8
<1> QED BY <1>3, <1>4, <1>6, <1>7, <1>8, <1>9, <1>10 DEF RInv

LEMMA CallsStep ==
    ASSUME RInv, CallReadHttpHdr \/ CallReadHttp \/ CallReadAll
    PROVE  RInv'
<1>1. CASE CallReadHttpHdr
    <2>1. PICK m \in HdrMaxes : Call("hdr", "header", IF m >= 0 THEN m ELSE HdrSize, m, -1)
        BY <1>1 DEF CallReadHttpHdr
    <2>2. m \in Int /\ (IF m >= 0 THEN m ELSE HdrSize) \in Nat
        BY ConnAssumption
    <2> DEFINE size == IF m >= 0 THEN m ELSE HdrSize
    <2> HIDE DEF size
    <2>3. Call("hdr", "header", size, m, -1) /\ size \in Nat
        BY <2>1, <2>2 DEF size
    <2> QED BY <2>2, <2>3, CallStep
<1>2. CASE CallReadHttp
    <2> DEFINE count == IF https < 0 THEN -1 ELSE https + 1
    <2>1. https \in Int
        BY DEF RInv, ConnTypes
    <2>2. /\ count \in Int /\ HdrSize \in Nat /\ -1 \in Int
          /\ count = IF https >= 0 THEN https + 1 ELSE -1
        BY <2>1, ConnAssumption
    <2>3. Call("http", "header", HdrSize, -1, count)
        BY <1>2 DEF CallReadHttp
    <2> HIDE DEF count
    <2> QED BY <2>2, <2>3, CallStep
<1>3. CASE CallReadAll
    <2>1. PICK n \in ReadSizes : Call("all", "body", n + 1, n, -1)
        BY <1>3 DEF CallReadAll
    <2>2. n \in Nat /\ n + 1 \in Nat
        BY ConnAssumption
    <2> QED BY <2>1, <2>2, CallStep
<1> QED BY <1>1, <1>2, <1>3

----------------------------------------------------------------------------
(* Accept, Read by itself and Unget *)

LEMMA AcceptStep ==
    ASSUME RInv, Accept
    PROVE  RInv'
<1>1. /\ phase = "accept"
      /\ UNCHANGED <<inbound, open, scripts, sent, fault, op, buf, total, max, ret, taken, https,
                     calls>>
    BY DEF Accept, After, peerVars
<1>2. PICK r \in Read(PeekSize) :
        /\ rcvd' = r.rcvd
        /\ unget' = r.data \o r.left
        /\ phase' = IF r.data = <<>> THEN "gone" ELSE "idle"
    BY DEF Accept, After, Unget
<1>3. open /\ inbound /\ rcvd = 0 /\ https = 0 /\ ret = None /\ buf = <<>>
    BY <1>1 DEF RInv, Phases
<1>4. /\ OnSocket /\ scripts[sock] \in Scripts
      /\ Whole \in Nat /\ sent \in Nat /\ taken \in Nat /\ Here \in Nat /\ Behind \in Nat
      /\ taken <= Behind /\ Behind <= Here /\ Here <= rcvd /\ sent <= Whole
      /\ fault # "reset" => taken = Behind
    BY <1>3, OpenFacts DEF RInv
<1>5. Here = 0 /\ Behind = 0 /\ taken = 0
    BY <1>3, <1>4
<1>6. sock' = sock
    BY <1>1 DEF sock
<1> DEFINE m == Here + Len(r.data)
<1>7. /\ m \in Nat /\ Here <= m /\ m <= r.rcvd
      /\ r.rcvd \in Nat /\ r.rcvd <= sent
      /\ r.data = Piece(scripts, Here, m)
      /\ r.left = Piece(scripts, m, r.rcvd)
    <2>1. PeekSize \in Nat /\ PeekSize > 0
        BY ConnAssumption
    <2> QED BY <1>3, <2>1, Reading DEF RInv
<1> HIDE DEF m
<1>8. unget' = Piece(scripts, 0, r.rcvd) /\ unget' \in Seq(Byte) /\ Len(unget') = r.rcvd
    <2>1. r.rcvd <= Whole /\ 0 <= r.rcvd
        BY <1>4, <1>7
    <2>2. Piece(scripts, 0, m) \o Piece(scripts, m, r.rcvd) = Piece(scripts, 0, r.rcvd)
        <3>1. OnSocket /\ 0 \in Nat /\ 0 <= m /\ m \in Nat
            BY <1>4, <1>5, <1>7
        <3>2. r.rcvd \in Nat /\ m <= r.rcvd /\ r.rcvd <= Whole
            BY <1>7, <2>1
        <3> QED BY ONLY <3>1, <3>2, PieceJoin
    <2>3. Piece(scripts, 0, r.rcvd) \in Seq(Byte) /\ Len(Piece(scripts, 0, r.rcvd)) = r.rcvd - 0
        BY <1>4, <1>7, <2>1, PieceFacts
    <2>4. unget' = Piece(scripts, 0, r.rcvd)
        BY <1>2, <1>5, <1>7, <2>2
    <2>5. r.rcvd - 0 = r.rcvd
        BY <1>7
    <2> QED BY <2>3, <2>4, <2>5
<1>9. Here' = 0 /\ Behind' = 0
    <2>1. Len(buf') = 0 /\ rcvd' = r.rcvd
        BY <1>1, <1>2, <1>3
    <2>2. Here' = rcvd' - Len(unget') /\ Behind' = rcvd' - Len(unget') - Len(buf')
        BY DEF Here, Behind
    <2> QED BY <1>7, <1>8, <2>1, <2>2
<1>10. ConnTypes'
    <2>1. rcvd' \in 0..sent /\ taken' \in 0..rcvd'
        BY <1>1, <1>2, <1>4, <1>5, <1>7
    <2>2. phase' \in {"accept", "idle", "header", "body", "gone"}
        BY <1>2
    <2> QED BY <1>1, <1>8, <2>1, <2>2 DEF RInv, ConnTypes
<1>11. Pieces'
    <2>1. Piece(scripts, 0, 0) = <<>>
        BY <1>4, PieceNone
    <2> QED BY <1>1, <1>2, <1>3, <1>4, <1>5, <1>6, <1>8, <1>9, <2>1 DEF RInv, Pieces
<1>12. Phases'
    BY <1>1, <1>2, <1>3 DEF Phases
<1>13. Returnable' /\ Headers' /\ Counted'
    BY <1>1, <1>2, <1>3 DEF Returnable, Headers, Counted, None
<1>14. Clean'
    BY <1>1, <1>3 DEF Clean
<1>15. Messages'
    <2>1. End(scripts[sock], 0) = 0
        BY <1>4, ScriptFacts
    <2> QED BY <1>1, <1>2, <1>3, <1>5, <1>6, <2>1 DEF Messages
<1> QED BY <1>10, <1>11, <1>12, <1>13, <1>14, <1>15 DEF RInv

LEMMA CallReadStep ==
    ASSUME RInv, CallRead
    PROVE  RInv'
<1>1. /\ open /\ phase = "idle" /\ calls < MaxCalls /\ calls' = calls + 1 /\ https' = -1
      /\ UNCHANGED <<inbound, open, scripts, sent, fault, phase, op, buf, total, max>>
    BY DEF CallRead, peerVars
<1>a. PICK n \in ReadSizes : \E r \in Read(n) :
        /\ rcvd' = r.rcvd
        /\ unget' = r.left
        /\ ret' = [op |-> "read", ok |-> r.ok, data |-> r.data, max |-> n]
        /\ taken' = taken + Len(r.data)
    BY DEF CallRead
<1>2. PICK r \in Read(n) :
        /\ rcvd' = r.rcvd
        /\ unget' = r.left
        /\ ret' = [op |-> "read", ok |-> r.ok, data |-> r.data, max |-> n]
        /\ taken' = taken + Len(r.data)
    BY <1>a
<1>3. buf = <<>>
    BY <1>1 DEF RInv, Phases
<1>4. /\ OnSocket
      /\ Whole \in Nat /\ sent \in Nat /\ taken \in Nat /\ Here \in Nat /\ Behind \in Nat
      /\ taken <= Behind /\ Here <= rcvd /\ sent <= Whole
      /\ Len(buf) = 0 /\ Behind + Len(buf) = Here
      /\ fault # "reset" => taken = Behind
    BY <1>1, <1>3, OpenFacts DEF RInv
<1>5. sock' = sock
    BY <1>1 DEF sock
<1> DEFINE m == Here + Len(r.data)
<1>6. /\ r.ok \in BOOLEAN
      /\ m \in Nat /\ Here <= m /\ m <= r.rcvd
      /\ r.rcvd \in Nat /\ r.rcvd <= sent
      /\ r.data \in Seq(Byte)
      /\ r.left \in Seq(Byte) /\ Len(r.left) = r.rcvd - m
      /\ r.left = Piece(scripts, m, r.rcvd)
    <2>1. n \in Nat /\ n > 0
        BY ConnAssumption
    <2> QED BY <1>1, <2>1, Reading DEF RInv
<1>7. m = Behind + Len(r.data) /\ Len(r.data) \in Nat
    BY <1>4, <1>6
<1>8. taken' \in Nat /\ taken' <= m /\ (fault # "reset" => taken' = m)
    BY <1>2, <1>4, <1>7
<1> HIDE DEF m
<1>9. Here' = m /\ Behind' = m
    <2>1. Len(buf') = 0 /\ rcvd' = r.rcvd /\ Len(unget') = r.rcvd - m
        BY <1>1, <1>2, <1>4, <1>6
    <2>2. Here' = rcvd' - Len(unget') /\ Behind' = rcvd' - Len(unget') - Len(buf')
        BY DEF Here, Behind
    <2> QED BY <1>6, <2>1, <2>2
<1>10. ConnTypes'
    <2>1. rcvd' \in 0..sent /\ taken' \in 0..rcvd'
        BY <1>2, <1>4, <1>6, <1>8
    <2>2. ret' \in [op : Calls, ok : BOOLEAN, data : Seq(Byte), max : Int]
        <3>1. n \in Int
            BY ConnAssumption
        <3> QED BY <1>2, <1>6, <3>1 DEF Calls
    <2>3. calls' \in 0..MaxCalls
        BY <1>1, ConnAssumption DEF RInv, ConnTypes
    <2> QED BY <1>1, <1>2, <1>6, <2>1, <2>2, <2>3 DEF RInv, ConnTypes
<1>11. Pieces'
    <2>1. m <= Whole
        BY <1>4, <1>6
    <2>2. Piece(scripts, m, m) = <<>>
        BY <1>4, <1>6, <2>1, PieceNone
    <2> QED BY <1>1, <1>2, <1>3, <1>5, <1>6, <1>8, <1>9, <2>2 DEF RInv, Pieces
<1>12. Phases'
    BY <1>1, <1>3 DEF Phases
<1>13. Returnable' /\ Headers'
    BY <1>2 DEF Returnable, Headers
<1>14. Counted' /\ Messages'
    BY <1>1 DEF Counted, Messages
<1>15. Clean'
    BY <1>1, <1>2, <1>5 DEF RInv, Clean
<1> QED BY <1>10, <1>11, <1>12, <1>13, <1>14, <1>15 DEF RInv

LEMMA CallUngetStep ==
    ASSUME RInv, CallUnget
    PROVE  RInv'
<1> DEFINE d == ret.data
<1>1. /\ open /\ phase = "idle" /\ ret.op = "hdr" /\ ret.ok
      /\ unget' = d \o unget
      /\ taken' = taken - Len(d)
      /\ ret' = None
      /\ UNCHANGED <<inbound, open, scripts, sent, fault, rcvd, phase, op, buf, total, max, https,
                     calls>>
    BY DEF CallUnget, Unget, peerVars
<1>2. buf = <<>> /\ d \in Seq(Byte)
    BY <1>1 DEF RInv, Phases, ConnTypes
<1>3. /\ OnSocket
      /\ Whole \in Nat /\ sent \in Nat /\ taken \in Nat /\ Here \in Nat /\ Behind \in Nat
      /\ rcvd \in Nat /\ rcvd <= sent
      /\ taken <= Behind /\ Here <= rcvd /\ sent <= Whole
      /\ Len(buf) = 0 /\ Behind + Len(buf) = Here
      /\ fault # "reset" => taken = Behind
      /\ unget = Piece(scripts, Here, rcvd)
    BY <1>1, <1>2, OpenFacts DEF RInv
<1>4. sock' = sock
    BY <1>1 DEF sock
<1>5. Len(d) <= taken /\ d = Piece(scripts, Behind - Len(d), Behind) /\ Len(d) \in Nat
    BY <1>1, <1>2 DEF RInv, Returnable
<1> HIDE DEF d
<1> DEFINE b == Here - Len(d)
<1>6. b \in Nat /\ b = Behind - Len(d) /\ b <= Here /\ rcvd <= Whole /\ b <= rcvd
    BY <1>3, <1>5
<1>7. unget' = Piece(scripts, b, rcvd) /\ unget' \in Seq(Byte) /\ Len(unget') = rcvd - b
    <2> HIDE DEF b
    <2>1. Piece(scripts, b, Here) \o Piece(scripts, Here, rcvd) = Piece(scripts, b, rcvd)
        <3>1. OnSocket /\ b \in Nat /\ Here \in Nat /\ b <= Here
            BY <1>3, <1>6
        <3>2. rcvd \in Nat /\ Here <= rcvd /\ rcvd <= Whole
            BY <1>3, <1>6
        <3> QED BY ONLY <3>1, <3>2, PieceJoin
    <2>2. Piece(scripts, b, rcvd) \in Seq(Byte) /\ Len(Piece(scripts, b, rcvd)) = rcvd - b
        BY <1>3, <1>6, PieceFacts
    <2>3. Behind = Here
        BY <1>3
    <2> QED BY <1>1, <1>3, <1>5, <1>6, <2>1, <2>2, <2>3
<1>8. Here' = b /\ Behind' = b
    <2>1. Len(buf') = 0 /\ rcvd' = rcvd
        BY <1>1, <1>3
    <2>2. Here' = rcvd' - Len(unget') /\ Behind' = rcvd' - Len(unget') - Len(buf')
        BY DEF Here, Behind
    <2> QED BY <1>3, <1>6, <1>7, <2>1, <2>2
<1>9. taken' \in Nat /\ taken' <= taken /\ taken' <= b /\ (fault # "reset" => taken' = b)
    BY <1>1, <1>3, <1>5, <1>6
<1> HIDE DEF b
<1>10. ConnTypes'
    <2>1. ret' \in [op : Calls, ok : BOOLEAN, data : Seq(Byte), max : Int]
        BY <1>1 DEF None, Calls
    <2>2. taken' \in 0..rcvd'
        BY <1>1, <1>3, <1>6, <1>9
    <2> QED BY <1>1, <1>7, <2>1, <2>2 DEF RInv, ConnTypes
<1>11. Pieces'
    <2>1. b <= Whole
        BY <1>3, <1>6
    <2>2. Piece(scripts, b, b) = <<>>
        BY <1>3, <1>6, <2>1, PieceNone
    <2> QED BY <1>1, <1>2, <1>4, <1>7, <1>8, <1>9, <2>2 DEF RInv, Pieces
<1>12. Phases'
    BY <1>1, <1>2 DEF RInv, Phases
<1>13. Returnable' /\ Headers' /\ Counted'
    BY <1>1 DEF Returnable, Headers, Counted, None
<1>14. https < 0
    BY <1>1 DEF RInv, Counted, ConnTypes
<1>15. Messages'
    BY <1>1, <1>14 DEF RInv, ConnTypes, Messages
<1>16. Clean'
    BY <1>1, <1>4 DEF RInv, Clean, None
<1> QED BY <1>10, <1>11, <1>12, <1>13, <1>15, <1>16 DEF RInv

\* A buffer that grows.
LEMMA GrowStep ==
    ASSUME RInv, max < 0, Grow
    PROVE  RInv'
<1>1. /\ total' = 2 * total
      /\ UNCHANGED <<inbound, open, scripts, sent, fault, rcvd, unget, phase, op, buf, max, ret,
                     taken, https, calls>>
    BY DEF Grow, peerVars
<1>2. sock' = sock /\ Here' = Here /\ Behind' = Behind
    BY <1>1 DEF sock, Here, Behind
<1>3. ConnTypes'
    BY <1>1 DEF RInv, ConnTypes
<1>4. Pieces' /\ Phases' /\ Returnable' /\ Counted'
    BY <1>1, <1>2 DEF RInv, Pieces, Phases, Returnable, Counted
<1>5. Clean'
    BY <1>1, <1>2 DEF RInv, ConnTypes, Clean
<1>6. Headers'
    BY <1>1, <1>2 DEF RInv, Headers
<1>7. Messages'
    <2>1. ASSUME open, https > 0, Filled(scripts[sock], https) PROVE max # Len(scripts[sock][https])
        <3>1. scripts[sock] \in Scripts
            BY <2>1, OpenFacts DEF RInv
        <3>2. https \in 1..Len(scripts[sock])
            BY <2>1, <3>1, ScriptFacts DEF Filled, RInv, ConnTypes
        <3>3. Len(scripts[sock][https]) \in Nat
            BY <3>1, <3>2, StartFacts
        <3> QED BY <3>3 DEF RInv, ConnTypes
    <2> QED BY <1>1, <1>2, <2>1 DEF RInv, Messages, Filled, CutBefore
<1> QED BY <1>3, <1>4, <1>5, <1>6, <1>7 DEF RInv

----------------------------------------------------------------------------
(* ReadHttpHdr *)

\* It has the header h, which goes to m, and what is behind it is given back.
\* Without a limit the header is the one of the message, or all there will be.
HeaderAt(h, m) ==
    /\ h = Piece(scripts, Behind, m)
    /\ m \in Nat /\ Behind <= m /\ m <= rcvd'
    /\ rcvd' \in Nat /\ rcvd' <= sent
    /\ unget' \in Seq(Byte) /\ Len(unget') = rcvd' - m
    /\ unget' = Piece(scripts, m, rcvd')
    /\ UNCHANGED <<inbound, open, scripts, sent, fault, calls>>
    /\ max < 0 =>
        /\ h = <<>> => unget' = <<>>
        /\ \/ unget' = <<>> /\ fault = "eof" /\ rcvd' = sent
           \/ Len(scripts[sock]) = 1 => m >= Header(scripts[sock][1])
        /\ \A k \in 1..Len(scripts[sock]) :
              Behind = End(scripts[sock], k - 1) =>
                \/ m = Behind + Header(scripts[sock][k])
                \/ fault = "eof" /\ m = sent /\ sent < Behind + Header(scripts[sock][k])

\* The state after it, but for what only the function itself changes.
LEMMA HeaderAtFacts ==
    ASSUME RInv, phase = "header", NEW h, NEW m, HeaderAt(h, m), buf' = <<>>,
           taken' = taken + Len(h)
    PROVE  /\ open /\ sock' = sock /\ OnSocket /\ scripts[sock] \in Scripts
           /\ Whole \in Nat /\ sent \in Nat /\ taken \in Nat /\ Behind \in Nat
           /\ sent <= Whole /\ m <= Whole
           /\ h \in Seq(Byte) /\ Len(h) = m - Behind /\ Len(h) \in Nat
           /\ h = Bytes(Behind, m)
           /\ Here' = m /\ Behind' = m
           /\ taken' \in 0..rcvd'
           /\ fault # "reset" => taken = Behind
           /\ Pieces'
<1>1. /\ m \in Nat /\ Behind <= m /\ m <= rcvd'
      /\ h = Piece(scripts, Behind, m)
      /\ rcvd' \in Nat /\ rcvd' <= sent
      /\ Len(unget') = rcvd' - m
      /\ unget' = Piece(scripts, m, rcvd')
      /\ open' = open /\ scripts' = scripts /\ sent' = sent /\ fault' = fault
    BY DEF HeaderAt
<1>2. open
    BY DEF RInv, Phases
<1>3. /\ OnSocket /\ scripts[sock] \in Scripts
      /\ Whole \in Nat /\ sent \in Nat /\ taken \in Nat /\ Behind \in Nat
      /\ sent <= Whole /\ taken <= Behind
      /\ fault # "reset" => taken = Behind
    BY <1>2, OpenFacts DEF RInv
<1>4. m <= Whole
    BY <1>1, <1>3
<1>5. h \in Seq(Byte) /\ Len(h) = m - Behind /\ Len(h) \in Nat /\ h = Bytes(Behind, m)
    BY <1>1, <1>3, <1>4, PieceFacts
<1>6. Here' = m /\ Behind' = m
    <2>1. Len(buf') = 0
        OBVIOUS
    <2>2. Here' = rcvd' - Len(unget') /\ Behind' = rcvd' - Len(unget') - Len(buf')
        BY DEF Here, Behind
    <2> QED BY <1>1, <2>1, <2>2
<1>7. taken' \in Nat /\ taken' <= m /\ (fault # "reset" => taken' = m)
    BY <1>1, <1>3, <1>5
<1>8. sock' = sock
    BY <1>1 DEF sock
<1>9. Pieces'
    <2>1. Piece(scripts, m, m) = <<>>
        BY <1>1, <1>3, <1>4, PieceNone
    <2> QED BY <1>1, <1>6, <1>7, <1>8, <2>1 DEF RInv, Pieces
<1>10. taken' \in 0..rcvd'
    BY <1>1, <1>7
<1> QED BY <1>2, <1>3, <1>4, <1>5, <1>6, <1>8, <1>9, <1>10

\* It returns the header to its caller, or nothing to ReadHttp.
LEMMA HeaderReturned ==
    ASSUME RInv, phase = "header", NEW h, NEW m, HeaderAt(h, m),
           op = "hdr" \/ h = <<>>, Return(h # <<>>, h)
    PROVE  RInv'
<1>1. /\ phase' = "idle" /\ buf' = <<>>
      /\ ret' = [op |-> op, ok |-> (h # <<>>), data |-> h, max |-> max]
      /\ taken' = taken + Len(h)
      /\ UNCHANGED <<op, total, max, https>>
    BY DEF Return
<1>2. /\ h = Piece(scripts, Behind, m)
      /\ m \in Nat /\ Behind <= m /\ m <= rcvd'
      /\ rcvd' \in Nat /\ rcvd' <= sent
      /\ unget' \in Seq(Byte) /\ Len(unget') = rcvd' - m
      /\ UNCHANGED <<inbound, open, scripts, sent, fault, calls>>
    BY DEF HeaderAt
<1>3. /\ open /\ sock' = sock /\ OnSocket /\ scripts[sock] \in Scripts
      /\ Whole \in Nat /\ sent \in Nat /\ taken \in Nat /\ Behind \in Nat
      /\ sent <= Whole /\ m <= Whole
      /\ h \in Seq(Byte) /\ Len(h) = m - Behind /\ Len(h) \in Nat
      /\ Behind' = m
      /\ taken' \in 0..rcvd'
      /\ fault # "reset" => taken = Behind
      /\ Pieces'
    BY <1>1, HeaderAtFacts
<1>4. /\ op \in {"hdr", "http"} /\ (op = "http" => max = -1) /\ max \in Int
      /\ https >= 0 => op = "http"
    BY DEF RInv, Phases, Counted, ConnTypes
<1>5. ConnTypes'
    <2>1. ret' \in [op : Calls, ok : BOOLEAN, data : Seq(Byte), max : Int]
        BY <1>1, <1>3, <1>4 DEF Calls
    <2>2. rcvd' \in 0..sent
        BY <1>2, <1>3
    <2> QED BY <1>1, <1>2, <1>3, <2>1, <2>2 DEF RInv, ConnTypes
<1>6. Phases'
    BY <1>1, <1>2, <1>3 DEF Phases
<1>7. Returnable'
    <2>1. Len(h) <= taken' /\ m - Len(h) = Behind
        BY <1>1, <1>2, <1>3
    <2> QED BY <1>1, <1>2, <1>3, <2>1 DEF Returnable
<1>8. Clean'
    <2> SUFFICES ASSUME ~inbound
                 PROVE  /\ scripts[sock] \in OutScripts
                        /\ op = "http" => unget' = <<>>
                        /\ op = "hdr" /\ max < 0 /\ scripts[sock] = << <<>> >> => unget' = <<>>
        BY <1>1, <1>2, <1>3 DEF Clean
    <2>1. scripts[sock] \in OutScripts
        BY <1>3 DEF RInv, Clean
    <2>2. ASSUME op = "http" PROVE unget' = <<>>
        BY <1>4, <2>2 DEF HeaderAt
    <2>3. ASSUME op = "hdr", max < 0, scripts[sock] = << <<>> >> PROVE unget' = <<>>
        <3>1. Len(scripts[sock]) = 1 /\ scripts[sock][1] = <<>>
            BY <2>3
        <3>2. unget' = <<>> \/ m >= Header(scripts[sock][1])
            BY <2>3, <3>1 DEF HeaderAt
        <3>3. Header(scripts[sock][1]) = 5
            BY <1>3, <3>1, StartFacts
        <3>4. Whole = 5
            <4>1. End(scripts[sock], 0) = 0 /\ Whole = End(scripts[sock], 1)
                BY <1>3, <3>1, ScriptFacts DEF Whole
            <4>2. End(scripts[sock], 1 - 1) + Header(scripts[sock][1]) + Len(scripts[sock][1])
                    = End(scripts[sock], 1)
                BY <1>3, <3>1, StartFacts
            <4>3. Len(scripts[sock][1]) = 0 /\ 1 - 1 = 0
                BY <3>1
            <4> QED BY <3>3, <4>1, <4>2, <4>3
        <3>5. ASSUME m >= 5 PROVE unget' = <<>>
            <4>1. rcvd' <= 5 /\ Len(unget') = rcvd' - m
                BY <1>2, <1>3, <3>4
            <4>2. Len(unget') = 0
                <5>1. m \in Nat /\ rcvd' \in Nat /\ m <= rcvd' /\ rcvd' <= 5 /\ m >= 5
                    BY <1>2, <3>5, <4>1
                <5>2. \A x, y \in Nat : x <= y /\ y <= 5 /\ x >= 5 => y - x = 0
                    OBVIOUS
                <5>3. rcvd' - m = 0
                    BY <5>1, <5>2
                <5> QED BY <4>1, <5>3
            <4> QED BY <1>2, <4>2
        <3> QED BY <3>2, <3>3, <3>5
    <2> QED BY <2>1, <2>2, <2>3
<1>9. Headers'
    <2> SUFFICES ASSUME op = "hdr", h # <<>>, max < 0, NEW k \in 1..Len(scripts[sock]),
                        h[1].at = End(scripts[sock], k - 1) + 1
                 PROVE  LET from == End(scripts[sock], k - 1)
                            to == from + Header(scripts[sock][k])
                        IN  \/ sent >= to /\ h = Piece(scripts, from, to)
                            \/ sent < to /\ fault # "none" /\ h = Piece(scripts, from, sent)
        BY <1>1, <1>2, <1>3 DEF Headers
    <2>1. Behind < m
        BY <1>2, <1>3
    <2>2. h[1].at = Behind + 1
        BY <1>2, <1>3, <2>1, PieceFacts
    <2>3. End(scripts[sock], k - 1) \in Nat
        BY <1>3, StartFacts
    <2>4. Behind = End(scripts[sock], k - 1)
        BY <1>3, <2>2, <2>3
    <2>5. \/ m = Behind + Header(scripts[sock][k])
          \/ fault = "eof" /\ m = sent /\ sent < Behind + Header(scripts[sock][k])
        BY <2>4 DEF HeaderAt
    <2>6. CASE m = Behind + Header(scripts[sock][k])
        <3>1. sent >= m
            BY <1>2, <1>3
        <3> QED BY <1>2, <2>4, <2>6, <3>1
    <2>7. CASE fault = "eof" /\ m = sent /\ sent < Behind + Header(scripts[sock][k])
        BY <1>2, <2>4, <2>7
    <2> QED BY <2>5, <2>6, <2>7
<1>10. Counted'
    BY <1>1, <1>4 DEF Counted
<1>11. Messages'
    <2> SUFFICES ASSUME https >= 0, fault # "reset", Filled(scripts[sock], https)
                 PROVE  fault = "eof" /\ sent < End(scripts[sock], https)
        BY <1>1, <1>2, <1>3 DEF Messages, CutBefore
    <2>1. op = "http" /\ max < 0 /\ h = <<>> /\ m = Behind /\ taken = Behind
        BY <1>2, <1>3, <1>4
    <2>2. https > 0 /\ (CutBefore(https) \/ taken = End(scripts[sock], https - 1))
        BY <1>3 DEF RInv, Messages
    <2>3. CASE taken = End(scripts[sock], https - 1)
        <3>1. https \in 1..Len(scripts[sock])
            BY <1>3, <2>2, ScriptFacts DEF Filled, RInv, ConnTypes
        <3>2. /\ Header(scripts[sock][https]) \in {5, 8} /\ Len(scripts[sock][https]) \in Nat
              /\ End(scripts[sock], https - 1) + Header(scripts[sock][https])
                    + Len(scripts[sock][https]) = End(scripts[sock], https)
            BY <1>3, <3>1, StartFacts
        <3>3. \/ m = Behind + Header(scripts[sock][https])
              \/ fault = "eof" /\ m = sent /\ sent < Behind + Header(scripts[sock][https])
            BY <2>1, <2>3, <3>1 DEF HeaderAt
        <3>4. fault = "eof" /\ sent < Behind + Header(scripts[sock][https])
            BY <1>3, <2>1, <3>2, <3>3
        <3>5. Behind + Header(scripts[sock][https]) <= End(scripts[sock], https)
            <4>1. Behind = End(scripts[sock], https - 1) /\ Behind \in Nat
                BY <1>3, <2>1, <2>3
            <4> QED BY ONLY <3>2, <4>1
        <3> QED BY <1>3, <2>1, <2>3, <3>2, <3>4, <3>5
    <2> QED BY <2>2, <2>3 DEF CutBefore
<1> QED BY <1>3, <1>5, <1>6, <1>7, <1>8, <1>9, <1>10, <1>11 DEF RInv

\* ReadHttp goes on to the content.
LEMMA HeaderPassed ==
    ASSUME RInv, phase = "header", NEW h, NEW m, HeaderAt(h, m), op = "http",
           /\ phase' = "body"
           /\ buf' = <<>>
           /\ total' = BodySize(ContentSize(h))
           /\ max' = IF ContentSize(h) > 0 THEN ContentSize(h) ELSE max
           /\ taken' = taken + Len(h)
           /\ UNCHANGED <<op, ret, https>>
    PROVE  RInv'
<1>1. /\ m \in Nat /\ Behind <= m
      /\ rcvd' \in Nat /\ rcvd' <= sent
      /\ unget' \in Seq(Byte)
      /\ UNCHANGED <<inbound, open, scripts, sent, fault, calls>>
    BY DEF HeaderAt
<1>2. /\ open /\ sock' = sock /\ OnSocket /\ scripts[sock] \in Scripts
      /\ Whole \in Nat /\ sent \in Nat /\ taken \in Nat /\ Behind \in Nat
      /\ sent <= Whole /\ m <= Whole
      /\ Len(h) = m - Behind
      /\ h = Bytes(Behind, m)
      /\ Behind' = m
      /\ taken' \in 0..rcvd'
      /\ fault # "reset" => taken = Behind
      /\ Pieces'
    BY HeaderAtFacts
<1>3. max = -1
    BY DEF RInv, Phases
<1> DEFINE c == ContentSize(h)
<1>4. /\ c \in Nat \cup {-1}
      /\ Len(scripts[sock]) = 1 => c \in {Len(scripts[sock][1]), -1}
      /\ \A k \in 1..Len(scripts[sock]) :
            Behind = End(scripts[sock], k - 1) /\ m = Behind + Header(scripts[sock][k])
                /\ scripts[sock][k] # <<>> =>
            c = Len(scripts[sock][k])
    <2> DEFINE d == ContentSize(Bytes(Behind, m))
    <2>1. /\ d \in Nat \cup {-1}
          /\ Len(scripts[sock]) = 1 => d \in {Len(scripts[sock][1]), -1}
          /\ \A k \in 1..Len(scripts[sock]) :
                Behind = End(scripts[sock], k - 1) /\ m = Behind + Header(scripts[sock][k])
                    /\ scripts[sock][k] # <<>> =>
                d = Len(scripts[sock][k])
        BY <1>1, <1>2, ContentSizeFacts
    <2>2. c = d
        BY <1>2
    <2> HIDE DEF c, d
    <2> QED BY <2>1, <2>2
<1>5. /\ total' = IF c >= 0 THEN c + 1 ELSE DataSize
      /\ max' = IF c > 0 THEN c ELSE -1
    BY <1>3 DEF BodySize
<1> HIDE DEF c
<1>6. ConnTypes'
    <2>1. total' \in Nat /\ max' \in Int
        BY <1>4, <1>5, ConnAssumption
    <2>2. rcvd' \in 0..sent
        BY <1>1, <1>2
    <2> QED BY <1>1, <1>2, <2>1, <2>2 DEF RInv, ConnTypes
<1>7. Phases'
    BY <1>1, <1>2 DEF Phases
<1>8. Returnable' /\ Counted'
    BY DEF Returnable, RInv, Counted
<1>9. Clean'
    <2> SUFFICES ASSUME ~inbound
                 PROVE  /\ scripts[sock] \in OutScripts
                        /\ max' >= 0 =>
                            /\ max' = Len(scripts[sock][1])
                            /\ total' = max' + 1
                            /\ \/ m >= Header(scripts[sock][1])
                               \/ unget' = <<>> /\ fault = "eof" /\ rcvd' = sent
        BY <1>1, <1>2 DEF Clean
    <2>1. scripts[sock] \in OutScripts
        BY <1>2 DEF RInv, Clean
    <2>2. Len(scripts[sock]) = 1
        BY <2>1 DEF OutScripts
    <2>3. \/ m >= Header(scripts[sock][1])
          \/ unget' = <<>> /\ fault = "eof" /\ rcvd' = sent
        BY <1>3, <2>2 DEF HeaderAt
    <2>4. max' >= 0 => max' = c /\ c = Len(scripts[sock][1]) /\ total' = max' + 1
        BY <1>4, <1>5, <2>2
    <2> QED BY <2>1, <2>3, <2>4
<1>10. Headers'
    BY <1>1, <1>2 DEF RInv, Headers
<1>11. Messages'
    <2> SUFFICES ASSUME https >= 0, fault # "reset", Filled(scripts[sock], https)
                 PROVE  /\ https > 0
                        /\ \/ fault = "eof" /\ sent < End(scripts[sock], https)
                           \/ /\ taken' = End(scripts[sock], https - 1)
                                            + Header(scripts[sock][https])
                              /\ max' = Len(scripts[sock][https])
                              /\ total' = max' + 1
                              /\ 0 <= max'
        BY <1>1, <1>2 DEF Messages, CutBefore
    <2>1. https > 0 /\ (CutBefore(https) \/ taken = End(scripts[sock], https - 1))
        BY <1>2 DEF RInv, Messages
    <2>2. CASE taken = End(scripts[sock], https - 1)
        <3> DEFINE n == Header(scripts[sock][https])
                   e == End(scripts[sock], https)
        <3>1. https \in 1..Len(scripts[sock]) /\ scripts[sock][https] # <<>>
            <4>1. https \in 1..Len(scripts[sock])
                BY <1>2, <2>1, ScriptFacts DEF Filled, RInv, ConnTypes
            <4> QED BY <4>1 DEF Filled
        <3>2. /\ n \in {5, 8} /\ Len(scripts[sock][https]) \in Nat
              /\ End(scripts[sock], https - 1) + n + Len(scripts[sock][https]) = e
            BY <1>2, <3>1, StartFacts
        <3>3. Behind = End(scripts[sock], https - 1)
            BY <1>2, <2>2
        <3>4. \/ m = Behind + n
              \/ fault = "eof" /\ m = sent /\ sent < Behind + n
            BY <1>3, <3>1, <3>3 DEF HeaderAt
        <3>5. CASE m = Behind + n
            <4>1. c = Len(scripts[sock][https])
                BY <1>4, <3>1, <3>3, <3>5
            <4>2. c > 0
                <5>1. scripts[sock][https] \in Seq(Chars)
                    BY <1>2, <3>1, ScriptFacts, MessageFacts
                <5> QED BY <3>1, <4>1, <5>1
            <4>3. max' = c /\ total' = c + 1 /\ 0 <= c
                BY <1>4, <1>5, <4>2
            <4> HIDE DEF n
            <4>4. taken' = taken + n
                BY <1>2, <3>2, <3>5
            <4> QED BY <2>1, <2>2, <4>1, <4>3, <4>4 DEF n
        <3>6. CASE fault = "eof" /\ m = sent /\ sent < Behind + n
            <4> HIDE DEF n, e
            <4>1. Behind + n <= e
                <5>1. Behind + n + Len(scripts[sock][https]) = e
                    BY <3>2, <3>3
                <5>2. \A x \in Nat : Behind + n <= Behind + n + x
                    BY <1>2, <3>2
                <5> QED BY <3>2, <5>1, <5>2
            <4>2. e \in Int
                <5>1. Behind + n + Len(scripts[sock][https]) = e /\ n \in Int
                    BY <3>2, <3>3
                <5>2. \A x \in Nat : Behind + n + x \in Int
                    BY <1>2, <5>1
                <5> QED BY <3>2, <5>1, <5>2
            <4>3. sent < e
                BY <1>2, <3>2, <3>6, <4>1, <4>2
            <4> QED BY <2>1, <3>6, <4>3 DEF e
        <3> QED BY <3>4, <3>5, <3>6
    <2> QED BY <2>1, <2>2 DEF CutBefore
<1> QED BY <1>2, <1>6, <1>7, <1>8, <1>9, <1>10, <1>11 DEF RInv

LEMMA HeaderDoneStep ==
    ASSUME RInv, phase = "header", NEW h, NEW m, HeaderAt(h, m), HeaderDone(h)
    PROVE  RInv'
<1>1. CASE op = "hdr" \/ h = <<>>
    <2>1. Return(h # <<>>, h)
        BY <1>1 DEF HeaderDone
    <2> QED BY <1>1, <2>1, HeaderReturned
<1>2. CASE ~(op = "hdr" \/ h = <<>>)
    <2>1. op = "http"
        BY <1>2 DEF RInv, Phases
    <2>2. /\ phase' = "body"
          /\ buf' = <<>>
          /\ total' = BodySize(ContentSize(h))
          /\ max' = IF ContentSize(h) > 0 THEN ContentSize(h) ELSE max
          /\ taken' = taken + Len(h)
          /\ UNCHANGED <<op, ret, https>>
        BY <1>2 DEF HeaderDone
    <2> QED BY <2>1, <2>2, HeaderPassed
<1> QED BY <1>1, <1>2

----------------------------------------------------------------------------
(* The steps that read *)

\* More has come into the buffer.
LEMMA MoreStep ==
    ASSUME RInv, phase \in {"header", "body"}, Remain > 0, NEW r \in Read(Remain),
           More(buf \o r.data), After(r, <<>>)
    PROVE  RInv'
<1>1. /\ buf' = buf \o r.data
      /\ rcvd' = r.rcvd /\ unget' = <<>> \o r.left
      /\ UNCHANGED <<inbound, open, scripts, sent, fault, phase, op, total, max, ret, taken, https,
                     calls>>
    BY DEF More, After, Unget, peerVars
<1>2. open /\ total \in Nat /\ max \in Int /\ https \in Int
    BY DEF RInv, Phases, ConnTypes
<1>3. /\ OnSocket /\ scripts[sock] \in Scripts
      /\ sent \in Nat /\ taken \in Nat /\ Here \in Nat /\ Behind \in Nat /\ rcvd \in Nat
      /\ taken <= Behind /\ Behind <= Here /\ rcvd <= sent /\ Here <= rcvd
      /\ Len(buf) \in Nat /\ Behind + Len(buf) = Here
      /\ Here + Len(unget) = rcvd /\ Len(unget) \in Nat
      /\ fault # "reset" => taken = Behind
    BY <1>2, OpenFacts DEF RInv
<1>4. Remain \in Nat /\ Remain = total - Len(buf) - 1
    BY <1>2, <1>3 DEF Remain
<1> DEFINE m == Here + Len(r.data)
<1>5. /\ m \in Nat /\ Here <= m /\ m <= r.rcvd
      /\ r.rcvd \in Nat /\ rcvd <= r.rcvd /\ r.rcvd <= sent
      /\ r.data \in Seq(Byte) /\ Len(r.data) <= Remain
      /\ r.left \in Seq(Byte) /\ Len(r.left) = r.rcvd - m
      /\ r.left = Piece(scripts, m, r.rcvd)
      /\ buf \o r.data \in Seq(Byte) /\ Len(buf \o r.data) = m - Behind
      /\ buf \o r.data = Piece(scripts, Behind, m)
    BY <1>2, <1>4, Reading DEF RInv
<1>6. Len(r.data) \in Nat /\ m - Behind = Len(buf) + Len(r.data)
    <2>1. Len(r.data) \in Nat
        BY <1>5
    <2>2. Here \in Nat /\ Behind \in Nat /\ Len(buf) \in Nat /\ Behind + Len(buf) = Here
        BY <1>3
    <2>3. \A x, y, z \in Nat : (x + y) + z - x = y + z
        OBVIOUS
    <2>4. (Behind + Len(buf)) + Len(r.data) - Behind = Len(buf) + Len(r.data)
        BY <2>1, <2>2, <2>3
    <2> QED BY <2>1, <2>2, <2>4
<1> HIDE DEF m
<1>7. unget' = r.left
    BY <1>1, <1>5
<1>8. sock' = sock
    BY <1>1 DEF sock
<1>9. Here' = m /\ Behind' = Behind
    <2>1. rcvd' = r.rcvd /\ Len(unget') = r.rcvd - m /\ Len(buf') = m - Behind
        BY <1>1, <1>5, <1>7
    <2>2. Here' = rcvd' - Len(unget') /\ Behind' = rcvd' - Len(unget') - Len(buf')
        BY DEF Here, Behind
    <2>3. m \in Nat /\ r.rcvd \in Nat /\ Behind \in Nat
        BY <1>3, <1>5
    <2>4. \A x, y, z \in Nat : x - (x - y) = y /\ x - (x - y) - (y - z) = z
        OBVIOUS
    <2>5. r.rcvd - (r.rcvd - m) = m /\ r.rcvd - (r.rcvd - m) - (m - Behind) = Behind
        BY <2>3, <2>4
    <2> QED BY <2>1, <2>2, <2>5
<1>10. ConnTypes'
    <2>1. rcvd' \in 0..sent /\ taken' \in 0..rcvd'
        <3>1. taken <= r.rcvd
            <4>1. taken \in 0..rcvd
                BY DEF RInv, ConnTypes
            <4>2. rcvd \in Nat /\ r.rcvd \in Nat /\ rcvd <= r.rcvd
                BY <1>3, <1>5
            <4> QED BY <4>1, <4>2
        <3>2. taken \in Nat /\ sent \in Nat /\ r.rcvd \in Nat /\ r.rcvd <= sent
            BY <1>3, <1>5
        <3> QED BY <1>1, <3>1, <3>2
    <2> QED BY <1>1, <1>5, <1>7, <2>1 DEF RInv, ConnTypes
<1>11. Pieces'
    BY <1>1, <1>5, <1>7, <1>8, <1>9 DEF RInv, Pieces
<1>12. Phases' /\ Returnable' /\ Counted'
    BY <1>1, <1>2 DEF RInv, Phases, Returnable, Counted
<1>13. Clean'
    <2> SUFFICES ASSUME ~inbound
                 PROVE  /\ scripts[sock] \in OutScripts
                        /\ phase = "body" /\ op = "http" /\ max >= 0 =>
                            /\ max = Len(scripts[sock][1])
                            /\ total = max + 1
                            /\ \/ Behind >= Header(scripts[sock][1])
                               \/ unget' = <<>> /\ fault = "eof" /\ rcvd' = sent
        BY <1>1, <1>2, <1>8, <1>9 DEF Clean
    <2>1. /\ scripts[sock] \in OutScripts
          /\ phase = "body" /\ op = "http" /\ max >= 0 =>
                /\ max = Len(scripts[sock][1])
                /\ total = max + 1
                /\ \/ Behind >= Header(scripts[sock][1])
                   \/ unget = <<>> /\ fault = "eof" /\ rcvd = sent
        BY <1>2 DEF RInv, Clean
    <2>2. ASSUME unget = <<>>, rcvd = sent PROVE unget' = <<>> /\ rcvd' = sent
        <3>1. Here = rcvd
            BY <1>3, <2>2
        <3>2. r.rcvd = sent /\ m = sent
            BY <1>3, <1>5, <2>2, <3>1
        <3>3. Len(r.left) = 0
            BY <1>3, <1>5, <3>2
        <3> QED BY <1>1, <1>5, <1>7, <3>2, <3>3
    <2> QED BY <2>1, <2>2
<1>14. Headers'
    BY <1>1, <1>8 DEF RInv, Headers
<1>15. Messages'
    <2>1. ASSUME total = max + 1 PROVE Len(buf') <= max
        <3>1. Remain = max - Len(buf)
            BY <1>2, <1>3, <1>4, <2>1
        <3>2. max \in Int /\ Len(buf) \in Nat /\ Len(r.data) \in Nat /\ Len(r.data) <= Remain
            BY <1>2, <1>3, <1>5, <1>6
        <3>3. Len(buf') = Len(buf) + Len(r.data)
            BY <1>1, <1>5, <1>6
        <3> QED BY ONLY <3>1, <3>2, <3>3
    <2>2. phase # "idle"
        OBVIOUS
    <2> QED BY <1>1, <1>2, <1>8, <2>1, <2>2 DEF RInv, Messages, CutBefore
<1> QED BY <1>10, <1>11, <1>12, <1>13, <1>14, <1>15 DEF RInv

\* An error loses the buffer.
LEMMA LostStep ==
    ASSUME RInv, phase \in {"header", "body"}, fault = "reset", NEW ok \in BOOLEAN,
           ok => op = "http", Return(ok, <<>>), unget' = <<>>,
           UNCHANGED <<inbound, open, scripts, sent, fault, rcvd, calls>>
    PROVE  RInv'
<1>1. /\ phase' = "idle" /\ buf' = <<>>
      /\ ret' = [op |-> op, ok |-> ok, data |-> <<>>, max |-> max]
      /\ taken' = taken
      /\ UNCHANGED <<op, total, max, https>>
    <2>1. taken \in Nat /\ Len(<<>>) = 0
        BY DEF RInv, ConnTypes
    <2> QED BY <2>1 DEF Return
<1>2. open /\ op \in {"hdr", "http", "all"}
    BY DEF RInv, Phases
<1>3. /\ OnSocket /\ Whole \in Nat /\ rcvd \in Nat /\ sent \in Nat /\ taken \in Nat
      /\ taken <= rcvd /\ rcvd <= sent /\ sent <= Whole
    <2>1. /\ OnSocket /\ Whole \in Nat /\ rcvd \in Nat /\ sent \in Nat /\ taken \in Nat
          /\ rcvd <= sent /\ sent <= Whole
        BY <1>2, OpenFacts DEF RInv
    <2> QED BY <2>1 DEF RInv, ConnTypes
<1>4. sock' = sock
    BY DEF sock
<1>5. Here' = rcvd /\ Behind' = rcvd
    <2>1. rcvd' = rcvd /\ Len(unget') = 0 /\ Len(buf') = 0
        BY <1>1
    <2>2. Here' = rcvd' - Len(unget') /\ Behind' = rcvd' - Len(unget') - Len(buf')
        BY DEF Here, Behind
    <2> QED BY <1>3, <2>1, <2>2
<1>6. ConnTypes'
    <2>1. ret' \in [op : Calls, ok : BOOLEAN, data : Seq(Byte), max : Int]
        BY <1>1, <1>2 DEF Calls, RInv, ConnTypes
    <2> QED BY <1>1, <2>1 DEF RInv, ConnTypes
<1>7. Pieces'
    <2>1. Piece(scripts, rcvd, rcvd) = <<>>
        <3>1. rcvd <= Whole
            BY <1>3
        <3> QED BY <1>3, <3>1, PieceNone
    <2> QED BY <1>1, <1>2, <1>3, <1>4, <1>5, <2>1 DEF RInv, Pieces
<1>8. Phases' /\ Returnable' /\ Headers'
    BY <1>1, <1>2 DEF Phases, Returnable, Headers
<1>9. Counted' /\ Messages'
    BY <1>1 DEF RInv, Counted, Messages
<1>10. Clean'
    BY <1>1, <1>2, <1>4 DEF RInv, Clean
<1> QED BY <1>6, <1>7, <1>8, <1>9, <1>10 DEF RInv

LEMMA HeaderReadStep ==
    ASSUME RInv, HeaderRead
    PROVE  RInv'
<1>1. phase = "header" /\ Remain > 0
    BY DEF HeaderRead
<1>2. PICK r \in Read(Remain) :
        LET h == buf \o r.data
            k == HeaderEnd(h)
        IN  \/ ~r.ok /\ HeaderDone(<<>>) /\ After(r, <<>>)
            \/ r.ok /\ k > 0 /\ HeaderDone(SubSeq(h, 1, k)) /\ After(r, SubSeq(h, k + 1, Len(h)))
            \/ r.ok /\ k = 0 /\ r.data = <<>> /\ HeaderDone(h) /\ After(r, <<>>)
            \/ r.ok /\ k = 0 /\ r.data # <<>> /\ More(h) /\ After(r, <<>>)
    BY DEF HeaderRead
<1> DEFINE h == buf \o r.data
           k == HeaderEnd(h)
           m == Here + Len(r.data)
<1>3. open /\ total \in Nat
    BY <1>1 DEF RInv, Phases, ConnTypes
<1>4. /\ OnSocket /\ scripts[sock] \in Scripts /\ Whole \in Nat
      /\ sent \in Nat /\ Here \in Nat /\ Behind \in Nat /\ rcvd \in Nat
      /\ Behind <= Here /\ sent <= Whole
      /\ Len(buf) \in Nat /\ Len(unget) \in Nat /\ Here + Len(unget) = rcvd
    BY <1>3, OpenFacts DEF RInv
<1>5. Remain \in Nat
    BY <1>1, <1>3, <1>4 DEF Remain
<1>6. /\ m \in Nat /\ Here <= m /\ m <= r.rcvd
      /\ r.rcvd \in Nat /\ r.rcvd <= sent
      /\ r.left \in Seq(Byte) /\ Len(r.left) = r.rcvd - m
      /\ r.left = Piece(scripts, m, r.rcvd)
      /\ h \in Seq(Byte) /\ Len(h) = m - Behind
      /\ h = Piece(scripts, Behind, m)
      /\ r.data = <<>> => m = Here /\ r.left = <<>> /\ r.rcvd = rcvd /\ rcvd = Here
      /\ r.ok /\ r.data = <<>> => fault = "eof" /\ rcvd = sent
      /\ ~r.ok => fault = "reset" /\ r.data = <<>>
    BY <1>1, <1>3, <1>5, Reading DEF RInv
<1> HIDE DEF m
<1>7. Behind <= m /\ m <= Whole /\ r.rcvd <= Whole
    <2>1. /\ m \in Nat /\ Here <= m /\ m <= r.rcvd /\ r.rcvd \in Nat /\ r.rcvd <= sent
          /\ Here \in Nat /\ Behind \in Nat /\ Behind <= Here /\ sent \in Nat
          /\ Whole \in Nat /\ sent <= Whole
        BY <1>4, <1>6
    <2> QED BY <2>1
<1>8. /\ k \in 0..(m - Behind)
      /\ \A i \in 1..Len(scripts[sock]) :
            Behind = End(scripts[sock], i - 1) =>
                k = IF m >= Behind + Header(scripts[sock][i]) THEN Header(scripts[sock][i]) ELSE 0
      /\ Len(scripts[sock]) = 1 /\ k > 0 => Behind + k >= Header(scripts[sock][1])
    <2> DEFINE e == HeaderEnd(Bytes(Behind, m))
    <2>1. /\ e \in 0..(m - Behind)
          /\ \A i \in 1..Len(scripts[sock]) :
                Behind = End(scripts[sock], i - 1) =>
                    e = IF m >= Behind + Header(scripts[sock][i]) THEN Header(scripts[sock][i])
                        ELSE 0
          /\ Len(scripts[sock]) = 1 /\ e > 0 => Behind + e >= Header(scripts[sock][1])
        <3> QED BY <1>4, <1>6, <1>7, HeaderEndFacts
    <2>2. h = Bytes(Behind, m)
        <3> QED BY <1>4, <1>6, <1>7, PieceFacts
    <2>3. k = e
        BY <2>2
    <2> HIDE DEF e, k
    <2> QED BY <2>1, <2>3
<1> HIDE DEF h, k
<1>9. CASE ~r.ok /\ HeaderDone(<<>>) /\ After(r, <<>>)
    <2>1. /\ rcvd' = rcvd /\ unget' = <<>>
          /\ UNCHANGED <<inbound, open, scripts, sent, fault, calls>>
        BY <1>6, <1>9 DEF After, Unget, peerVars
    <2>2. Return(FALSE, <<>>)
        BY <1>9 DEF HeaderDone, Return
    <2> QED BY <1>1, <1>6, <1>9, <2>1, <2>2, LostStep
<1>10. CASE r.ok /\ k > 0 /\ HeaderDone(SubSeq(h, 1, k)) /\ After(r, SubSeq(h, k + 1, Len(h)))
    <2> DEFINE to == Behind + k
               head == SubSeq(h, 1, k)
               back == SubSeq(h, k + 1, Len(h))
    <2>1. to \in Nat /\ Behind <= to /\ to <= m /\ to <= r.rcvd /\ Behind < to
        <3>1. k \in Nat /\ k > 0 /\ k <= m - Behind
            BY <1>4, <1>6, <1>8, <1>10
        <3>2. m \in Nat /\ Behind \in Nat /\ r.rcvd \in Nat /\ m <= r.rcvd
            BY <1>4, <1>6
        <3> QED BY <3>1, <3>2
    <2>2. head = Piece(scripts, Behind, to) /\ back = Piece(scripts, to, m)
        <3>1. /\ SubSeq(Piece(scripts, Behind, m), 1, k) = Piece(scripts, Behind, Behind + k)
              /\ SubSeq(Piece(scripts, Behind, m), k + 1, Len(Piece(scripts, Behind, m)))
                    = Piece(scripts, Behind + k, m)
            <4>1. OnSocket /\ Behind \in Nat /\ m \in Nat /\ Behind <= m /\ m <= Whole
                  /\ k \in 0..(m - Behind)
                BY <1>4, <1>6, <1>7, <1>8
            <4> QED BY <4>1, PieceCut
        <3> QED BY <1>6, <3>1
    <2>3. /\ rcvd' = r.rcvd /\ unget' = back \o r.left
          /\ UNCHANGED <<inbound, open, scripts, sent, fault, calls>>
        BY <1>10 DEF After, Unget, peerVars
    <2>4. head # <<>>
        <3>1. head \in Seq(Byte) /\ Len(head) = k
            <4>1. h \in Seq(Byte) /\ k \in 0..Len(h)
                BY <1>6, <1>8
            <4> QED BY <4>1, FrontFacts
        <3>2. k > 0
            BY <1>10
        <3> HIDE DEF head
        <3> QED BY <3>1, <3>2
    <2>5. HeaderDone(head)
        BY <1>10
    <2> HIDE DEF to, head, back
    <2>6. back \o r.left = Piece(scripts, to, r.rcvd)
        <3>1. Piece(scripts, to, m) \o Piece(scripts, m, r.rcvd) = Piece(scripts, to, r.rcvd)
            <4>1. OnSocket /\ to \in Nat /\ m \in Nat /\ r.rcvd \in Nat
                  /\ to <= m /\ m <= r.rcvd /\ r.rcvd <= Whole
                BY <1>4, <1>6, <1>7, <2>1
            <4> QED BY <4>1, PieceJoin
        <3> QED BY <1>6, <2>2, <3>1
    <2>7. unget' = Piece(scripts, to, rcvd') /\ unget' \in Seq(Byte) /\ Len(unget') = rcvd' - to
        <3> DEFINE rest == Piece(scripts, to, r.rcvd)
        <3>1. rest \in Seq(Byte) /\ Len(rest) = r.rcvd - to
            BY <1>4, <1>6, <1>7, <2>1, PieceFacts
        <3> QED BY <2>3, <2>6, <3>1
    <2>8. \A i \in 1..Len(scripts[sock]) :
              Behind = End(scripts[sock], i - 1) => to = Behind + Header(scripts[sock][i])
        BY <1>8, <1>10 DEF to
    <2>9. Len(scripts[sock]) = 1 => to >= Header(scripts[sock][1])
        BY <1>8, <1>10 DEF to
    <2>10. HeaderAt(head, to)
        BY <1>6, <2>1, <2>2, <2>3, <2>4, <2>7, <2>8, <2>9 DEF HeaderAt
    <2> QED BY <1>1, <2>5, <2>10, HeaderDoneStep
<1>11. CASE r.ok /\ k = 0 /\ r.data = <<>> /\ HeaderDone(h) /\ After(r, <<>>)
    <2>1. /\ rcvd' = r.rcvd /\ unget' = r.left
          /\ UNCHANGED <<inbound, open, scripts, sent, fault, calls>>
        BY <1>6, <1>11 DEF After, Unget, peerVars
    <2>2. fault = "eof" /\ m = sent /\ rcvd' = sent /\ unget' = <<>>
        BY <1>6, <1>11, <2>1
    <2>3. ASSUME NEW i \in 1..Len(scripts[sock]), Behind = End(scripts[sock], i - 1)
          PROVE  sent < Behind + Header(scripts[sock][i])
        <3>1. 0 = IF m >= Behind + Header(scripts[sock][i]) THEN Header(scripts[sock][i]) ELSE 0
            BY <1>8, <1>11, <2>3
        <3>2. Header(scripts[sock][i]) \in {5, 8}
            BY <1>4, StartFacts
        <3>3. m = sent /\ m \in Nat /\ Behind \in Nat
            BY <1>4, <1>6, <2>2
        <3> QED BY ONLY <3>1, <3>2, <3>3
    <2>4. HeaderAt(h, m)
        BY <1>6, <1>7, <2>1, <2>2, <2>3 DEF HeaderAt
    <2> QED BY <1>1, <1>11, <2>4, HeaderDoneStep
<1>12. CASE r.ok /\ k = 0 /\ r.data # <<>> /\ More(h) /\ After(r, <<>>)
    <2>1. More(buf \o r.data)
        BY <1>12 DEF h
    <2> QED BY <1>1, <1>12, <2>1, MoreStep
<1> QED BY <1>2, <1>9, <1>10, <1>11, <1>12 DEF h, k

LEMMA HeaderFullStep ==
    ASSUME RInv, HeaderFull
    PROVE  RInv'
<1>1. /\ phase = "header" /\ max >= 0 /\ HeaderDone(buf)
      /\ UNCHANGED <<inbound, open, scripts, sent, fault, rcvd, unget, calls>>
    BY DEF HeaderFull, peerVars
<1>2. open /\ max \in Int /\ unget \in Seq(Byte)
    BY <1>1 DEF RInv, Phases, ConnTypes
<1>3. /\ Here \in Nat /\ Behind <= Here /\ Here <= rcvd /\ rcvd \in Nat /\ rcvd <= sent
      /\ Len(unget) \in Nat /\ Here + Len(unget) = rcvd
      /\ buf = Piece(scripts, Behind, Here)
      /\ unget = Piece(scripts, Here, rcvd)
    BY <1>2, OpenFacts DEF RInv
<1>4. HeaderAt(buf, Here)
    BY <1>1, <1>2, <1>3 DEF HeaderAt
<1> QED BY <1>1, <1>4, HeaderDoneStep

----------------------------------------------------------------------------
(* ReadAll *)

LEMMA BodyReturned ==
    ASSUME RInv, phase = "body", Return(TRUE, buf),
           UNCHANGED <<inbound, open, scripts, sent, fault, rcvd, unget, calls>>,
           \/ Remain > 0 /\ fault = "eof" /\ rcvd = sent /\ unget = <<>>
           \/ Remain <= 0 /\ max >= 0
    PROVE  RInv'
<1>1. /\ phase' = "idle" /\ buf' = <<>>
      /\ ret' = [op |-> op, ok |-> TRUE, data |-> buf, max |-> max]
      /\ taken' = taken + Len(buf)
      /\ UNCHANGED <<op, total, max, https>>
    BY DEF Return
<1>2. /\ open /\ op \in {"http", "all"} /\ total \in Nat /\ max \in Int /\ https \in Int
      /\ buf \in Seq(Byte) /\ unget \in Seq(Byte)
    BY DEF RInv, Phases, ConnTypes
<1>3. /\ OnSocket /\ scripts[sock] \in Scripts /\ Whole \in Nat
      /\ sent \in Nat /\ taken \in Nat /\ Here \in Nat /\ Behind \in Nat /\ rcvd \in Nat
      /\ taken <= Behind /\ Behind <= Here /\ rcvd <= sent /\ Here <= rcvd /\ sent <= Whole
      /\ Len(buf) \in Nat /\ Behind + Len(buf) = Here
      /\ Here + Len(unget) = rcvd /\ Len(unget) \in Nat
      /\ fault # "reset" => taken = Behind
      /\ buf = Piece(scripts, Behind, Here)
    BY <1>2, OpenFacts DEF RInv
<1>4. sock' = sock
    BY DEF sock
<1>5. Here' = Here /\ Behind' = Here
    <2>1. Here' = rcvd' - Len(unget') /\ Behind' = rcvd' - Len(unget') - Len(buf')
          /\ Here = rcvd - Len(unget)
        BY DEF Here, Behind
    <2>2. Len(buf') = 0
        BY <1>1
    <2> QED BY <1>3, <2>1, <2>2
<1>6. taken' \in Nat /\ taken' <= Here /\ Here <= rcvd /\ (fault # "reset" => taken' = Here)
    BY <1>1, <1>3
<1>7. Remain = total - Len(buf) - 1
    BY DEF Remain
<1>8. ConnTypes'
    <2>1. ret' \in [op : Calls, ok : BOOLEAN, data : Seq(Byte), max : Int]
        BY <1>1, <1>2 DEF Calls
    <2>2. taken' \in 0..rcvd'
        BY <1>3, <1>6
    <2> QED BY <1>1, <2>1, <2>2 DEF RInv, ConnTypes
<1>9. Pieces'
    <2>1. Piece(scripts, Here, Here) = <<>>
        <3>1. Here <= Whole
            BY <1>3
        <3> QED BY <1>3, <3>1, PieceNone
    <2> QED BY <1>1, <1>4, <1>5, <1>6, <2>1 DEF RInv, Pieces
<1>10. Phases' /\ Returnable' /\ Headers'
    BY <1>1, <1>2 DEF Phases, Returnable, Headers
<1>11. Counted'
    BY <1>1, <1>2 DEF RInv, Counted
<1>12. Clean'
    <2> SUFFICES ASSUME ~inbound PROVE scripts[sock] \in OutScripts /\ (op = "http" => unget = <<>>)
        BY <1>1, <1>2, <1>4 DEF Clean
    <2>1. scripts[sock] \in OutScripts
        BY <1>2 DEF RInv, Clean
    <2>2. ASSUME op = "http", Remain <= 0, max >= 0 PROVE unget = <<>>
        <3> DEFINE n == Header(scripts[sock][1])
        <3>1. max = Len(scripts[sock][1]) /\ total = max + 1 /\ (Behind >= n \/ unget = <<>>)
            BY <2>2 DEF RInv, Clean
        <3>2. Len(scripts[sock]) = 1
            BY <2>1 DEF OutScripts
        <3>3. Whole = n + max /\ n \in Nat
            <4>1. End(scripts[sock], 0) = 0 /\ Whole = End(scripts[sock], 1)
                BY <1>3, <3>2, ScriptFacts DEF Whole
            <4>2. End(scripts[sock], 1 - 1) + n + Len(scripts[sock][1]) = End(scripts[sock], 1)
                  /\ n \in {5, 8}
                BY <1>3, <3>2, StartFacts
            <4> QED BY <1>2, <3>1, <4>1, <4>2
        <3>4. Len(buf) >= max
            BY <1>2, <1>3, <1>7, <2>2, <3>1
        <3> HIDE DEF n
        <3>5. ASSUME Behind >= n PROVE unget = <<>>
            <4>1. Here >= Whole
                BY <1>2, <1>3, <3>3, <3>4, <3>5
            <4>2. Len(unget) = 0
                BY <1>3, <4>1
            <4> QED BY <1>2, <4>2
        <3> QED BY <3>1, <3>5
    <2> QED BY <2>1, <2>2
<1>13. Messages'
    <2> SUFFICES ASSUME https >= 0, fault # "reset", Filled(scripts[sock], https)
                 PROVE  \/ fault = "eof" /\ sent < End(scripts[sock], https)
                        \/ /\ taken' = End(scripts[sock], https)
                           /\ buf = Piece(scripts, taken' - Len(scripts[sock][https]), taken')
        BY <1>1, <1>4 DEF Messages, CutBefore
    <2> DEFINE n == Header(scripts[sock][https])
               b == End(scripts[sock], https - 1)
               e == End(scripts[sock], https)
    <2>1. /\ https > 0
          /\ \/ CutBefore(https)
             \/ /\ taken = b + n
                /\ max = Len(scripts[sock][https])
                /\ total = max + 1
                /\ Len(buf) <= max
        BY <1>2 DEF RInv, Messages
    <2>2. CASE taken = b + n /\ max = Len(scripts[sock][https]) /\ total = max + 1 /\ Len(buf) <= max
        <3>1. https \in 1..Len(scripts[sock])
            BY <1>2, <1>3, <2>1, ScriptFacts DEF Filled
        <3>2. b \in Nat /\ n \in {5, 8} /\ b + n + Len(scripts[sock][https]) = e
              /\ Len(scripts[sock][https]) \in Nat
            BY <1>3, <3>1, StartFacts
        <3> HIDE DEF n, b, e
        <3>3. e = taken + max /\ taken = Behind /\ e \in Nat /\ max \in Nat
            <4>1. max \in Nat /\ b + n + max = e
                BY <2>2, <3>2
            <4>2. e = taken + max
                BY <2>2, <4>1
            <4>3. taken = Behind /\ taken \in Nat
                BY <1>3
            <4>4. \A x, y \in Nat : x + y \in Nat
                OBVIOUS
            <4> QED BY <4>1, <4>2, <4>3, <4>4
        <3>4. CASE Remain > 0 /\ fault = "eof" /\ rcvd = sent /\ unget = <<>>
            <4>1. Len(buf) < max
                BY <1>2, <1>3, <1>7, <2>2, <3>4
            <4>2. sent = taken + Len(buf)
                BY <1>3, <3>3, <3>4
            <4>3. sent < e
                BY <1>3, <3>3, <4>1, <4>2
            <4> QED BY <3>4, <4>3 DEF e
        <3>5. CASE Remain <= 0
            <4>1. Len(buf) = max
                BY <1>2, <1>3, <1>7, <2>2, <3>5
            <4>2. taken' = e /\ taken' = Here /\ taken' - max = Behind
                BY <1>1, <1>3, <3>3, <4>1
            <4> QED BY <1>3, <2>2, <4>2 DEF e
        <3> QED BY <3>4, <3>5
    <2> QED BY <2>1, <2>2 DEF CutBefore
<1> QED BY <1>8, <1>9, <1>10, <1>11, <1>12, <1>13 DEF RInv

LEMMA BodyReadStep ==
    ASSUME RInv, BodyRead
    PROVE  RInv'
<1>1. phase = "body" /\ Remain > 0
    BY DEF BodyRead
<1>2. PICK r \in Read(Remain) :
        /\ \/ ~r.ok /\ Return(op = "http", <<>>)
           \/ r.ok /\ r.data = <<>> /\ Return(TRUE, buf)
           \/ r.ok /\ r.data # <<>> /\ More(buf \o r.data)
        /\ After(r, <<>>)
    BY DEF BodyRead
<1>3. open /\ total \in Nat /\ unget \in Seq(Byte)
    BY <1>1 DEF RInv, Phases, ConnTypes
<1>4. Len(buf) \in Nat /\ Len(unget) \in Nat /\ Here \in Nat /\ Here + Len(unget) = rcvd
    BY <1>3, OpenFacts DEF RInv
<1>5. Remain \in Nat
    BY <1>1, <1>3, <1>4 DEF Remain
<1>6. /\ r.left \in Seq(Byte)
      /\ r.data = <<>> => r.left = <<>> /\ r.rcvd = rcvd /\ rcvd = Here
      /\ r.ok /\ r.data = <<>> => fault = "eof" /\ rcvd = sent
      /\ ~r.ok => fault = "reset" /\ r.data = <<>>
    BY <1>1, <1>3, <1>5, Reading DEF RInv
<1>7. /\ rcvd' = r.rcvd /\ unget' = r.left
      /\ UNCHANGED <<inbound, open, scripts, sent, fault, calls>>
    BY <1>2, <1>6 DEF After, Unget, peerVars
<1>8. CASE ~r.ok /\ Return(op = "http", <<>>)
    <2>1. (op = "http") \in BOOLEAN /\ rcvd' = rcvd /\ unget' = <<>>
        BY <1>6, <1>7, <1>8
    <2> QED BY <1>1, <1>6, <1>7, <1>8, <2>1, LostStep
<1>9. CASE r.ok /\ r.data = <<>> /\ Return(TRUE, buf)
    <2>1. rcvd = Here /\ Len(unget) = 0
        <3>1. rcvd = Here
            BY <1>6, <1>9
        <3>2. \A x, y \in Nat : x + y = x => y = 0
            OBVIOUS
        <3> QED BY <1>4, <3>1, <3>2
    <2>2. unget = <<>> /\ unget' = unget /\ rcvd' = rcvd
        BY <1>3, <1>6, <1>7, <1>9, <2>1
    <2> QED BY <1>1, <1>6, <1>7, <1>9, <2>2, BodyReturned
<1>10. CASE r.ok /\ r.data # <<>> /\ More(buf \o r.data)
    BY <1>1, <1>2, <1>10, MoreStep
<1> QED BY <1>2, <1>8, <1>9, <1>10

LEMMA BodyFullStep ==
    ASSUME RInv, BodyFull
    PROVE  RInv'
BY BodyReturned DEF BodyFull, peerVars

----------------------------------------------------------------------------
(* The theorems *)

LEMMA InitRInv == ConnInit => RInv
<1> SUFFICES ASSUME ConnInit PROVE RInv
    OBVIOUS
<1>1. /\ inbound \in BOOLEAN /\ sent = 0 /\ fault = "none" /\ rcvd = 0 /\ unget = <<>>
      /\ op = "none" /\ buf = <<>> /\ total = 0 /\ max = 0 /\ ret = None /\ taken = 0
      /\ https = 0 /\ calls = 0
      /\ inbound => open = TRUE /\ phase = "accept" /\ \E script \in Scripts : scripts = <<script>>
      /\ ~inbound => open = FALSE /\ phase = "idle" /\ scripts = <<>>
    BY DEF ConnInit
<1>2. ConnTypes
    <2>1. ret \in [op : Calls, ok : BOOLEAN, data : Seq(Byte), max : Int]
        BY <1>1 DEF None, Calls
    <2>2. scripts \in Seq(Scripts) /\ open \in BOOLEAN
          /\ phase \in {"accept", "idle", "header", "body", "gone"}
        <3>1. CASE inbound
            <4>1. PICK script \in Scripts : scripts = <<script>>
                BY <1>1, <3>1
            <4>2. <<script>> \in Seq(Scripts)
                OBVIOUS
            <4>3. open = TRUE /\ phase = "accept"
                BY <1>1, <3>1
            <4> QED BY <4>1, <4>2, <4>3
        <3>2. CASE ~inbound
            <4>1. open = FALSE /\ phase = "idle" /\ scripts = <<>>
                BY <1>1, <3>2
            <4>2. <<>> \in Seq(Scripts)
                OBVIOUS
            <4> QED BY <4>1, <4>2
        <3> QED BY <3>1, <3>2
    <2>3. calls \in 0..MaxCalls
        BY <1>1, ConnAssumption
    <2> QED BY <1>1, <2>1, <2>2, <2>3 DEF ConnTypes, Calls
<1>3. Pieces
    <2> SUFFICES ASSUME open PROVE Pieces
        BY DEF Pieces
    <2>1. PICK script \in Scripts : scripts = <<script>>
        BY <1>1
    <2>2. scripts # <<>> /\ scripts[sock] = script
        BY <2>1 DEF sock
    <2>3. Len(Text[script]) \in Nat
        BY ScriptFacts
    <2>4. Here = 0 /\ Behind = 0
        <3>1. Len(unget) = 0 /\ Len(buf) = 0 /\ rcvd = 0
            BY <1>1
        <3>2. Here = rcvd - Len(unget) /\ Behind = rcvd - Len(unget) - Len(buf)
            BY DEF Here, Behind
        <3> QED BY <3>1, <3>2
    <2>5. Piece(scripts, 0, 0) = <<>>
        <3>1. 1..(0 - 0) = {}
            OBVIOUS
        <3> QED BY <3>1 DEF Piece
    <2> QED BY <1>1, <2>2, <2>3, <2>4, <2>5 DEF Pieces
<1>4. Phases /\ Returnable /\ Headers /\ Counted /\ Clean
    BY <1>1 DEF Phases, Returnable, Headers, Counted, Clean, None
<1>5. Messages
    <2> SUFFICES ASSUME open PROVE Messages
        BY DEF Messages
    <2>1. phase = "accept"
        BY <1>1
    <2> QED BY <2>1 DEF Messages
<1> QED BY <1>2, <1>3, <1>4, <1>5 DEF RInv

LEMMA NextRInv == RInv /\ [ConnNext]_connVars => RInv'
<1> SUFFICES ASSUME RInv, [ConnNext]_connVars PROVE RInv'
    OBVIOUS
<1>1. CASE UNCHANGED connVars
    <2>1. UNCHANGED <<inbound, open, scripts, sent, fault, rcvd, unget, phase, op, buf, total, max,
                      ret, taken, https, calls>>
        BY <1>1 DEF connVars, peerVars, callVars
    <2>2. sock' = sock /\ Here' = Here /\ Behind' = Behind
        BY <2>1 DEF sock, Here, Behind
    <2>3. ConnTypes' /\ Pieces' /\ Phases'
        BY <2>1, <2>2 DEF RInv, ConnTypes, Pieces, Phases
    <2>4. Returnable' /\ Clean' /\ Counted'
        BY <2>1, <2>2 DEF RInv, Returnable, Clean, Counted
    <2>5. Headers' /\ Messages'
        BY <2>1, <2>2 DEF RInv, Headers, Messages, CutBefore
    <2> QED BY <2>3, <2>4, <2>5 DEF RInv
<1>2. CASE PeerWrite \/ PeerEnd
    BY <1>2, PeerWriteStep, PeerEndStep
<1>3. CASE Open \/ Close
    BY <1>3, OpenStep, CloseStep
<1>4. CASE CallReadHttpHdr \/ CallReadHttp \/ CallReadAll \/ CallRead \/ CallUnget
    BY <1>4, CallsStep, CallReadStep, CallUngetStep
<1>5. CASE Accept
    BY <1>5, AcceptStep
<1>6. CASE HeaderRead \/ HeaderFull \/ HeaderGrow
    BY <1>6, HeaderReadStep, HeaderFullStep, GrowStep DEF HeaderGrow
<1>7. CASE BodyRead \/ BodyFull \/ BodyGrow
    BY <1>7, BodyReadStep, BodyFullStep, GrowStep DEF BodyGrow
<1> QED BY <1>1, <1>2, <1>3, <1>4, <1>5, <1>6, <1>7 DEF ConnNext, Step

\* The inductive invariant of the reading side holds in every state.
THEOREM ConnectionInvariant == ConnSpec => []RInv
<1> QED BY InitRInv, NextRInv, PTL DEF ConnSpec

\* What is given back, what is in the buffer and what the callers have stay within what
\* the socket has delivered (Get, Unget, ReadHttpHdr and ReadAll), and buffers and
\* results hold bytes of the peer only.
THEOREM ConnectionTypes == ConnSpec => []ConnTypes
<1>1. RInv => ConnTypes
    BY DEF RInv
<1> QED BY <1>1, ConnectionInvariant, PTL

\* Unget and Get lose, repeat and reorder no byte, whatever pieces read() returns, and
\* none survives Close and Open.
THEOREM ConnectionConserved == ConnSpec => []Conserved
<1>1. RInv => Conserved
    <2> SUFFICES ASSUME RInv, open, fault # "reset" PROVE buf \o unget = Bytes(taken, rcvd)
        BY DEF Conserved
    <2>1. /\ OnSocket /\ Whole \in Nat /\ sent \in Nat
          /\ Here \in Nat /\ Behind \in Nat /\ rcvd \in Nat
          /\ Behind <= Here /\ Here <= rcvd /\ rcvd <= sent /\ sent <= Whole
          /\ taken = Behind
          /\ buf = Piece(scripts, Behind, Here)
          /\ unget = Piece(scripts, Here, rcvd)
        BY OpenFacts DEF RInv
    <2>2. rcvd <= Whole /\ Behind <= rcvd
        BY <2>1
    <2>3. Piece(scripts, Behind, Here) \o Piece(scripts, Here, rcvd) = Piece(scripts, Behind, rcvd)
        BY <2>1, <2>2, PieceJoin
    <2>4. Piece(scripts, Behind, rcvd) = Bytes(Behind, rcvd)
        BY <2>1, <2>2, PieceFacts
    <2> QED BY <2>1, <2>3, <2>4
<1> QED BY <1>1, ConnectionInvariant, PTL

\* ReadHttpHdr without a limit returns the header of a message, whole and nothing of its
\* content, and successive calls of ReadHttp return the contents of successive messages,
\* however their bytes arrived.
THEOREM ConnectionHttpWhole == ConnSpec => []HttpWhole
<1>1. ASSUME RInv PROVE HeaderWhole
    <2> SUFFICES ASSUME open, ret.op = "hdr", ret.ok, ret.max < 0,
                        NEW k \in 1..Len(scripts[sock]),
                        ret.data[1].at = End(scripts[sock], k - 1) + 1
                 PROVE  LET from == End(scripts[sock], k - 1)
                            to == from + Header(scripts[sock][k])
                        IN  ret.data = Bytes(from, IF sent < to THEN sent ELSE to)
        BY DEF HeaderWhole
    <2> DEFINE from == End(scripts[sock], k - 1)
               to == from + Header(scripts[sock][k])
    <2>1. \/ sent >= to /\ ret.data = Piece(scripts, from, to)
          \/ sent < to /\ fault # "none" /\ ret.data = Piece(scripts, from, sent)
        BY <1>1 DEF RInv, Headers
    <2>2. \A x, y : Piece(scripts, x, y) = Bytes(x, y)
        BY DEF Piece, Bytes, sock
    <2>3. to \in Nat /\ sent \in Nat
        <3>1. scripts[sock] \in Scripts /\ sent \in Nat
            BY <1>1, OpenFacts DEF RInv
        <3>2. from \in Nat /\ Header(scripts[sock][k]) \in {5, 8}
            BY <3>1, StartFacts
        <3> QED BY <3>1, <3>2
    <2> HIDE DEF from, to
    <2>4. ret.data = Bytes(from, IF sent < to THEN sent ELSE to)
        <3>1. sent >= to => ~(sent < to)
            BY <2>3
        <3> QED BY <2>1, <2>2, <3>1
    <2> QED BY <2>4 DEF from, to
<1>2. ASSUME RInv PROVE MessagesWhole
    <2> SUFFICES ASSUME open, phase = "idle", https > 0, fault # "reset",
                        https <= Len(scripts[sock]),
                        \A i \in 1..https : scripts[sock][i] # <<>>,
                        sent >= End(scripts[sock], https)
                 PROVE  /\ taken = End(scripts[sock], https)
                        /\ ret.data = Bytes(taken - Len(scripts[sock][https]), taken)
        BY DEF MessagesWhole
    <2>1. Filled(scripts[sock], https) /\ https \in Int
        BY <1>2 DEF Filled, RInv, ConnTypes
    <2>2. \/ CutBefore(https)
          \/ /\ taken = End(scripts[sock], https)
             /\ ret.data = Piece(scripts, taken - Len(scripts[sock][https]), taken)
        BY <1>2, <2>1 DEF RInv, Messages
    <2>3. ~CutBefore(https)
        <3>1. scripts[sock] \in Scripts /\ sent \in Nat
            BY <1>2, OpenFacts DEF RInv
        <3>2. End(scripts[sock], https) \in Nat
            <4>1. https \in 1..Len(scripts[sock])
                BY <2>1, <3>1, ScriptFacts
            <4>2. /\ End(scripts[sock], https - 1) \in Nat
                  /\ Header(scripts[sock][https]) \in {5, 8} /\ Len(scripts[sock][https]) \in Nat
                  /\ End(scripts[sock], https - 1) + Header(scripts[sock][https])
                        + Len(scripts[sock][https]) = End(scripts[sock], https)
                BY <3>1, <4>1, StartFacts
            <4>3. \A x, y, z \in Nat : x + y + z \in Nat
                OBVIOUS
            <4> QED BY <4>2, <4>3
        <3> QED BY <3>1, <3>2 DEF CutBefore
    <2>4. \A x, y : Piece(scripts, x, y) = Bytes(x, y)
        BY DEF Piece, Bytes, sock
    <2> QED BY <2>2, <2>3, <2>4
<1>3. RInv => HttpWhole
    BY <1>1, <1>2 DEF HttpWhole
<1> QED BY <1>3, ConnectionInvariant, PTL

=============================================================================

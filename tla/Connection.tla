----------------------------- MODULE Connection -----------------------------
(***************************************************************************)
(* PTP::Net::Connection (ptp/net.cpp), the reading side: a socket delivers *)
(* what the peer wrote in pieces of any size, ReadHttpHdr takes them until *)
(* it has seen the end of a header and gives back what it has read beyond  *)
(* (Unget), and the next Read begins with that.  The object opens a new    *)
(* socket by itself after Close.                                           *)
(*                                                                         *)
(* A byte is known by its socket and its place in what the peer writes on  *)
(* it; what it says is looked up there.  A request or status line is one   *)
(* character, so is the length in a Content-length line.  Callers are as   *)
(* in the samples: an accepted connection is read until it is closed for   *)
(* good; an outbound one is closed after ReadHttp and opened again, and    *)
(* its peer sends one message, then closes.                                *)
(***************************************************************************)
EXTENDS Integers, Sequences, FiniteSetsExt, Functions

CONSTANTS
    Bodies,      \* the contents of messages, sequences of characters
    HdrSize,     \* ReadHttpHdr: its first buffer (512)
    DataSize,    \* ReadHttp: its first buffer when there is no length (1024)
    PeekSize,    \* Accept: how much it looks at (64)
    HdrMaxes,    \* maxsize arguments of ReadHttpHdr
    ReadSizes,   \* size arguments of Read and ReadAll
    MaxSockets,  \* bound: sockets opened
    MaxCalls     \* bound: calls of the reading functions

ASSUME ConnAssumption ==
    /\ \A body \in Bodies : body \in Seq(STRING)
    /\ HdrSize \in Nat /\ HdrSize > 1
    /\ DataSize \in Nat /\ DataSize > 1
    /\ PeekSize \in Nat \ {0}
    /\ HdrMaxes \subseteq Nat \cup {-1}
    /\ ReadSizes \subseteq Nat \ {0}
    /\ MaxSockets \in Nat
    /\ MaxCalls \in Nat

VARIABLES
    inbound,   \* m_dir: this connection was accepted
    scripts,   \* the bodies of the messages the peer writes, for each socket
    open,      \* m_s >= 0
    sent,      \* how much the peer has written on the current socket
    fault,     \* whether it has closed ("eof") or lost ("reset") the socket
    rcvd,      \* how much of it read() has returned
    unget,     \* m_unget from m_ungetNext to m_ungetLast
    phase,     \* where the caller or the call under way is
    op,        \* the call under way
    buf,       \* its buffer
    total,     \* the size of the buffer
    max,       \* maxsize
    ret,       \* what the last call on this socket has returned
    taken,     \* history: how much of the socket's bytes callers were given
    https,     \* history: calls of ReadHttp on this socket; -1: there were others
    calls

peerVars == <<scripts, sent, fault>>
callVars == <<phase, op, buf, total, max, ret, taken, https>>
connVars == <<inbound, open, peerVars, rcvd, unget, callVars, calls>>

sock == Len(scripts)
None == [op |-> "none", ok |-> FALSE, data |-> <<>>, max |-> 0]

----------------------------------------------------------------------------
(* What the peer writes *)

\* WriteHttp: the first line, the length unless there is no content, a blank
\* line and the content.
WriteHttp(body) ==
    <<"line", "cr", "lf">> \o (IF body = <<>> THEN <<>> ELSE <<"length", "cr", "lf">>)
        \o <<"cr", "lf">> \o body

Header(body) == Len(WriteHttp(body)) - Len(body)

\* The contents of the messages on an accepted connection, whose peer may send
\* a second message, and on one that this side has opened.
OutScripts == {<<body>> : body \in Bodies}
Scripts == OutScripts \cup {<<body, next>> : body, next \in Bodies}

Text == [script \in Scripts |->
            WriteHttp(script[1]) \o (IF Len(script) = 1 THEN <<>> ELSE WriteHttp(script[2]))]

\* Where the first k messages of a script end.
End(script, k) ==
    CASE k = 0 -> 0
      [] k = 1 -> Len(WriteHttp(script[1]))
      [] k = 2 -> Len(Text[script])

\* The number in the Content-length line at this place.
Value(script, at) == IF at <= End(script, 1) THEN Len(script[1]) ELSE Len(script[2])

\* A byte is known by its socket and its place on it.
Chars == {"line", "length", "cr", "lf"} \cup UNION {Range(body) : body \in Bodies}
Byte == [sock : Nat, at : Nat, char : Chars]
Bytes(from, to) ==
    [i \in 1..(to - from) |->
        [sock |-> sock, at |-> from + i, char |-> Text[scripts[sock]][from + i]]]
----------------------------------------------------------------------------
Calls == {"none", "hdr", "http", "all", "read"}

ConnTypes ==
    /\ inbound \in BOOLEAN
    /\ scripts \in Seq(Scripts)
    /\ open \in BOOLEAN
    /\ sent \in Nat
    /\ fault \in {"none", "eof", "reset"}
    /\ rcvd \in 0..sent
    /\ unget \in Seq(Byte)
    /\ phase \in {"accept", "idle", "header", "body", "gone"}
    /\ op \in Calls
    /\ buf \in Seq(Byte)
    /\ total \in Nat
    /\ max \in Int
    /\ ret \in [op : Calls, ok : BOOLEAN, data : Seq(Byte), max : Int]
    /\ taken \in 0..rcvd
    /\ https \in Int
    /\ calls \in 0..MaxCalls

ConnInit ==
    /\ inbound \in BOOLEAN
    /\ IF inbound
       THEN open = TRUE /\ phase = "accept" /\ \E script \in Scripts : scripts = <<script>>
       ELSE open = FALSE /\ phase = "idle" /\ scripts = <<>>
    /\ sent = 0
    /\ fault = "none"
    /\ rcvd = 0
    /\ unget = <<>>
    /\ op = "none"
    /\ buf = <<>>
    /\ total = 0
    /\ max = 0
    /\ ret = None
    /\ taken = 0
    /\ https = 0
    /\ calls = 0

----------------------------------------------------------------------------
(* The peer *)

\* WriteAll: write() takes any part of what is left.
PeerWrite ==
    /\ open
    /\ fault = "none"
    /\ \E n \in (sent + 1)..Len(Text[scripts[sock]]) : sent' = n
    /\ UNCHANGED <<inbound, open, scripts, fault, rcvd, unget, callVars, calls>>

\* It closes its socket, or its process or the network fails.
PeerEnd ==
    /\ open
    /\ fault = "none"
    /\ fault' \in {"eof", "reset"}
    /\ UNCHANGED <<inbound, open, scripts, sent, rcvd, unget, callVars, calls>>

----------------------------------------------------------------------------
(* Open, Close, Read, Unget *)

\* Open, which connects to the peer, through a proxy or not, or changes nothing.
Open ==
    /\ ~inbound
    /\ ~open
    /\ sock < MaxSockets
    /\ open' = TRUE
    /\ \E script \in OutScripts : scripts' = Append(scripts, script)
    /\ sent' = 0
    /\ fault' = "none"
    /\ rcvd' = 0
    /\ taken' = 0
    /\ https' = 0
    /\ ret' = None
    /\ UNCHANGED <<inbound, unget, phase, op, buf, total, max, calls>>

\* The caller has done a ReadHttp, has read the header of an answer without
\* content, which had room, or has failed to write its request.
Close ==
    /\ open
    /\ phase = "idle"
    /\ \/ ret.op = "http"
       \/ ret.op = "hdr" /\ ret.max < 0 /\ scripts[sock] = << <<>> >>
       \/ rcvd = 0
    /\ open' = FALSE
    /\ phase' = IF inbound THEN "gone" ELSE "idle"
    /\ UNCHANGED <<inbound, peerVars, rcvd, unget, op, buf, total, max, ret, taken, https,
                   calls>>

Got(data, left) == [ok |-> TRUE, data |-> data, left |-> left,
                    rcvd |-> IF unget = <<>> THEN rcvd + Len(data) ELSE rcvd]
Lost == [ok |-> FALSE, data |-> <<>>, left |-> <<>>, rcvd |-> rcvd]

\* Mutant: m_ungetNext stays where it is.
GetAgain(n) == Got(SubSeq(unget, 1, Min({n, Len(unget)})), unget)

\* Get: what was given back, as much of it as fits.
Get(n) ==
    LET k == Min({n, Len(unget)})
    IN  Got(SubSeq(unget, 1, k), SubSeq(unget, k + 1, Len(unget)))

\* The outcomes of Read(n): bytes that were given back first; else what the
\* socket has, no bytes at its end, an error after a reset; none of these while
\* read() waits.  What Wait says of the timeout is not used.
Read(n) ==
    IF unget # <<>>
    THEN {Get(n)}
    ELSE {Got(Bytes(rcvd, rcvd + k), <<>>) : k \in 1..Min({n, sent - rcvd})}
         \cup (IF fault = "eof" /\ rcvd = sent THEN {Got(<<>>, <<>>)} ELSE {})
         \cup (IF fault = "reset" THEN {Lost} ELSE {})

\* Mutant: behind what is there already.
UngetBehind(data, left) == left \o data

\* Unget: in front of what is there already.
Unget(data, left) == data \o left

----------------------------------------------------------------------------
(* What ReadHttpHdr and ReadHttp look for *)

\* The places in h where this text ends.
Ends(h, text) ==
    {i \in Len(text)..Len(h) :
        \A j \in 1..Len(text) : h[i - Len(text) + j].char = text[j]}

\* UngetData: where the header ends, 0 if it goes on.
HeaderEnd(h) ==
    LET crlf == Ends(h, <<"cr", "lf", "cr", "lf">>)
        lflf == Ends(h, <<"lf", "lf">>)
    IN  IF crlf # {} THEN Min(crlf) ELSE IF lflf # {} THEN Min(lflf) ELSE 0

\* The value of the first Content-length line, -1 without one.
ContentSize(h) ==
    LET lines == Ends(h, <<"lf", "length">>)
    IN  IF lines = {} THEN -1
        ELSE LET b == h[Min(lines)] IN Value(scripts[b.sock], b.at)

----------------------------------------------------------------------------
(* The calls *)

\* The call under way returns.
Return(ok, data) ==
    /\ phase' = "idle"
    /\ buf' = <<>>
    /\ ret' = [op |-> op, ok |-> ok, data |-> data, max |-> max]
    /\ taken' = taken + Len(data)
    /\ UNCHANGED <<op, total, max, https>>

\* A step of the call under way reads on into its buffer.
More(data) ==
    /\ buf' = data
    /\ UNCHANGED <<phase, op, total, max, ret, taken, https>>

Grow ==
    /\ total' = 2 * total
    /\ UNCHANGED <<inbound, open, peerVars, rcvd, unget, phase, op, buf, max, ret, taken, https,
                   calls>>

\* Read has had the outcome r; back is given back after that.
After(r, back) ==
    /\ rcvd' = r.rcvd
    /\ unget' = Unget(back, r.left)
    /\ UNCHANGED <<inbound, open, peerVars, calls>>

\* Accept(1), once accept() has returned: it looks at what comes first and gives
\* it back; without any it deletes the connection.
Accept ==
    /\ phase = "accept"
    /\ \E r \in Read(PeekSize) :
        /\ After(r, r.data)
        /\ phase' = IF r.data = <<>> THEN "gone" ELSE "idle"
    /\ UNCHANGED <<op, buf, total, max, ret, taken, https>>

\* A caller enters a reading function (which opens the socket if need be).
Call(name, at, size, maxsize, count) ==
    /\ open
    /\ phase = "idle"
    /\ calls < MaxCalls
    /\ calls' = calls + 1
    /\ phase' = at
    /\ op' = name
    /\ total' = size
    /\ max' = maxsize
    /\ https' = count
    /\ UNCHANGED <<inbound, open, peerVars, rcvd, unget, buf, ret, taken>>

CallReadHttpHdr ==
    \E m \in HdrMaxes : Call("hdr", "header", IF m >= 0 THEN m ELSE HdrSize, m, -1)
CallReadHttp ==
    Call("http", "header", HdrSize, -1, IF https < 0 THEN -1 ELSE https + 1)
CallReadAll == \E n \in ReadSizes : Call("all", "body", n + 1, n, -1)

\* Read by itself.
CallRead ==
    /\ open
    /\ phase = "idle"
    /\ calls < MaxCalls
    /\ calls' = calls + 1
    /\ \E n \in ReadSizes : \E r \in Read(n) :
        /\ rcvd' = r.rcvd
        /\ unget' = r.left
        /\ ret' = [op |-> "read", ok |-> r.ok, data |-> r.data, max |-> n]
        /\ taken' = taken + Len(r.data)
    /\ https' = -1
    /\ UNCHANGED <<inbound, open, peerVars, phase, op, buf, total, max>>

\* A caller of ReadHttpHdr has looked at the header and gives it all back.
CallUnget ==
    /\ open
    /\ phase = "idle"
    /\ ret.op = "hdr"
    /\ ret.ok
    /\ unget' = Unget(ret.data, unget)
    /\ taken' = taken - Len(ret.data)
    /\ ret' = None
    /\ UNCHANGED <<inbound, open, peerVars, rcvd, phase, op, buf, total, max, https, calls>>

----------------------------------------------------------------------------
(* ReadHttpHdr *)

\* Mutant: the buffer has no room for the last byte.
BodySizeShort(csize) == IF csize >= 0 THEN csize ELSE DataSize

\* Mutant: it has room for one byte more than the content.
BodySizeLong(csize) == IF csize >= 0 THEN csize + 2 ELSE DataSize

\* The buffer ReadHttp begins with.
BodySize(csize) == IF csize >= 0 THEN csize + 1 ELSE DataSize

\* ReadHttpHdr has the header h and returns, to its caller or to ReadHttp, which
\* goes on to the content.
HeaderDone(h) ==
    IF op = "hdr" \/ h = <<>>
    THEN Return(h # <<>>, h)
    ELSE /\ phase' = "body"
         /\ buf' = <<>>
         /\ total' = BodySize(ContentSize(h))
         /\ max' = IF ContentSize(h) > 0 THEN ContentSize(h) ELSE max
         /\ taken' = taken + Len(h)
         /\ UNCHANGED <<op, ret, https>>

Remain == total - Len(buf) - 1

HeaderRead ==
    /\ phase = "header"
    /\ Remain > 0
    /\ \E r \in Read(Remain) :
        LET h == buf \o r.data
            k == HeaderEnd(h)
        IN  \/ ~r.ok /\ HeaderDone(<<>>) /\ After(r, <<>>)
            \/ r.ok /\ k > 0 /\ HeaderDone(SubSeq(h, 1, k)) /\ After(r, SubSeq(h, k + 1, Len(h)))
            \/ r.ok /\ k = 0 /\ r.data = <<>> /\ HeaderDone(h) /\ After(r, <<>>)
            \/ r.ok /\ k = 0 /\ r.data # <<>> /\ More(h) /\ After(r, <<>>)

\* The caller's buffer is full, or the function's own one has to grow.
HeaderFull ==
    /\ phase = "header"
    /\ Remain <= 0
    /\ max >= 0
    /\ HeaderDone(buf)
    /\ UNCHANGED <<inbound, open, peerVars, rcvd, unget, calls>>

HeaderGrow ==
    /\ phase = "header"
    /\ Remain <= 0
    /\ max < 0
    /\ Grow

----------------------------------------------------------------------------
(* ReadAll, and ReadHttp calling it *)

\* After an error ReadHttp returns its buffer all the same, with the size -1.
BodyRead ==
    /\ phase = "body"
    /\ Remain > 0
    /\ \E r \in Read(Remain) :
        /\ \/ ~r.ok /\ Return(op = "http", <<>>)
           \/ r.ok /\ r.data = <<>> /\ Return(TRUE, buf)
           \/ r.ok /\ r.data # <<>> /\ More(buf \o r.data)
        /\ After(r, <<>>)

BodyFull ==
    /\ phase = "body"
    /\ Remain <= 0
    /\ max >= 0
    /\ Return(TRUE, buf)
    /\ UNCHANGED <<inbound, open, peerVars, rcvd, unget, calls>>

BodyGrow ==
    /\ phase = "body"
    /\ Remain <= 0
    /\ max < 0
    /\ Grow

----------------------------------------------------------------------------
Step == Accept \/ HeaderRead \/ HeaderFull \/ HeaderGrow \/ BodyRead \/ BodyFull \/ BodyGrow

ConnNext ==
    \/ PeerWrite \/ PeerEnd
    \/ Open \/ Close
    \/ CallReadHttpHdr \/ CallReadHttp \/ CallReadAll \/ CallRead \/ CallUnget
    \/ Step

\* A reader that is not waiting for the peer runs on.  The peer promises nothing.
ConnSpec == ConnInit /\ [][ConnNext]_connVars /\ WF_connVars(Step)

----------------------------------------------------------------------------
(* Properties *)

\* The bytes in the buffer of the call under way and those given back are, in
\* this order, exactly the bytes of this socket that no caller has been given
\* yet: Unget and Get lose, repeat and reorder none, whatever the pieces read()
\* returns, and none survives Close and Open.  (An error loses the buffer.)
Conserved == open /\ fault # "reset" => buf \o unget = Bytes(taken, rcvd)

\* A header read from where the peer's message begins, with no limit on its
\* size, is the whole header of this message and nothing of its content, however
\* the bytes arrived; it is cut only where the peer has ended.
HeaderWhole ==
    open /\ ret.op = "hdr" /\ ret.ok /\ ret.max < 0 =>
        \A k \in 1..Len(scripts[sock]) :
            LET from == End(scripts[sock], k - 1)
                to == from + Header(scripts[sock][k])
            IN  ret.data[1].at = from + 1 =>
                    ret.data = Bytes(from, IF sent < to THEN sent ELSE to)

\* Messages with content that were read by ReadHttp, one after the other on the
\* same connection, come out as they were written: the k-th call returns the
\* content of the k-th message and leaves the next one in place.
MessagesWhole ==
    open /\ phase = "idle" /\ ret.op = "http" /\ https > 0 /\ fault # "reset" =>
        LET script == scripts[sock]
        IN  https <= Len(script) /\ (\A i \in 1..https : script[i] # <<>>)
                /\ sent >= End(script, https) =>
                /\ taken = End(script, https)
                /\ ret.data = Bytes(taken - Len(script[https]), taken)

\* Headers and contents come out of the connection as they were written, whatever pieces
\* they arrived in.
HttpWhole == HeaderWhole /\ MessagesWhole

\* Once the peer has closed or lost the connection, a call that reads returns.
EndsCalls == fault # "none" ~> phase \in {"idle", "gone"}

\* The message of the current ReadHttp is on the socket, and it has a length.
Arrived ==
    /\ https \in 1..Len(scripts[sock])
    /\ \A i \in 1..https : scripts[sock][i] # <<>>
    /\ sent >= End(scripts[sock], https)

\* ReadHttp returns once its message has arrived, though the peer keeps the
\* connection and writes nothing more.
ArrivedReturns ==
    (op = "http" /\ phase \in {"header", "body"} /\ Arrived) ~> phase = "idle"

\* No call that reads waits for more than it needs, nor for a peer that has gone.
ReadsReturn == EndsCalls /\ ArrivedReturns
=============================================================================

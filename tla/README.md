# A TLA+ model of the Peer-to-Peer Trusted Library

The Peer-to-Peer Trusted Library (PtPTL 0.2, C++) gives peer-to-peer programs
certificates, challenge-response authentication, an encrypted archive, streams
under a symmetric key and small portable layers for sockets, threads and locks.
Three samples use it: `trutella`, a Gnutella client with secure groups; `sfs`, a
secure file share; and `cert`, a certificate tool. OpenSSL is vendored beside it.

This directory models the parts of the library and of its samples `trutella` and
`sfs` that keep state shared by threads, peers or runs of the program, and the pure
algorithms they rest on. TLC checks them on small
instances (`*.cfg`), and TLAPS proves the properties that matter most for
every value of the constants (`*Proofs.tla`). `PROJECT.json` lists the runs, the
line of source each definition stands for, the mutants that show each property
can fail, the hazards, the findings and the theorems.

## 1. Inventory

| Component | State it keeps | Operations | What makes it correct |
|---|---|---|---|
| `PTP::Mutex` (ptp/mutex.cpp) | owner, depth (a recursive lock) | Lock, TryLock, Unlock | one owner; as many Unlocks as Locks free it |
| `PTP::List` (ptp/list.cpp, list.h) | m_next and m_prev of a ring of entries with a sentinel, a mutex | Insert, Append, Remove, `PTP_LIST_FOREACH` | the links are inverse; a loop that removes as it goes yields everything once; calls are atomic |
| `PTP::Authenticator` (ptp/auth.cpp) | m_pending: expected responses with deadline and context | Challenge, Respond, Verify | a response is accepted once, in time, with its own context; live challenges are not lost, dead ones are removed |
| `PTP::Store` (ptp/store.cpp) | m_entries: identities, keys, secrets; the archive on a file or registry value | Insert, Remove, Find, Load, Save, Reset, Import, Export | Load brings back what Save wrote; private keys stay with their certificates; a loop over Find is complete and repeats nothing |
| `PTP::Collection` (ptp/collect.cpp) | m_entries, m_dirs, m_size, m_id | Add, Destroy, Find, Add/Remove directory, Rescan | the size is the number of entries whenever the lock is free; numbers are unique; a Rescan leaves each file once; Find gives the next match |
| `PTP::Net` (ptp/net.cpp) | socket, pushed-back data, proxy settings | Open, Accept, Read, Write, ReadHttp, Close | bytes are delivered in order and once; a length is honoured; errors are reported |
| `PTP::Key` (ptp/key.cpp) | a symmetric key; a stream's buffer and digest during a call | Encrypt, Decrypt, Transfer through callbacks | what Decrypt reports as done is what Encrypt read; no byte of the digest gets into the data; both ends stop |
| `PTP::Encoding` (ptp/encode.cpp) | none | EncodeBase64, DecodeBase64 | inverse pair, sizes as computed |
| `PTP::Identity`, `PTP::Random` | keys and certificates | encrypt, sign, fill | OpenSSL behind them |
| `PTP::Thread` (ptp/thread.cpp) | the thread's handle | Start, Wait, Kill, Sleep | Wait returns once; Kill leaves no lock held |
| Trutella (samples/trutella/trut.cpp) | m_hosts, m_ports, m_groups (key, m_responses), m_searches, m_gets, m_shared, m_collect | AddHost, Search, Get, Put, JoinGroup, LeaveGroup, Share; a thread per port, host, put and get | members of a group agree on its key; a join or a Get that waits ends with a callback, unless a peer keeps it waiting; only members get the key |
| Trutella console and GUI | windows, the current group | commands | they report what Trut did |
| sfs (samples/sfs/sfs.cpp) | a cache of keys shared with peers, the Store | Auth, HandleAuth, HandleResp, put, get, list | both sides end with the same key for the peer they authenticated |
| cert (samples/cert/cert.cpp) | the Store | create, sign, import, export | a command line over Store and Identity |

How they interact. Every object with shared state keeps it in a `PTP::List`,
whose lock its methods take; `Authenticator`, `Store` and `Collection` are used by
several threads of Trutella at once. `Trut` runs one thread per listening port,
per neighbour, per upload and per download; they call each other through
callbacks (`FindKey` from a host thread, `FetchKey` from a get thread) and share
`Group::m_key` and `m_responses` with the user's thread without a lock. Peers
exchange Gnutella packets between neighbours and open an HTTP connection per Get,
which `GetAuth`/`PutAuth` authenticate with two challenges.

What is hard here: interleavings inside a list operation; a time read before a
lock and used after it; a walk under the wrong lock; a counter outside the lock; a
crash or a failed write in the middle of Save; entries paired by position in an
archive; cursors that point to removed and reused memory; a timeout that races the
answers of other peers; packets lost because they came in one read; groups, hosts,
searches and downloads freed while other threads use them; a context on the stack of a
thread that goes on; threads killed while they hold a lock; a digest at the end of a stream
of unknown length; a callback that must come in the end. Each is listed at its line under
`hazards` in `PROJECT.json`.

## 2. Modules

| Module | Models | Uses |
|---|---|---|
| `Mutex` | `PTP::Mutex`: `owner`, `depth`, operators MutexLock, MutexUnlock | |
| `PtpList` | `PTP::List`: `next`, `prev` and each thread's place in its call | extends `Mutex` |
| `ListSpec` | what PtpList promises: a sequence with atomic operations | |
| `Authenticator` | `PTP::Authenticator` with threads and a clock | extends `Mutex` |
| `TicketSpec` | what Authenticator promises: one-time tickets with a deadline | |
| `Store` | `PTP::Store`, its medium, Load and Save bag by bag, crashes | |
| `Collection` | `PTP::Collection` with its two locks | |
| `Connection` | `PTP::Net::Connection`, the reading side, and its peer | |
| `Matching` | the matchers of Collection, CmpPat and CmpExt, as algorithms, and what they are meant to match | |
| `KeyStream` | `PTP::Key`'s Encrypt, Decrypt and Transfer of a file over a connection | |
| `Encoding` | EncodeBase64 and DecodeBase64 as algorithms, and the definition of Base64 | |
| `TrutGroup` | joining a secure group: peers, packets, host and get threads | |
| `TrutTransfer` | Get, GetAuth, GetThread of the clients, PortThread, PutAuth and PutThread of a server | |
| `TrutThreads` | the threads of one Trutella process, the lists they share and who frees what | |
| `Sfs` | the sfs sample: mutual authentication, the list of keys, search and get | |
| `MC*` | the instances TLC checks (symmetry and small sets); `MCCollection` and `MCTrutTransfer` also check the algorithms, as assumptions that TLC evaluates | extend the above |
| `PtpListProofs`, `AuthKeyProofs` (Authenticator and KeyStream), `StoreProofs`, `CollectionProofs`, `NetGroupProofs` (Connection and TrutGroup), `TrutTransferProofs`, `TrutThreadsProofs`, `SfsProofs` | theorems; two modules whose theorems stand in one use different names, such as `ConnSpec` and `StreamSpec` | extend the above and TLAPS |

### PtpList
A step is one assignment to a pointer that another entry can see. Each thread has
a `pc`; `ent`, `lk` and `ret` are the arguments and the return point of its call, `cur`
and `tmp` the iterator and the hidden `__tmp_` pointer of its loop. Loop bodies keep
or remove the current entry, with and without locking, and may break, which covers
every body in the repository. The refinement mapping reads the sequence off the
`next` pointers (`Walk(next)`), which change it at one step of each call.

### Authenticator
A nonce stands for its encryption (the challenge) and its digest (the response):
RSA, SHA-1 and the random generator are taken as ideal. `Challenge` computes
`m_expire` and inserts in two steps; `Verify` reads the time, waits for the lock,
goes through the list entry by entry under the lock (`VerifyScan`): an expired entry is removed, a match is taken and ends the
loop, so that what stands behind it stays. `clock` is real time,
`time` what `GetTime` returns: modulo `Period`, and sums are modulo `Word`, so the wrap of
`GetTickCount()` is in the model. `birth`, `asked`, `accepted` are history.

### Store
`entries` is the list, `medium` the archive as a sequence of bags (cert, key, secret)
or torn or absent. Insert, Remove and Find hold the lock throughout and are one
step. Save opens (truncates) or deletes the medium, exports entry by entry, writes
and may fail; Load destroys, opens, imports bag by bag, with the pending
certificate and the name and id of the last bag as Import's locals. A crash may come
between any two steps. The friendly name and id travel together and are one
label. Addresses (`Ptrs`) of removed entries are used again, because the cursor of Find is
an address. `saved`, `snapshot`, `quiet`, `todo`, `done`, `cut` are history.

### Collection
Find walks `m_entries` entry by entry under the lock of `m_dirs`; Add reads and writes
`m_id` in two steps without a lock; Add and Destroy change the list and `m_size` in two steps; Rescan sets `m_size` to 0 and
goes through the list entry by entry, counting or removing, under one lock, and scans under the other, one file at a time.
GetSize takes no lock: what it returns is `size` at any of these steps, so one too few inside Add, one too many inside Destroy
and anything from 0 up inside Rescan. `CountsRight` is therefore about the moments at which nobody holds the lock.
The file system is a set of directories with files on either platform (`win32`): the POSIX scan compares every file with the
extensions of the directory that was shared (collect.cpp:722), the Win32 scan only the files at its top, since the directory it
makes for a subdirectory has no extensions (576-578, 693), so that every file below is taken. What happens after Find has stepped on a removed entry is
undefined in C++: in the model the freed cell still holds its old contents and points to itself,
or has become a new entry, or the process dies (`WalkCrash`). A pattern is the set of names it matches. The thread `Main` is
the only one that shares directories and rescans, as in trut.cpp.

What a pattern and a list of extensions match is the business of `Matching`: `CmpPat` and `CmpExt` are translated
character by character, with their fall-through and early returns, and compared by `MatchersRight` with the
language of a pattern (defined by what `*`, `?` and `\` mean) and with "ends with a dot and an item" on all words
and patterns of up to three characters and lists of up to four.

### KeyStream
The sender's file goes through `Encrypt` into a connection with room for `Capacity` bytes and through `Decrypt`
into the receiver's file, or through `Transfer` on both sides (`secure` says which). `read()` and `write()` of a socket
move any part, `fread()` and `fwrite()` everything or a short count that is a fault. A byte is known by its place and by
what it is (IV, data, digest of some data, ciphertext at a place), so that anything lost, repeated or taken for something
else shows. `buffer` is Decrypt's buffer, of which `Held` = DIGEST_PADDED_SIZE bytes are held back. `spoilt` is history.

### Encoding
The encoder works from the end of its buffer to the front, as in the code, because source and destination may be
one. `Base64Right` compares it with the definition of Base64 and decodes the result again.

### Connection
The peer writes messages as `WriteHttp` does (a line, a length unless there is no content, a
blank line, the content), stops anywhere, closes or is lost; `read()` returns any piece of what
has been written. A byte is known by its socket and its place there, so that a byte that is
lost, repeated, moved or left over from another socket shows. `buf`, `total` and `max` are
the locals of the call under way, `unget` the bytes between `m_ungetNext` and `m_ungetLast`; each
`read()` is a step. Callers are those of the samples: Trutella gives back a header it has looked at, sfs
and Trutella's GetAuth close and use the same object again. An open socket stays the same
during a call, so the Open at the top of every function is the action `Open` before it. `taken`
and `https` are history. A second connection of a listening socket is another object.

### TrutGroup
One group name; each peer has its group (an address, 0 for none), key, count of
responses, the last status its callback got, its shared key entries, its
searches, a host thread per neighbour (`work`) and its Gets. `JoinGroup` is five
steps: call, search, the look after the sleep, SearchStop, and the new key. The sleep ends at any
time. `Receive` takes the first packet and may lose the ones that came with
it, as `ReceiveGnutella` does; after half a packet the stream is out of step, and what is read then is no packet (`Misread`).
The rest that was read is copied behind the end of a buffer of the packet's own size (trut.cpp:158-159): what that overwrites is
not modelled, only that the process may end of it (`Restart`). A Get is granted by a member that has the key, refused,
fails later, or never ends: no call in trut.cpp sets a timeout, Read goes on after one (net.cpp:992-997), and PortThread serves
one client at a time. `LeaveGroup` frees the group and stops nothing. A group that was left
is freed memory: what a thread that still holds it reads is a choice. `Restart` ends a
process and starts it again with nothing. `smooth` is history: no join overlapped
another, no answer was lost or late, nobody left. A join that has ended with an error still counts as
under way while an answer of its search, or a Get for it, may bring the key after all (`Busy`).

### TrutTransfer
One server with a public file, a file of a group and the key of the group; clients that the server knows, and one it
does not know. A Get is a request and an answer, or, for a file of the group, the two requests of `GetAuth` on two
connections with a challenge in each direction. `port` is where PortThread is; `ctx` is the PutContext on its stack, which
every accepted connection overwrites while the PutThreads of earlier ones still read it. `mixed` is history: this has
happened. From then on one host may be used by two PutThreads and another by none, and PortThread's refusal, or the end of a
PutThread, deletes a host and a buffer that another one reads (`freed`). A PutThread also uses its entry, the group and its key without a lock
(trut.cpp:325-419): `Rescan` deletes every entry of a scanned file, gives the files that are left new numbers (`ref` of a Get is the Rescan that gave it
its number) and makes the entry of an upload under way `stale`; `LeaveGroup` frees the group and its key. What is read from freed memory is a choice:
the old contents, those of another file or of none (`stray`), no response, no key, or the end of the process (`PutFreed`).
A file can go from the disk before, between and after the two times it is opened. GetAuth gives up at the answers 200 and 404 to its first request, at a server it does not know
(`Trusting`), and when its own challenge is used up or has expired (`asked`).

### TrutThreads
One process: the user's thread with the calls of the console or of the windows (`gui`), PortThread, a thread per host
and per download; the lists m_hosts, m_searches, m_gets with their locks, those of m_groups and m_collect as one; and the lock of the GUI's TransferCallback. A
step is what happens between two places where another thread can come in; where a lock is taken and given back with nothing
in between that others see, both are one step (`Within`), which waits for the lock. A HostThread that meets the answer to a JoinGroup makes a download of the key itself (FindKey, Get, m_gets.Insert),
calls JoinCallback with a context that may be gone, and is killed by ~Trut anywhere there. AddHost is the connection, the insertion, Thread::Start with what it
writes after the thread runs, and the callback and the window's row, each a step. Exit goes through the threads of m_hosts, PortThread, m_auth, the
groups and what they share in the order of ~Trut; a thread that goes on behind it uses `Parts` that are gone. `freed` has what was deleted;
a call that uses it is recorded in `misuse` and the behaviour ends there, because what follows is undefined in C++. A killed
thread leaves its locks `Killed`. A message to the window is handled only when the user's thread is not in a call.

### Sfs
Each process has its commands, its list of keys, its Share loop and one connection for the command
under way; what is on the connection is `msg`. A handler of Share is one step, since it reads a whole
request and writes its answer; between the two requests of Auth other clients are served. Certificates,
envelopes, ciphers and random numbers are ideal; a URL's entry number is hidden by the shadow of the key
under which it was listed, and with another shadow denotes no entry. What Authenticator guarantees
(a response is accepted once, and with its own context) is used here as the set `pending`. `Insert` accepts a certificate that is
signed by itself or by somebody in the store, and puts it there, where it may vouch for the next (`Issuer`, `Known`). One's own challenge may be answered too
late (`AuthDone`), and a file that is listed may be gone (`HandleGet`). HandleSearch writes into 2048 bytes without a bound: the model is about collections that fit (`MaxListed`). Nobody misbehaves: the properties are about what loss,
expiry, interleaving and restarts do to processes that follow the protocol.

## 3. Runs

| Run | Checks | Bound and why it is enough |
|---|---|---|
| `list` | TypeOK, LinksInverse, EachYieldsAll, CallsReturn, ListRefined | 2 threads, 3 entries, 3 calls each: both threads on one entry, a removal with a neighbour on each side, a loop that removes and goes on |
| `authenticator` | TypeOK, OneTime, InTime, ScanPurges, TicketsRefined | 2 threads, 2 nonces, lifetimes 1 and 2, clock to 3 (771 thousand states): both verify one response, one entry expires before the other and while a thread waits |
| `store` | TypeOK, KeyMatches, LoadRestores, FindExact | 3 addresses, 2 bodies, a label or none, at most 3 entries, 5 calls or crashes (1.2 million states): an identity without a key in front of two entries, a Save and two Loads around a crash, a removed cursor whose address is used again |
| `store_names` | NamesRestored, violated | as `store` |
| `collection` | TypeOK, CountsRight, SearchExact; assumption MatchersRight | 2 threads, 3 cells, 2 names, 1 directory, 4 calls, both platforms (1.03 million states): a Rescan around an Add and around a Destroy of the other thread, a file at the top and one below, two Adds in `m_id++` |
| `collection_find` | FindReturns, violated | as `collection` |
| `connection` | ConnTypes, Conserved, HttpWhole, ReadsReturn | content of 0 or 2 bytes, 2 messages on an accepted and 1 on each of 2 opened sockets, 2 calls, first buffers of 4 and 3 bytes (140 thousand states): a header that has to grow its buffer and is cut at every place, a blank line split over reads, two messages in one buffer, a header given back and read again, a reused object |
| `stream` | StreamTypes, Delivered, StreamEnds | a digest of 2 bytes, a buffer of 5 (one more than is held back), 2 bytes on their way, files of 0 to 7 bytes, 2 faults (11 thousand states): files shorter than, as long as and longer than what is held back, two full rounds and a rest, a stream cut inside the IV, the data and the digest |
| `group` | TypeOK, Agreement, NoSilence, JoinAnswered | 2 peers, 3 joins, 1 restart (66 thousand states): a join that meets a member, one that races its answer, a member that leaves or restarts. For any number of peers and joins the invariants are theorems |
| `transfer` | TypeOK, DoneRight, SealedForOwner, GetsAnswered; assumption Base64Right | 2 clients, one of them unknown to the server, 3 files, 2 Gets, 1 fault (638 thousand states): a Rescan, or a group left, between any two steps of an upload; two uploads at once with one context, a challenge that expires between the two requests, a file that goes between header and content, a key asked for by somebody unknown |
| `threads` | TypeOK, UsedAlive, UserReturns | 1 host, 1 search, 2 downloads, 1 packet, console and windows (540 thousand states): two downloads compete for the callback's lock, every object is freed by one thread while another is at each of its steps; more objects of a kind would repeat these pairs |
| `sfs` | TypeOK, KeysAgree, OneKeyEach, GetRight, CommandsEnd | 3 processes, 2 of which share, 2 files, 3 commands, 1 lost connection or restart, Bob's certificate signed by Alice (250 thousand states): a server that was a client before, a search and a get around a restart with a third process in between, an authentication repeated after its answer was lost |

What the newer properties say. `ScanPurges`: a Verify that found no match leaves no challenge that had expired when it read the time, and one that found its match none in
front of it. `FindExact`: a loop over Store::Find misses nothing and repeats nothing. `CountsRight`: when the lock is free the size is the number of entries, through a Rescan
too that counts them anew while others wait to add and destroy, and no two have
one number unless two threads were in `m_id++` at once, which it excepts. `SearchExact`: a Rescan
leaves each file exactly once, and Find gives the first match behind the previous result. `HttpWhole`: headers and messages come
out whole. `ReadsReturn`: a call returns when its message has arrived or its peer is gone. `Delivered`: what Decrypt writes is
always a beginning of the file, and what is reported as done is what was sent. `StreamEnds`: both sides come to an end.
`DoneRight`: a Get reported as done brought the file that was asked for, however connections, responses and contexts
were mixed up, groups left and entries renumbered; a plain file may be a part or an error page, and when a Rescan deleted the entry in
the middle of the upload anything may have come. `SealedForOwner`: the group's key is sealed for the client on that
connection, as long as no context was overwritten; with an overwritten one it can be sealed for another client, who does
not get it, and the Get ends in an error. `GetsAnswered`: every Get has its callback, with the same proviso. `UsedAlive` lists the
calls of the model in which something freed is used, and the locks that are lost with a killed thread, and shows that these calls
have no others: a search in HandleSearchResponse and in the callbacks of its key, a download in GetWait and in Start, a host in Start, RemoveHost and the window's row
once its own thread has left its loop, PortThread's new host in Exit, and m_auth, groups and shares while ~Trut runs; m_gets is lost with a HostThread that was
inserting a download. `UserReturns`: every call of the user returns, unless it waits for a peer that neither reads nor answers (Search sends under the
lock of m_hosts, AddHost connects, Get asks for its header), for the download of GetWait, for JoinGroup's event in the windows, or for a callback that waits for the window
with the lock of TransferCallback (`Waits`), or a lock was killed.

All runs set CHECK_DEADLOCK FALSE, because the calls are bounded: a behaviour ends
when they are used up. What must not stop is stated as a liveness property instead.
Symmetry is declared where no liveness is checked.

Fairness. `list`: a thread that can take its next step takes it in the end (weak
fairness per thread, what any scheduler gives). It is enough for CallsReturn because
calls are bounded: a thread cannot be overtaken at the lock for ever. `group`: the user's thread goes on in
JoinGroup (the sleep ends) and takes its look. Nothing is assumed of packets, of a Get or of the peer that should answer it, which may never come:
`JoinAnswered` therefore exempts a join that is left to a Get that waits for ever, and one that joins a group whose key it has (trut.cpp:1131, 1152), which
never gets a callback. `connection`: the reader goes on
when `read()` can return; the peer may stop for ever, so ReadsReturn is about calls whose
message has arrived or whose peer has gone. `stream`: each side goes on when it can; a write waits for room and a
read for data, and a peer that stops without closing is a lost connection. `transfer`: each client, PortThread and each
PutThread go on when what they wait for is there; nothing else is fair, faults least of all. `threads`: the user's calls, PortThread, host and get threads
go on (WF each, with bounded packets nobody is overtaken at a lock for ever); that a peer sends, reads or answers, and that the user calls, is
not assumed. `sfs`: client and server go on with a request or an answer that has arrived.

### Findings
The violated properties are statements of the repository's own comments that the code
does not keep; each is quoted in `PROJECT.json`: an identity
without a key loaded under its neighbour's name, and Find returning a deleted entry.

Seen while modelling and kept as the code has it, without a run of their own.

* `Authenticator`: on Win32 GetTime is GetTickCount() / 1000 and starts again at 0 after 49.7 days (auth.cpp:238), while
  auth.cpp:93 promises "Time (in seconds) until challenge expires": past a wrap a response is accepted after its
  lifetime. `InTime` fails with `Period = 3` and the clock to 5; hence `NoWrap`.
* `Store`: Save returns 0 when the write of the archive fails (store.cpp:1164).
* `Collection`: Add increments m_id outside the lock (collect.cpp:319), so that two entries can have the number that
  collect.cpp:170 calls "Unique entry number"; `CountsRight` excepts that race (`raced`). GetSize, "Get number of entries in
  collection" (220), returns other values inside Add, Destroy and Rescan. On Win32 "all matching files in all subdirectories"
  (459, 461) are all files there, matching or not. The example `".gz;.tar"` (467) matches `x..gz` and not `x.gz`: CmpExt asks for a dot
  in front of the item (650-654), so that the items have to be written without one.
* `Connection`: ReadHttp returns a buffer after a read error in the content
  (net.cpp:753) and a shortened content as a success when the peer closes early; Read does not give up
  after its timeout (net.cpp:992); a message without content has no length, so that ReadHttp waits for the
  end of the connection.
* `Key`: Transfer never returns the -1 of its comment (key.cpp:549, 561-580); a file that the sender cannot read to its end
  arrives as a part under a valid digest, since `fread` reports an error as 0; a stream that ends before its digest gives
  a negative size (key.cpp:522); the examples at key.cpp:308 and 412, and the calls at sfs.cpp:759 and 826, pass the
  size of the buffer in the place of `iv`.
* `Encoding`: with one byte per line EncodeBase64 writes one newline fewer than the size it computes; the size that the
  comment at encode.cpp:137 gives for the result of DecodeBase64 ("@size / 2") is too small.
* `TrutGroup`: JoinGroup makes a key although an answer was counted after its look (trut.cpp:1152); for a group without
  a key it reports JOIN_OK at once (trut.cpp:1131, 1174), which the console prints as "Joined" (console.cpp:193). A second join of a
  group that has its key returns without a callback (1131, 1152), for which the GUI waits. A peer that neither answers nor closes holds
  a Get, and with it a join, for ever.
* `TrutTransfer`: PutThread reads the name of an entry that may be NULL (trut.cpp:327); every authenticated file has the
  Content-length of a sealed key (trut.cpp:353); PutAuth reads in PortThread, so that a silent client keeps all others waiting; an
  empty file cannot be got (`size <= 0`, trut.cpp:978); the context of an upload is overwritten (trut.cpp:248-259); the page of
  a 404 can follow the header of a 200 (trut.cpp:387); a Rescan deletes entries that PutThreads are reading (collect.cpp:508-513, trut.cpp:325-419).
* `TrutThreads`: a search is used after SearchStop may have freed it (trut.cpp:1431), a download after GetThread may
  have (1087) and by Thread::Start, which writes the handle into the object when the thread runs already (999, thread.cpp:95), a host after its own thread has deleted
  it: in AddHost by Start and by the window (gui.cpp:144-150, 174-180), in RemoveHost (573), for which the row stays in the window (gui.cpp:160). ~Trut kills
  PortThread, which may hold the lock of m_hosts, and a HostThread in FindKey, which may hold that of m_gets (998, 1198); it deletes m_auth, the
  groups and what they share (187-190) while uploads, downloads (1064) and hosts use them. JoinCallback gets the address of a context on the stack of OnJoingroup,
  which has returned when a second answer comes (gui.cpp:257). A get thread that holds the callback's lock and waits for the window
  blocks a user who starts another download (gui.cpp:1110). Search writes to every neighbour under the lock of m_hosts (685-690), and one that does not read
  stops everybody. Two threads may write to one host's connection without a lock (117-130).
* `Sfs`: a client keeps the key of a server that has restarted, and fails until it is restarted itself. HandleSearch writes past its 2048 bytes
  when some dozens of files match (sfs.cpp:683-705). A certificate is accepted when it is signed by itself (360-364).

## 4. Proofs

What TLAPS proves, for any number of threads, entries, nonces, peers and calls:

* `PtpListProofs`: `ListTypes`, `ListLinks` (`LinksInverse`), `ListRefines` (`ListRefined`) and `ListEachYieldsAll`
  (`EachYieldsAll`). The inductive invariant says that a thread in the middle of a call owns the lock, and for each label which of
  the four assignments are already made: the links are inverse except at the entry
  and the two neighbours the call is working on. Inverse links might form several circles; `RingInv` adds that `m_next` leads
  from the sentinel once through the entries of the list and back at every step, also in the middle of a call, and that an entry
  outside is linked to itself or is the one being linked or unlinked. From that each step is one step of `ListSpec` or none
  (`ListStep`). `LoopInv` says that a loop has yielded a beginning of the ring in which it started, and that the entries it has
  yet to reach still have the `m_next` they had then, whatever its body has removed. `WalkOfRing` relates the function in
  `Walk` to a ring by induction on the well-founded order of the numbers. Needs `ListAssumption`.
* `AuthKeyProofs` about Authenticator: `AuthTypes`, `AuthOneTime`, `AuthContext`, `AuthScanPurges` without more;
  `AuthInTime`, `AuthNotForgotten` and the refinement `AuthRefines` under `NoWrap`, the assumption
  that neither the clock nor `m_expire` wraps while the process runs (it is
  needed, see the findings). The invariant: only the owner of the lock is in the
  scan; a nonce is pending only between its insertion and its acceptance, and no two threads
  insert the same one; the match a thread is about to take is pending and was not expired
  at `now`, a time that has passed. For `AuthScanPurges`, of the entries in front of the one a loop has reached none had expired (`ScanInv`).
* `StoreProofs`: `StoreTypes`, `StoreKeys` (`KeyMatches`), `StoreFindExact` (`FindExact`, from `StoreFindComplete` and
  `StoreFindOnce`), `StoreLoadRestores` (`LoadRestores`). For keys the
  invariant `BagInv` speaks of the bags on the medium and of those still to be
  imported: a key bag follows directly the certificate bag of the same modulus, also when the
  archive is cut off. For Find, addresses in the list are distinct, what the loop has found stands
  in front of its cursor (`Passed`), and the cursor, if it was not removed, is in the list (`Standing`).
  For Load, the bags made so far are the archive of a beginning of the list (`ArchiveOf`): an entry's bags stand behind one bag for each
  entry in front of it and a second for each of these with a key (`Before`). What Import has met is then
  the archive of what it has brought back and, when a certificate waits, the certificate of the next entry (`Importing`). An entry
  may come back with the next one's name only where the finding says so (`Back`).
* `CollectionProofs`: `CollectionTypes`, `CollectionCountsRight` (`CountsRight`), `CollectionSearchExact` (`SearchExact`). The
  invariant `CInv` says that a cell is in the list once or with one thread that adds it, and that only Main rescans
  (`Apart`, `Inside`). For the count, `size` differs from the length of the list only while somebody
  holds the lock: by one between the two statements of Add and of Destroy, and by the entries still ahead in a Rescan (`Counting`). Numbers are distinct because only one thread at a time has read the next one
  (`Numbers`), or the race is on record. For Rescan a balance holds between any two steps (`Scanned`): for each
  directory and file, the entries that are there, the one being added and those of the directories still to come
  are as many as the directory was shared times. For Find, a walk that nothing has disturbed is at a place of the list, and the
  match it hopes for is the first ahead (`Walking`). Cardinalities change by one with an entry; that there is a
  first match comes from the well-founded order of the numbers.
* `AuthKeyProofs` about KeyStream: `StreamTypeOK` and `StreamDelivered` (`Delivered`), for any sizes of IV, digest, buffer, connection and
  file. The argument is about places. `Stream(fed)` is what Encrypt makes of the bytes it has been fed; every byte on its way is
  the one that `Stream(fed)` has at its place, and its place is known from how many bytes have passed (`Base`, `Taken`, `Arrived`,
  `Made`). Decrypt passes a byte on only when 2 * DigestSize later ones have come, and what arrives is at most one digest
  longer than the data, so that it decrypts data only; a matching digest can stand nowhere but behind the last byte fed.
  That `fed` is the whole file when the digest is made, unless a read has failed, is the other half (`AllRead`).
* `NetGroupProofs` about TrutGroup: `GroupTypeOK`, `GroupNoSilence` and `GroupAgreement` (`Agreement`). The invariant `Waiting` adds the state
  inside JoinGroup: an answer that was counted and not reported has a Get in the host thread's hand or under way, so that the look
  after the sleep may rely on it. `Agreement` needs, as long as the history is `smooth`: all keys in the group, those in Gets under
  way and those in entries of the collection are one key (`OneKey`); whoever has one owns an entry for it (`Own`); and while a
  join is under way every other peer is at rest, and no packet but those of its search leads to a key (`Joining`).
  The attempt showed that a join that ended with an error may still get the key by a late answer, and disagree with a key made
  meanwhile (3 peers, 4 joins, 2 restarts); `smooth` now excludes this case too.
* `NetGroupProofs` about Connection: `ConnectionTypes`, `ConnectionConserved` (`Conserved`), `ConnectionHttpWhole` (`HttpWhole`), for
  any contents and any sizes of the buffers. A byte is known by its place: those given to callers, those in the buffer and those given
  back are consecutive pieces of what the peer writes (`Pieces`). That by itself is not inductive. A caller that gives a
  header back must still have what it was given last (`Returnable`); and a socket that is closed and opened again must have
  nothing given back, which holds because the peer of an outbound connection sends one message and ReadHttp goes on to its
  end (`Clean`). The header of a message ends where `UngetData` finds it because no blank line comes before (lemma
  `HeaderEndFacts`), and the length in it is that of this message (`ContentSizeFacts`). `Headers` and `Messages` say, for
  each label of ReadHttpHdr and ReadHttp, how much of the message the call has, or that the peer ended before.
* `TrutTransferProofs`: `TransferTypeOK`, `TransferDoneRight` (`DoneRight`), `TransferSealedForOwner` (`SealedForOwner`). The
  invariant says which request, header and content can be on the connection of a Get at each of its steps (`FlowInv`), that no
  nonce is drawn twice and a challenge is known only to the client it was made for (`NonceInv`), and that of the PutThreads at work no
  two serve one connection, though they read it from a shared context (`PutInv`, `OnePut`), and what one sends is the file asked for there or
  the page of an error, unless its entry is `stale` (`DataInv`); for the seal, that as long as nothing
  is `mixed` the context belongs to the one upload that still reads it and has the identity of its client (`ContextInv`).
* `TrutThreadsProofs`: `ThreadsTypeOK` and `ThreadsUsedAlive` (`UsedAlive`). The invariant says, until something is in `misuse`, who owns an object
  at each step of its life: what a thread still uses is not freed but for the cases `UsedAlive` names (`HostInv`, `LoopInv`, `AddInv`, `GetInv`, `FetchInv`), a call behind its lock holds
  it (`CallInv`), and a lock is held by nobody else than one at such a place, or was lost with one (`LockInv`); a download is freed by GetStop or by its own
  thread, which settle under the lock of m_gets who it is. With `misuse` the behaviour ends.
* `SfsProofs`: `SfsTypeOK`, `SfsGetRight` (`GetRight`), `SfsOneKeyEach` (`OneKeyEach`), `SfsKeysAgree` (`KeysAgree`). The
  invariant follows a challenge to the one it was made for (`NonceInv`), and a key from the server that made it to the client's
  list (`KeyList`, `SourceInv`): a server's own keys come before those it was given, no two of its own have one number, identity or value,
  no key comes from two servers, and the server still has a key under the number and for the identity with which the client was
  given it, or has been started again. A URL denotes the file for which it was made as long as the key whose shadow
  hides its number is there (`UrlRight`). FindKey takes the first that fits; that there is a first comes
  from the well-founded order of the numbers.

Assumptions on the constants, next to their bounds: the kinds of objects and the marks `None` and `Killed` are different things
(`ThreadsAssumption`, `TransferAssumption`); a process shares finitely many files (`SfsAssumption`), at most as many as a listing has room for (`SfsFilesFit`), and every certificate has an issuer (`SfsCertificates`); a digest is not empty and
Decrypt's buffer is longer than what it holds back (`StreamAssumption`; in the code 20 bytes, and a buffer of 1024 by default against 40); the first
buffers of ReadHttpHdr and ReadHttp have room for a byte and its end (`ConnAssumption`; 512 and 1024). Each holds of what these constants stand for.

Only model-checked: liveness (`CallsReturn`, `JoinAnswered`, `ReadsReturn`, `StreamEnds`, `GetsAnswered`, `UserReturns`,
`CommandsEnd`), which is outside the prover's reach, and the algorithms in `Matching` and `Encoding`, which are
recursive. Every invariant and every action property that a passing run checks is a theorem.

## 5. Not modelled

OpenSSL, which is vendored third-party code and more than nine tenths of the lines of the repository: the modules take its
ciphers, digests and certificates as ideal. Of the 14,000 lines of the library and its samples a third is mapped;
most of the rest is comments, text and windows. Left out are:

* the windows of the GUI, the console's parsing and the `cert` command line; debug tracing; the random
  generator; the documentation generator; the tests;
* `PTP::Identity`: stateless calls of OpenSSL on a certificate; what the others need of it is in their modules;
* of `PTP::Net`, name lookup, URLs, listening, the choice of a proxy, and what the writing side sees of a peer that fails;
* of `PTP::Key`, the calls for a single buffer, Export, and streams without a digest;
* `Store`'s stateless conversions (PEM, envelopes) and `Mutex::TryLock`, which only a test calls;
* of Trutella, the routing and repeating of Gnutella packets, the chat, UpdateShared, RemovePort of a single port, and the two passes of
  HandleSearchRequest over a collection that changes in between (trut.cpp:1540), which would need `Collection` and `TrutThreads` in
  one state space;
* in `TrutThreads`, m_groups, m_collect and what is in them: LeaveGroup's group, the PutThreads and the deleted File that FindKey may read
  (trut.cpp:1201) are in `TrutGroup` and `TrutTransfer` or left out. GetStop compares the address of a download that may be another one's by now. The GUI walks its own list of hosts without a
  lock (gui.cpp:190, 767) against the callbacks of host threads; `rows` has only the hosts that the user has added;
* destructors other than the Authenticator's and Trut's: objects are destroyed when their threads have ended.

## 6. Plan

1. Done: `Mutex`, `PtpList`, `Authenticator`, `Store`, `Collection` with `Matching`, `Connection`, `KeyStream`, `Encoding`,
   `TrutGroup`, `TrutTransfer`, `TrutThreads` and `Sfs`, and the theorems above.
2. Done: the proofs of all types, safety invariants, action properties and refinements that the runs check.
3. `Sfs` and `TrutTransfer` over `TicketSpec`, so that the pending challenges are the tickets the Authenticator is proved to
   implement.

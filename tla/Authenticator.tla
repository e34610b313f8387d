---------------------------- MODULE Authenticator ----------------------------
(***************************************************************************)
(* PTP::Authenticator (ptp/auth.cpp): challenges with a lifetime, answered *)
(* by their subject and verified once.  Threads call Challenge and Verify  *)
(* on one Authenticator; its list of pending responses, m_pending, has the *)
(* lock of PTP::List (module PtpList): an Insert is one step, and the loop *)
(* of Verify, which holds the lock throughout, one step per entry it meets. *)
(*                                                                         *)
(* A nonce stands for itself, its encryption for the subject (the          *)
(* challenge) and its digest (the response): RSA and SHA-1 are taken as    *)
(* ideal.  The clock of the process is the variable clock; what GetTime    *)
(* returns is the variable time, which on Win32 (GetTickCount() / 1000)    *)
(* starts again at 0 after Period seconds.                                 *)
(***************************************************************************)
EXTENDS Mutex

CONSTANTS
    Nonces,     \* the random nonces; never drawn twice
    Junk,       \* response data that is the digest of no nonce
    Peers,      \* the identities that can be challenged
    Keyed,      \* those of them whose owner has the private key in its store
    Contexts,   \* the non-NULL context pointers
    Lifetimes,  \* values of the expire argument
    MaxTime,    \* bound: how far the clock runs
    Period,     \* GetTime starts again at 0 after this many seconds
    Word        \* unsigned long arithmetic is modulo this

ASSUME AuthAssumption ==
    /\ None \notin Nonces \cup Contexts \cup Peers
    /\ Junk \notin Nonces \cup {None}
    /\ Keyed \subseteq Peers
    /\ Lifetimes \subseteq Nat
    /\ MaxTime \in Nat
    /\ Period \in Nat \ {0}
    /\ Word \in Nat \ {0}

VARIABLES
    clock,      \* seconds since the start
    time,       \* what GetTime() returns
    alive,      \* the Authenticator has not been destroyed
    made,       \* nonces drawn so far
    pending,    \* nonces whose Pending entry is in m_pending
    serial,     \* order of insertion of each entry, the highest at the head; 0: never inserted
    inserted,   \* entries inserted so far
    expire,     \* m_expire
    context,    \* m_context
    subject,    \* whom the nonce was encrypted for
    life,       \* the expire argument
    birth,      \* history: the clock when m_expire was computed
    answers,    \* responses that have been computed by Respond
    accepted,   \* history: how often Verify has accepted each response
    asked,      \* history: the clock when that Verify read the time
    pc,         \* where each thread is
    arg,        \* the nonce it challenges with, or the response it verifies
    now,        \* the time its Verify has read
    called,     \* history: the clock when it did
    cur,        \* serial of the entry its loop has met last: those below are ahead
    rc          \* what its Verify is about to return

entryVars == <<serial, inserted, expire, context, subject, life, birth>>
threadVars == <<pc, arg, now, called, cur, rc>>
vars == <<owner, depth, clock, time, alive, made, pending, entryVars, answers,
          accepted, asked, threadVars>>

Labels == {"idle", "insert", "lock", "scan", "take", "unlock"}

TypeOK ==
    /\ MutexTypeOK
    /\ clock \in Nat
    /\ time \in Nat
    /\ alive \in BOOLEAN
    /\ made \in SUBSET Nonces
    /\ pending \in SUBSET made
    /\ serial \in [Nonces -> Nat]
    /\ inserted \in Nat
    /\ expire \in [Nonces -> Nat]
    /\ context \in [Nonces -> Contexts \cup {None}]
    /\ subject \in [Nonces -> Peers \cup {None}]
    /\ life \in [Nonces -> Nat]
    /\ birth \in [Nonces -> Nat]
    /\ answers \in SUBSET made
    /\ accepted \in [Nonces -> Nat]
    /\ asked \in [Nonces -> Nat]
    /\ pc \in [Threads -> Labels]
    /\ arg \in [Threads -> Nonces \cup {Junk, None}]
    /\ now \in [Threads -> Nat]
    /\ called \in [Threads -> Nat]
    /\ cur \in [Threads -> Nat]
    /\ rc \in [Threads -> Contexts \cup {None}]

Init ==
    /\ MutexInit
    /\ clock = 0
    /\ time = 0
    /\ alive = TRUE
    /\ made = {}
    /\ pending = {}
    /\ serial = [n \in Nonces |-> 0]
    /\ inserted = 0
    /\ expire = [n \in Nonces |-> 0]
    /\ context = [n \in Nonces |-> None]
    /\ subject = [n \in Nonces |-> None]
    /\ life = [n \in Nonces |-> 0]
    /\ birth = [n \in Nonces |-> 0]
    /\ answers = {}
    /\ accepted = [n \in Nonces |-> 0]
    /\ asked = [n \in Nonces |-> 0]
    /\ pc = [t \in Threads |-> "idle"]
    /\ arg = [t \in Threads |-> None]
    /\ now = [t \in Threads |-> 0]
    /\ called = [t \in Threads |-> 0]
    /\ cur = [t \in Threads |-> 0]
    /\ rc = [t \in Threads |-> None]

Goto(t, label) == pc' = [pc EXCEPT ![t] = label]
Returns(t, value) == rc' = [rc EXCEPT ![t] = value]

----------------------------------------------------------------------------
(* The clock, and GetTime's view of it. *)

Tick ==
    /\ clock < MaxTime
    /\ clock' = clock + 1
    /\ time' = IF time + 1 = Period THEN 0 ELSE time + 1
    /\ UNCHANGED <<mutexVars, alive, made, pending, entryVars, answers, accepted, asked,
                   threadVars>>

----------------------------------------------------------------------------
(* Challenge(id, expire, context, chal).  Without an identity, or when it  *)
(* cannot encrypt, the call returns -1 and changes nothing.                *)

\* Draw the nonce, encrypt it for the subject, compute the deadline.
ChallengeMake(t, n, id, expires, ctx) ==
    /\ alive
    /\ pc[t] = "idle"
    /\ n \notin made
    /\ made' = made \cup {n}
    /\ subject' = [subject EXCEPT ![n] = id]
    /\ life' = [life EXCEPT ![n] = expires]
    /\ birth' = [birth EXCEPT ![n] = clock]
    /\ expire' = [expire EXCEPT ![n] = (time + expires) % Word]
    /\ context' = [context EXCEPT ![n] = ctx]
    /\ arg' = [arg EXCEPT ![t] = n]
    /\ Goto(t, "insert")
    /\ UNCHANGED <<mutexVars, clock, time, alive, pending, serial, inserted, answers,
                   accepted, asked, now, called, cur, rc>>

\* m_pending.Insert(p), which locks and unlocks the list, and return.
ChallengeInsert(t) ==
    /\ pc[t] = "insert"
    /\ owner = None
    /\ pending' = pending \cup {arg[t]}
    /\ inserted' = inserted + 1
    /\ serial' = [serial EXCEPT ![arg[t]] = inserted + 1]
    /\ arg' = [arg EXCEPT ![t] = None]
    /\ Goto(t, "idle")
    /\ UNCHANGED <<mutexVars, clock, time, alive, made, expire, context, subject, life,
                   birth, answers, accepted, asked, now, called, cur, rc>>

----------------------------------------------------------------------------
(* Respond(chal, resp), in the process of a peer that was sent the         *)
(* challenge.  It fails without a private key, and for a challenge that    *)
(* was encrypted for somebody else; nothing changes then.                  *)

Respond(p, n) ==
    /\ serial[n] # 0
    /\ p \in Keyed
    /\ subject[n] = p
    /\ answers' = answers \cup {n}
    /\ UNCHANGED <<mutexVars, clock, time, alive, made, pending, entryVars, accepted, asked,
                   threadVars>>

----------------------------------------------------------------------------
(* Verify(resp) *)

\* The time is read before the lock is taken.
VerifyCall(t, r) ==
    /\ alive
    /\ pc[t] = "idle"
    /\ arg' = [arg EXCEPT ![t] = r]
    /\ now' = [now EXCEPT ![t] = time]
    /\ called' = [called EXCEPT ![t] = clock]
    /\ Goto(t, "lock")
    /\ UNCHANGED <<mutexVars, clock, time, alive, made, pending, entryVars, answers,
                   accepted, asked, cur, rc>>

\* Mutant: m_pending is not locked.
VerifyLockNone(t) ==
    /\ pc[t] = "lock"
    /\ cur' = [cur EXCEPT ![t] = inserted + 1]
    /\ Goto(t, "scan")
    /\ UNCHANGED <<mutexVars, clock, time, alive, made, pending, entryVars, answers,
                   accepted, asked, arg, now, called, rc>>

VerifyLock(t) ==
    /\ pc[t] = "lock"
    /\ MutexLock(t)
    /\ cur' = [cur EXCEPT ![t] = inserted + 1]
    /\ Goto(t, "scan")
    /\ UNCHANGED <<clock, time, alive, made, pending, entryVars, answers, accepted, asked,
                   arg, now, called, rc>>

\* Mutants: an entry is dropped one second early; one is never dropped.
ExpiredEarly(t, n) == expire[n] <= now[t] + 1
ExpiredNever(t, n) == FALSE

Expired(t, n) == expire[n] <= now[t]

\* PTP_LIST_FOREACH: the entries the loop has yet to meet, and the next of them.
Ahead(t) == {n \in pending : serial[n] < cur[t]}
Meets(t, n) ==
    /\ pc[t] = "scan"
    /\ n \in Ahead(t)
    /\ \A m \in Ahead(t) : serial[m] <= serial[n]

\* Mutant: after a removal the loop goes on behind the entry that follows.
VerifyDropSkips(t, n) ==
    /\ Meets(t, n)
    /\ Expired(t, n)
    /\ pending' = pending \ {n}
    /\ cur' = [cur EXCEPT ![t] = serial[n] - 1]
    /\ UNCHANGED <<mutexVars, clock, time, alive, made, entryVars, answers, accepted, asked,
                   pc, arg, now, called, rc>>

\* An expired entry is removed, the one that is looked for included.
VerifyDrop(t, n) ==
    /\ Meets(t, n)
    /\ Expired(t, n)
    /\ pending' = pending \ {n}
    /\ cur' = [cur EXCEPT ![t] = serial[n]]
    /\ UNCHANGED <<mutexVars, clock, time, alive, made, entryVars, answers, accepted, asked,
                   pc, arg, now, called, rc>>

\* Any other entry that does not match stays.
VerifyPass(t, n) ==
    /\ Meets(t, n)
    /\ ~Expired(t, n)
    /\ n # arg[t]
    /\ cur' = [cur EXCEPT ![t] = serial[n]]
    /\ UNCHANGED <<mutexVars, clock, time, alive, made, pending, entryVars, answers, accepted,
                   asked, pc, arg, now, called, rc>>

VerifyMatch(t) ==
    /\ Meets(t, arg[t])
    /\ ~Expired(t, arg[t])
    /\ Goto(t, "take")
    /\ UNCHANGED <<mutexVars, clock, time, alive, made, pending, entryVars, answers, accepted,
                   asked, arg, now, called, cur, rc>>

\* The match is removed, and the loop left.
VerifyTake(t) ==
    /\ pc[t] = "take"
    /\ pending' = pending \ {arg[t]}
    /\ Returns(t, context[arg[t]])
    /\ accepted' = [accepted EXCEPT ![arg[t]] = @ + 1]
    /\ asked' = [asked EXCEPT ![arg[t]] = called[t]]
    /\ Goto(t, "unlock")
    /\ UNCHANGED <<mutexVars, clock, time, alive, made, entryVars, answers, arg, now, called,
                   cur>>

\* The loop has come to the end of the list.
VerifyEnd(t) ==
    /\ pc[t] = "scan"
    /\ Ahead(t) = {}
    /\ Goto(t, "unlock")
    /\ UNCHANGED <<mutexVars, clock, time, alive, made, pending, entryVars, answers, accepted,
                   asked, arg, now, called, cur, rc>>

VerifyReturn(t) ==
    /\ pc[t] = "unlock"
    /\ MutexUnlock(t)
    /\ arg' = [arg EXCEPT ![t] = None]
    /\ now' = [now EXCEPT ![t] = 0]
    /\ called' = [called EXCEPT ![t] = 0]
    /\ cur' = [cur EXCEPT ![t] = 0]
    /\ Returns(t, None)
    /\ Goto(t, "idle")
    /\ UNCHANGED <<clock, time, alive, made, pending, entryVars, answers, accepted, asked>>

----------------------------------------------------------------------------
\* ~Authenticator: no thread is inside a call, and none makes one afterwards.
Destroy ==
    /\ alive
    /\ \A t \in Threads : pc[t] = "idle"
    /\ alive' = FALSE
    /\ pending' = {}
    /\ UNCHANGED <<mutexVars, clock, time, made, entryVars, answers, accepted, asked,
                   threadVars>>

Challenge(t) ==
    \/ \E n \in Nonces, id \in Peers, expires \in Lifetimes, ctx \in Contexts :
           ChallengeMake(t, n, id, expires, ctx)
    \/ ChallengeInsert(t)

Verify(t) ==
    \/ \E r \in answers \cup {Junk} : VerifyCall(t, r)
    \/ VerifyLock(t)
    \/ \E n \in Nonces : VerifyDrop(t, n) \/ VerifyPass(t, n)
    \/ VerifyMatch(t)
    \/ VerifyTake(t)
    \/ VerifyEnd(t)
    \/ VerifyReturn(t)

Next ==
    \/ Tick
    \/ \E t \in Threads : Challenge(t) \/ Verify(t)
    \/ \E p \in Peers, n \in Nonces : Respond(p, n)
    \/ Destroy

Spec == Init /\ [][Next]_vars

----------------------------------------------------------------------------
(* Properties *)

\* A response is accepted once, however often and by however many threads at
\* once Verify is called with it (ptp/test.cpp 192-193).
OneTime == \A n \in Nonces : accepted[n] <= 1

\* Verify returns to its caller the context of the challenge whose response it
\* was given, or NULL; it never confuses two challenges that are both pending.
ContextBound ==
    \A t \in Threads :
        pc[t] = "unlock" =>
            \/ rc[t] = None
            \/ arg[t] \in answers /\ rc[t] = context[arg[t]]

\* No response is accepted by a Verify that began at or after the end of the
\* lifetime its challenge was given.
InTime == \A n \in Nonces : accepted[n] > 0 => asked[n] < birth[n] + life[n]

\* A challenge that has been handed out, has not been answered and has not
\* outlived its lifetime is still known: no Verify of another response, and no
\* Verify that read the clock earlier, drops it.
NotForgotten ==
    \A n \in Nonces :
        alive /\ serial[n] # 0 /\ accepted[n] = 0 /\ clock < birth[n] + life[n]
            => n \in pending

\* When the loop of Verify ends, nothing is left that had expired when the time
\* was read, but for what stands behind a match: the loop meets every entry it
\* has not passed, though it removes the one it stands at, and no Challenge comes
\* in between.  Unanswered challenges do not pile up.
ScanPurges ==
    [][\A t \in Threads :
          pc[t] = "scan" /\ pc'[t] # "scan"
              => \A n \in pending' :
                     \/ expire[n] > now[t]
                     \/ pc'[t] = "take" /\ serial[n] < serial[arg[t]]]_vars

\* The challenges are one-time tickets with a deadline.
TicketState(n) ==
    IF serial[n] = 0 THEN "new"
    ELSE IF accepted[n] > 0 THEN "used"
    ELSE IF n \in pending THEN "open"
    ELSE "gone"

Abs == INSTANCE TicketSpec
           WITH deadline <- [n \in Nonces |-> birth[n] + life[n]],
                ticket <- [n \in Nonces |-> TicketState(n)]

TicketsRefined == Abs!Spec

============================================================================

---------------------------- MODULE AuthKeyProofs ----------------------------
(***************************************************************************)
(* Proofs about the two parts an exchange is made of: PTP::Authenticator,  *)
(* which proves who asks, and the streams of PTP::Key, in which the file   *)
(* goes.  The two share no state and each has an invariant of its own.     *)
(*                                                                         *)
(* The Authenticator: for any number of threads, nonces and peers and any  *)
(* lifetimes, as long as the time does not wrap around.  Its invariant     *)
(* ties the list to the history of each nonce (EntryInv), every thread     *)
(* inside Verify to what it may still assume of its match (ThreadInv) and  *)
(* of the entries its loop has met (ScanInv), and m_expire to the clock    *)
(* (TimeInv).                                                              *)
(*                                                                         *)
(* The streams: what Decrypt writes is the file.  The argument is about    *)
(* places: every byte on its way is the one that Encrypt made for its      *)
(* place, and the place of a byte is known from how many are in front of   *)
(* it, in the connection, in the buffer and in what was written.           *)
(***************************************************************************)
EXTENDS Authenticator, KeyStream, SequenceTheorems, TLAPS

(* ------------------------------ Authenticator ------------------------------ *)

\* GetTime neither wraps (POSIX, or less than 49 days of uptime on Win32) nor
\* is so large that adding a lifetime overflows.
NoWrap == MaxTime < Period /\ \A l \in Lifetimes : MaxTime + l < Word

LockInv ==
    /\ owner = None => depth = 0
    /\ \A t \in Threads :
        /\ pc[t] \in {"scan", "take", "unlock"} <=> owner = t
        /\ owner = t => depth = 1

EntryInv ==
    /\ \A n \in Nonces :
        /\ serial[n] = 0 => n \notin pending /\ n \notin answers /\ accepted[n] = 0
        /\ serial[n] # 0 => n \in made
        /\ n \in pending => accepted[n] = 0
        /\ accepted[n] <= 1
    /\ \A t \in Threads :
        pc[t] = "insert" => arg[t] \in made /\ serial[arg[t]] = 0
    /\ \A t, u \in Threads :
        t # u /\ pc[t] = "insert" /\ pc[u] = "insert" => arg[t] # arg[u]

ThreadInv ==
    /\ \A t \in Threads :
        /\ pc[t] \in {"lock", "scan", "take", "unlock"} => arg[t] \in answers \cup {Junk}
        /\ pc[t] # "unlock" => rc[t] = None
        /\ pc[t] = "take" => arg[t] \in pending /\ now[t] < expire[arg[t]]
        /\ pc[t] = "unlock" /\ rc[t] # None => arg[t] \in answers /\ rc[t] = context[arg[t]]
    /\ ~alive => \A t \in Threads : pc[t] = "idle"

TimeInv ==
    /\ time = clock
    /\ clock <= MaxTime
    /\ \A n \in made : expire[n] = birth[n] + life[n]
    /\ \A t \in Threads :
        /\ now[t] <= clock
        /\ pc[t] \in {"lock", "scan", "take"} => now[t] = called[t]
    /\ InTime
    /\ NotForgotten

\* No two entries are inserted as one, and what a loop has met and left is
\* neither expired nor its match.
ScanInv ==
    /\ \A n \in Nonces : serial[n] <= inserted
    /\ \A n, m \in Nonces : serial[n] # 0 /\ n # m => serial[n] # serial[m]
    /\ \A t \in Threads, n \in pending :
           pc[t] = "scan" /\ serial[n] >= cur[t] => expire[n] > now[t]

\* What holds whatever the clock does.
SInv == TypeOK /\ LockInv /\ EntryInv /\ ThreadInv /\ ScanInv

----------------------------------------------------------------------------
\* Every action keeps the types.
LEMMA TypeStep == SInv /\ [Next]_vars => TypeOK'
<1> SUFFICES ASSUME SInv, [Next]_vars PROVE TypeOK'
    OBVIOUS
<1> USE AuthAssumption, ThreadsAssumption
    DEF Goto, Returns, mutexVars, entryVars, threadVars, SInv, TypeOK, MutexTypeOK, Labels
<1>1. CASE Tick
    BY <1>1 DEF Tick
<1>2. ASSUME NEW t \in Threads, NEW n \in Nonces, NEW id \in Peers, NEW expires \in Lifetimes,
             NEW ctx \in Contexts, ChallengeMake(t, n, id, expires, ctx)
      PROVE TypeOK'
    BY <1>2 DEF ChallengeMake
<1>3. ASSUME NEW t \in Threads, ChallengeInsert(t) PROVE TypeOK'
    BY <1>3 DEF ChallengeInsert, EntryInv
<1>4. ASSUME NEW p \in Peers, NEW n \in Nonces, Respond(p, n) PROVE TypeOK'
    BY <1>4 DEF Respond, EntryInv
<1>5. ASSUME NEW t \in Threads, NEW r \in answers \cup {Junk}, VerifyCall(t, r) PROVE TypeOK'
    BY <1>5 DEF VerifyCall
<1>6. ASSUME NEW t \in Threads, VerifyLock(t) PROVE TypeOK'
    BY <1>6 DEF VerifyLock, MutexLock
<1>7. ASSUME NEW t \in Threads, NEW n \in Nonces, VerifyDrop(t, n) \/ VerifyPass(t, n)
      PROVE TypeOK'
    BY <1>7 DEF VerifyDrop, VerifyPass, Meets
<1>12. ASSUME NEW t \in Threads, VerifyMatch(t) PROVE TypeOK'
    BY <1>12 DEF VerifyMatch, Meets, Ahead, Expired
<1>13. ASSUME NEW t \in Threads, VerifyEnd(t) PROVE TypeOK'
    BY <1>13 DEF VerifyEnd
<1>8. ASSUME NEW t \in Threads, VerifyTake(t) PROVE TypeOK'
    BY <1>8 DEF VerifyTake, ThreadInv
<1>9. ASSUME NEW t \in Threads, VerifyReturn(t) PROVE TypeOK'
    BY <1>9 DEF VerifyReturn, MutexUnlock, LockInv
<1>10. CASE Destroy
    BY <1>10 DEF Destroy
<1>11. CASE UNCHANGED vars
    BY <1>11 DEF vars
<1> QED
    BY <1>1, <1>2, <1>3, <1>4, <1>5, <1>6, <1>7, <1>8, <1>9, <1>10, <1>11, <1>12, <1>13
    DEF Next, Challenge, Verify

\* The lock is held exactly between m_pending.Lock() and Unlock() of Verify.
LEMMA LockStep == SInv /\ [Next]_vars => LockInv'
<1> SUFFICES ASSUME SInv, [Next]_vars PROVE LockInv'
    OBVIOUS
<1> USE AuthAssumption, ThreadsAssumption
    DEF Goto, Returns, mutexVars, entryVars, threadVars, SInv, TypeOK, MutexTypeOK, Labels, LockInv
<1>1. CASE Tick
    BY <1>1 DEF Tick
<1>2. ASSUME NEW t \in Threads, NEW n \in Nonces, NEW id \in Peers, NEW expires \in Lifetimes,
             NEW ctx \in Contexts, ChallengeMake(t, n, id, expires, ctx)
      PROVE LockInv'
    BY <1>2 DEF ChallengeMake
<1>3. ASSUME NEW t \in Threads, ChallengeInsert(t) PROVE LockInv'
    BY <1>3 DEF ChallengeInsert
<1>4. ASSUME NEW p \in Peers, NEW n \in Nonces, Respond(p, n) PROVE LockInv'
    BY <1>4 DEF Respond
<1>5. ASSUME NEW t \in Threads, NEW r \in answers \cup {Junk}, VerifyCall(t, r) PROVE LockInv'
    BY <1>5 DEF VerifyCall
<1>6. ASSUME NEW t \in Threads, VerifyLock(t) PROVE LockInv'
    BY <1>6 DEF VerifyLock, MutexLock, MutexFree
<1>7. ASSUME NEW t \in Threads, NEW n \in Nonces, VerifyDrop(t, n) \/ VerifyPass(t, n)
      PROVE LockInv'
    BY <1>7 DEF VerifyDrop, VerifyPass, Meets
<1>12. ASSUME NEW t \in Threads, VerifyMatch(t) PROVE LockInv'
    BY <1>12 DEF VerifyMatch, Meets, Ahead, Expired
<1>13. ASSUME NEW t \in Threads, VerifyEnd(t) PROVE LockInv'
    BY <1>13 DEF VerifyEnd
<1>8. ASSUME NEW t \in Threads, VerifyTake(t) PROVE LockInv'
    BY <1>8 DEF VerifyTake
<1>9. ASSUME NEW t \in Threads, VerifyReturn(t) PROVE LockInv'
    BY <1>9 DEF VerifyReturn, MutexUnlock
<1>10. CASE Destroy
    BY <1>10 DEF Destroy
<1>11. CASE UNCHANGED vars
    BY <1>11 DEF vars
<1> QED
    BY <1>1, <1>2, <1>3, <1>4, <1>5, <1>6, <1>7, <1>8, <1>9, <1>10, <1>11, <1>12, <1>13
    DEF Next, Challenge, Verify

\* An entry is in the list from its insertion until it is taken or dropped.
LEMMA EntryStep == SInv /\ [Next]_vars => EntryInv'
<1> SUFFICES ASSUME SInv, [Next]_vars PROVE EntryInv'
    OBVIOUS
<1> USE AuthAssumption, ThreadsAssumption
    DEF Goto, Returns, mutexVars, entryVars, threadVars, SInv, TypeOK, Labels, LockInv, EntryInv, ThreadInv
<1>1. CASE Tick
    BY <1>1 DEF Tick
<1>2. ASSUME NEW t \in Threads, NEW n \in Nonces, NEW id \in Peers, NEW expires \in Lifetimes,
             NEW ctx \in Contexts, ChallengeMake(t, n, id, expires, ctx)
      PROVE EntryInv'
    BY <1>2 DEF ChallengeMake
<1>3. ASSUME NEW t \in Threads, ChallengeInsert(t) PROVE EntryInv'
    BY <1>3 DEF ChallengeInsert
<1>4. ASSUME NEW p \in Peers, NEW n \in Nonces, Respond(p, n) PROVE EntryInv'
    BY <1>4 DEF Respond
<1>5. ASSUME NEW t \in Threads, NEW r \in answers \cup {Junk}, VerifyCall(t, r) PROVE EntryInv'
    BY <1>5 DEF VerifyCall
<1>6. ASSUME NEW t \in Threads, VerifyLock(t) PROVE EntryInv'
    BY <1>6 DEF VerifyLock, MutexLock
<1>7. ASSUME NEW t \in Threads, NEW n \in Nonces, VerifyDrop(t, n) \/ VerifyPass(t, n)
      PROVE EntryInv'
    BY <1>7 DEF VerifyDrop, VerifyPass, Meets
<1>12. ASSUME NEW t \in Threads, VerifyMatch(t) PROVE EntryInv'
    BY <1>12 DEF VerifyMatch, Meets, Ahead, Expired
<1>13. ASSUME NEW t \in Threads, VerifyEnd(t) PROVE EntryInv'
    BY <1>13 DEF VerifyEnd
<1>8. ASSUME NEW t \in Threads, VerifyTake(t) PROVE EntryInv'
    BY <1>8 DEF VerifyTake
<1>9. ASSUME NEW t \in Threads, VerifyReturn(t) PROVE EntryInv'
    BY <1>9 DEF VerifyReturn, MutexUnlock
<1>10. CASE Destroy
    BY <1>10 DEF Destroy
<1>11. CASE UNCHANGED vars
    BY <1>11 DEF vars
<1> QED
    BY <1>1, <1>2, <1>3, <1>4, <1>5, <1>6, <1>7, <1>8, <1>9, <1>10, <1>11, <1>12, <1>13
    DEF Next, Challenge, Verify

\* The match of a Verify stays in the list while it holds the lock.
LEMMA ThreadStep == SInv /\ [Next]_vars => ThreadInv'
<1> SUFFICES ASSUME SInv, [Next]_vars PROVE ThreadInv'
    OBVIOUS
<1> USE AuthAssumption, ThreadsAssumption
    DEF Goto, Returns, mutexVars, entryVars, threadVars, SInv, TypeOK, Labels, LockInv, EntryInv, ThreadInv
<1>1. CASE Tick
    BY <1>1 DEF Tick
<1>2. ASSUME NEW t \in Threads, NEW n \in Nonces, NEW id \in Peers, NEW expires \in Lifetimes,
             NEW ctx \in Contexts, ChallengeMake(t, n, id, expires, ctx)
      PROVE ThreadInv'
    BY <1>2 DEF ChallengeMake
<1>3. ASSUME NEW t \in Threads, ChallengeInsert(t) PROVE ThreadInv'
    BY <1>3 DEF ChallengeInsert
<1>4. ASSUME NEW p \in Peers, NEW n \in Nonces, Respond(p, n) PROVE ThreadInv'
    BY <1>4 DEF Respond
<1>5. ASSUME NEW t \in Threads, NEW r \in answers \cup {Junk}, VerifyCall(t, r) PROVE ThreadInv'
    BY <1>5 DEF VerifyCall
<1>6. ASSUME NEW t \in Threads, VerifyLock(t) PROVE ThreadInv'
    BY <1>6 DEF VerifyLock, MutexLock
<1>7. ASSUME NEW t \in Threads, NEW n \in Nonces, VerifyDrop(t, n) \/ VerifyPass(t, n)
      PROVE ThreadInv'
    BY <1>7 DEF VerifyDrop, VerifyPass, Meets
<1>12. ASSUME NEW t \in Threads, VerifyMatch(t) PROVE ThreadInv'
    BY <1>12 DEF VerifyMatch, Meets, Ahead, Expired
<1>13. ASSUME NEW t \in Threads, VerifyEnd(t) PROVE ThreadInv'
    BY <1>13 DEF VerifyEnd
<1>8. ASSUME NEW t \in Threads, VerifyTake(t) PROVE ThreadInv'
    BY <1>8 DEF VerifyTake
<1>9. ASSUME NEW t \in Threads, VerifyReturn(t) PROVE ThreadInv'
    BY <1>9 DEF VerifyReturn, MutexUnlock
<1>10. CASE Destroy
    BY <1>10 DEF Destroy
<1>11. CASE UNCHANGED vars
    BY <1>11 DEF vars
<1> QED
    BY <1>1, <1>2, <1>3, <1>4, <1>5, <1>6, <1>7, <1>8, <1>9, <1>10, <1>11, <1>12, <1>13
    DEF Next, Challenge, Verify

\* The loop passes over nothing: the next entry has the highest number ahead,
\* and nobody inserts while the list is locked.
LEMMA ScanStep == SInv /\ [Next]_vars => ScanInv'
<1> SUFFICES ASSUME SInv, [Next]_vars PROVE ScanInv'
    OBVIOUS
<1> USE AuthAssumption, ThreadsAssumption
    DEF Goto, Returns, mutexVars, entryVars, threadVars, SInv, TypeOK, Labels, LockInv, ScanInv
<1>1. CASE Tick
    BY <1>1 DEF Tick
<1>2. ASSUME NEW t \in Threads, NEW n \in Nonces, NEW id \in Peers, NEW expires \in Lifetimes,
             NEW ctx \in Contexts, ChallengeMake(t, n, id, expires, ctx)
      PROVE ScanInv'
    BY <1>2 DEF ChallengeMake
<1>3. ASSUME NEW t \in Threads, ChallengeInsert(t) PROVE ScanInv'
    <2>1. arg[t] \in Nonces /\ \A u \in Threads : pc[u] # "scan"
        BY <1>3 DEF ChallengeInsert, EntryInv
    <2> QED BY <1>3, <2>1 DEF ChallengeInsert
<1>4. ASSUME NEW p \in Peers, NEW n \in Nonces, Respond(p, n) PROVE ScanInv'
    BY <1>4 DEF Respond
<1>5. ASSUME NEW t \in Threads, NEW r \in answers \cup {Junk}, VerifyCall(t, r) PROVE ScanInv'
    BY <1>5 DEF VerifyCall
<1>6. ASSUME NEW t \in Threads, VerifyLock(t) PROVE ScanInv'
    BY <1>6 DEF VerifyLock
<1>7. ASSUME NEW t \in Threads, NEW n \in Nonces, VerifyDrop(t, n) \/ VerifyPass(t, n)
      PROVE ScanInv'
    <2>4. n \in pending /\ serial[n] # 0 /\ pc[t] = "scan"
        BY <1>7 DEF VerifyDrop, VerifyPass, Meets, Ahead, EntryInv
    <2>5. \A m \in pending : serial[m] < cur[t] => serial[m] <= serial[n]
        BY <1>7 DEF VerifyDrop, VerifyPass, Meets, Ahead
    <2>1. ASSUME NEW m \in pending, serial[m] >= serial[n], m # n PROVE expire[m] > now[t]
        <3>1. m \in Nonces /\ n \in Nonces /\ serial[m] \in Nat /\ serial[n] \in Nat /\ cur[t] \in Nat
            OBVIOUS
        <3>2. serial[m] # serial[n]
            BY <2>1, <2>4, <3>1
        <3>3. serial[m] >= cur[t]
            BY <2>1, <2>5, <3>1, <3>2
        <3> QED BY <2>4, <3>3
    <2>2. CASE VerifyDrop(t, n)
        BY <2>1, <2>2 DEF VerifyDrop
    <2>3. CASE VerifyPass(t, n)
        BY <2>1, <2>3 DEF VerifyPass, Expired
    <2> QED BY <1>7, <2>2, <2>3
<1>8. ASSUME NEW t \in Threads, VerifyTake(t) PROVE ScanInv'
    BY <1>8 DEF VerifyTake
<1>9. ASSUME NEW t \in Threads, VerifyReturn(t) PROVE ScanInv'
    BY <1>9 DEF VerifyReturn
<1>10. CASE Destroy
    BY <1>10 DEF Destroy
<1>11. CASE UNCHANGED vars
    BY <1>11 DEF vars
<1>12. ASSUME NEW t \in Threads, VerifyMatch(t) PROVE ScanInv'
    BY <1>12 DEF VerifyMatch
<1>13. ASSUME NEW t \in Threads, VerifyEnd(t) PROVE ScanInv'
    BY <1>13 DEF VerifyEnd
<1> QED
    BY <1>1, <1>2, <1>3, <1>4, <1>5, <1>6, <1>7, <1>8, <1>9, <1>10, <1>11, <1>12, <1>13
    DEF Next, Challenge, Verify

----------------------------------------------------------------------------
\* The constructors establish the invariant.
LEMMA InitInv == Init => SInv /\ TimeInv
BY AuthAssumption, ThreadsAssumption
DEF Init, MutexInit, SInv, TypeOK, MutexTypeOK, Labels, LockInv, EntryInv, ThreadInv, ScanInv,
    TimeInv, InTime, NotForgotten

\* While GetTime does not wrap, m_expire is the true deadline and a time read
\* earlier is never ahead of the clock.
LEMMA TimeStep ==
    ASSUME NoWrap PROVE SInv /\ TimeInv /\ [Next]_vars => TimeInv'
<1> SUFFICES ASSUME SInv, TimeInv, [Next]_vars PROVE TimeInv'
    OBVIOUS
<1> USE AuthAssumption, ThreadsAssumption
    DEF Goto, Returns, mutexVars, entryVars, threadVars, SInv, TypeOK, Labels, TimeInv,
        InTime, NotForgotten
<1>1. CASE Tick
    BY <1>1, NoWrap DEF Tick, NoWrap
<1>2. ASSUME NEW t \in Threads, NEW n \in Nonces, NEW id \in Peers, NEW expires \in Lifetimes,
             NEW ctx \in Contexts, ChallengeMake(t, n, id, expires, ctx)
      PROVE TimeInv'
    <2>1. (time + expires) % Word = time + expires
        <3>1. expires \in Nat /\ time + expires \in Nat /\ time + expires < Word
            BY NoWrap DEF NoWrap
        <3>2. \A x, w \in Nat : x < w => x % w = x
            OBVIOUS
        <3> QED BY ONLY <3>1, <3>2, AuthAssumption DEF AuthAssumption
    <2>2. serial[n] = 0 /\ accepted[n] = 0
        BY <1>2 DEF ChallengeMake, EntryInv
    <2> QED BY <1>2, <2>1, <2>2 DEF ChallengeMake
<1>3. ASSUME NEW t \in Threads, ChallengeInsert(t) PROVE TimeInv'
    BY <1>3 DEF ChallengeInsert, EntryInv
<1>4. ASSUME NEW p \in Peers, NEW n \in Nonces, Respond(p, n) PROVE TimeInv'
    BY <1>4 DEF Respond
<1>5. ASSUME NEW t \in Threads, NEW r \in answers \cup {Junk}, VerifyCall(t, r) PROVE TimeInv'
    BY <1>5 DEF VerifyCall
<1>6. ASSUME NEW t \in Threads, VerifyLock(t) PROVE TimeInv'
    BY <1>6 DEF VerifyLock
<1>7. ASSUME NEW t \in Threads, NEW n \in Nonces, VerifyDrop(t, n) PROVE TimeInv'
    <2>1. n \in made /\ birth[n] + life[n] <= clock
        BY <1>7 DEF VerifyDrop, Meets, Ahead, Expired
    <2> QED BY <1>7, <2>1 DEF VerifyDrop
<1>12. ASSUME NEW t \in Threads, NEW n \in Nonces, VerifyPass(t, n) PROVE TimeInv'
    BY <1>12 DEF VerifyPass
<1>13. ASSUME NEW t \in Threads, VerifyMatch(t) PROVE TimeInv'
    <2>1. /\ pc[t] = "scan" /\ pc' = [pc EXCEPT ![t] = "take"]
          /\ UNCHANGED <<clock, time, alive, made, pending, entryVars, accepted, asked, now, called>>
        BY <1>13 DEF VerifyMatch, Meets
    <2> QED BY <2>1
<1>14. ASSUME NEW t \in Threads, VerifyEnd(t) PROVE TimeInv'
    BY <1>14 DEF VerifyEnd
<1>8. ASSUME NEW t \in Threads, VerifyTake(t) PROVE TimeInv'
    <2>1. arg[t] \in pending /\ called[t] < birth[arg[t]] + life[arg[t]]
        BY <1>8 DEF VerifyTake, ThreadInv
    <2> QED BY <1>8, <2>1 DEF VerifyTake
<1>9. ASSUME NEW t \in Threads, VerifyReturn(t) PROVE TimeInv'
    BY <1>9 DEF VerifyReturn
<1>10. CASE Destroy
    BY <1>10 DEF Destroy
<1>11. CASE UNCHANGED vars
    BY <1>11 DEF vars
<1> QED
    BY <1>1, <1>2, <1>3, <1>4, <1>5, <1>6, <1>7, <1>8, <1>9, <1>10, <1>11, <1>12, <1>13, <1>14
    DEF Next, Challenge, Verify

----------------------------------------------------------------------------
\* The invariant of the list of pending responses, with any clock.
THEOREM AuthInvariant == Spec => []SInv
<1>1. SInv /\ [Next]_vars => SInv'
    BY TypeStep, LockStep, EntryStep, ThreadStep, ScanStep DEF SInv
<1>2. Init => SInv
    BY InitInv
<1> QED BY <1>1, <1>2, PTL DEF Spec

\* The types of the Authenticator's state.
THEOREM AuthTypes == Spec => []TypeOK
<1>1. SInv => TypeOK
    BY DEF SInv
<1> QED BY <1>1, AuthInvariant, PTL

\* Verify accepts each response at most once, for any number of threads that
\* present it at the same time, and whatever the clock does.
THEOREM AuthOneTime == Spec => []OneTime
<1>1. SInv => OneTime
    BY DEF SInv, EntryInv, OneTime
<1> QED BY <1>1, AuthInvariant, PTL

\* Verify returns the context of the very challenge it was given the response
\* of, or NULL.
THEOREM AuthContext == Spec => []ContextBound
<1>1. SInv => ContextBound
    BY DEF SInv, ThreadInv, ContextBound
<1> QED BY <1>1, AuthInvariant, PTL

\* The invariant that relates m_expire to the clock, when GetTime does not wrap.
THEOREM AuthTime == ASSUME NoWrap PROVE Spec => []TimeInv
<1>1. Init => TimeInv
    BY InitInv
<1>2. SInv /\ TimeInv /\ [Next]_vars => TimeInv'
    BY NoWrap, TimeStep
<1> QED BY <1>1, <1>2, AuthInvariant, PTL DEF Spec

\* No response is accepted by a Verify called after the challenge's lifetime,
\* when GetTime does not wrap.
THEOREM AuthInTime == ASSUME NoWrap PROVE Spec => []InTime
<1>1. TimeInv => InTime
    BY DEF TimeInv
<1>2. Spec => []TimeInv
    BY NoWrap, AuthTime
<1> QED BY <1>1, <1>2, PTL

\* An unanswered challenge is not forgotten before its lifetime is over, when
\* GetTime does not wrap.
THEOREM AuthNotForgotten == ASSUME NoWrap PROVE Spec => []NotForgotten
<1>1. TimeInv => NotForgotten
    BY DEF TimeInv
<1>2. Spec => []TimeInv
    BY NoWrap, AuthTime
<1> QED BY <1>1, <1>2, PTL

\* When the loop of Verify ends, what it leaves in the list had not expired at
\* the time that Verify has read, or stands behind the match at which it stopped.
THEOREM AuthScanPurges == Spec => ScanPurges
<1> DEFINE Purges ==
        \A t \in Threads :
            pc[t] = "scan" /\ pc'[t] # "scan"
                => \A n \in pending' :
                       \/ expire[n] > now[t]
                       \/ pc'[t] = "take" /\ serial[n] < serial[arg[t]]
<1>1. SInv /\ [Next]_vars => [Purges]_vars
    <2> SUFFICES ASSUME SInv, Next, NEW t \in Threads, pc[t] = "scan", pc'[t] # "scan",
                        NEW n \in pending'
                 PROVE  expire[n] > now[t] \/ (pc'[t] = "take" /\ serial[n] < serial[arg[t]])
        OBVIOUS
    <2>1. VerifyMatch(t) \/ VerifyEnd(t)
        <3> USE DEF Goto, threadVars, SInv, TypeOK
        <3>1. CASE Tick \/ Destroy \/ \E p \in Peers, m \in Nonces : Respond(p, m)
            BY <3>1 DEF Tick, Destroy, Respond
        <3>2. ASSUME NEW u \in Threads, Challenge(u) PROVE FALSE
            BY <3>2 DEF Challenge, ChallengeMake, ChallengeInsert
        <3>3. ASSUME NEW u \in Threads, Verify(u), ~VerifyMatch(u), ~VerifyEnd(u) PROVE FALSE
            BY <3>3
            DEF Verify, VerifyCall, VerifyLock, VerifyDrop, VerifyPass, VerifyTake, VerifyReturn
        <3>4. ASSUME NEW u \in Threads, VerifyMatch(u) \/ VerifyEnd(u) PROVE u = t
            BY <3>4 DEF VerifyMatch, VerifyEnd
        <3> QED BY <3>1, <3>2, <3>3, <3>4 DEF Next
    <2>2. n \in pending /\ n \in Nonces /\ serial[n] \in Nat /\ cur[t] \in Nat
        BY <2>1 DEF VerifyMatch, VerifyEnd, SInv, TypeOK
    <2>3. serial[n] >= cur[t] => expire[n] > now[t]
        BY <2>2 DEF SInv, ScanInv
    <2>4. CASE VerifyEnd(t)
        BY <2>2, <2>3, <2>4 DEF VerifyEnd, Ahead
    <2>5. CASE VerifyMatch(t)
        <3>1. arg[t] \in Nonces /\ serial[arg[t]] \in Nat /\ serial[arg[t]] # 0 /\ pc'[t] = "take"
            BY <2>5 DEF VerifyMatch, Meets, Ahead, Goto, SInv, TypeOK, EntryInv
        <3>2. n = arg[t] => expire[n] > now[t]
            BY <2>2, <2>5 DEF VerifyMatch, Expired, SInv, TypeOK
        <3>3. serial[n] < cur[t] => serial[n] <= serial[arg[t]]
            BY <2>2, <2>5 DEF VerifyMatch, Meets, Ahead
        <3>4. n # arg[t] => serial[n] # serial[arg[t]]
            BY <2>2, <3>1 DEF SInv, ScanInv
        <3> QED BY <2>2, <2>3, <3>1, <3>2, <3>3, <3>4
    <2> QED BY <2>1, <2>4, <2>5
<1> QED BY <1>1, AuthInvariant, PTL DEF Spec, ScanPurges

----------------------------------------------------------------------------
\* The challenges of an Authenticator are one-time tickets: every step is a
\* step of TicketSpec, or changes nothing that TicketSpec sees.
THEOREM AuthRefines == ASSUME NoWrap PROVE Spec => TicketsRefined
<1> USE AuthAssumption, ThreadsAssumption
<1> DEFINE T == [n \in Nonces |-> TicketState(n)]
           D == [n \in Nonces |-> birth[n] + life[n]]
<1>1. Init => Abs!Init
    BY DEF Init, Abs!Init, TicketState
<1>2. SInv /\ TimeInv /\ [Next]_vars => [Abs!Next]_(Abs!ticketVars)
    <2> SUFFICES ASSUME SInv, TimeInv, [Next]_vars PROVE [Abs!Next]_(Abs!ticketVars)
        OBVIOUS
    <2> USE DEF Goto, Returns, mutexVars, entryVars, threadVars, SInv, TypeOK, Labels
    <2>1. ASSUME UNCHANGED <<clock, alive, birth, life, serial, accepted, pending>>
          PROVE UNCHANGED Abs!ticketVars
        BY <2>1 DEF Abs!ticketVars, TicketState
    <2>2. CASE Tick
        BY <2>2 DEF Tick, Abs!Next, Abs!Tick, TicketState
    <2>3. ASSUME NEW t \in Threads, NEW n \in Nonces, NEW id \in Peers, NEW expires \in Lifetimes,
                 NEW ctx \in Contexts, ChallengeMake(t, n, id, expires, ctx)
          PROVE Abs!Next
        <3>1. T[n] = "new" /\ T' = T /\ clock' = clock /\ alive' = alive
            BY <2>3 DEF ChallengeMake, TicketState, EntryInv
        <3>2. D' = [D EXCEPT ![n] = D'[n]]
            BY <2>3 DEF ChallengeMake
        <3> QED BY <3>1, <3>2 DEF Abs!Next, Abs!Make
    <2>4. ASSUME NEW t \in Threads, ChallengeInsert(t) PROVE Abs!Next
        <3>1. arg[t] \in Nonces /\ T[arg[t]] = "new"
            BY <2>4 DEF ChallengeInsert, TicketState, EntryInv
        <3>4. \A n \in Nonces :
                  TicketState(n)' = IF n = arg[t] THEN "open" ELSE TicketState(n)
            BY <2>4, <3>1 DEF ChallengeInsert, TicketState, EntryInv
        <3>2. T' = [T EXCEPT ![arg[t]] = "open"]
            BY <3>4
        <3>3. D' = D /\ clock' = clock /\ alive' = alive
            BY <2>4 DEF ChallengeInsert
        <3> QED BY <3>1, <3>2, <3>3 DEF Abs!Next, Abs!Open
    <2>5. ASSUME NEW p \in Peers, NEW n \in Nonces, Respond(p, n)
          PROVE UNCHANGED Abs!ticketVars
        BY <2>1, <2>5 DEF Respond
    <2>6. ASSUME NEW t \in Threads, NEW r \in answers \cup {Junk}, VerifyCall(t, r)
          PROVE UNCHANGED Abs!ticketVars
        BY <2>1, <2>6 DEF VerifyCall
    <2>7. ASSUME NEW t \in Threads, VerifyLock(t) PROVE UNCHANGED Abs!ticketVars
        BY <2>1, <2>7 DEF VerifyLock
    <2>8. ASSUME NEW t \in Threads, NEW n \in Nonces, VerifyDrop(t, n) PROVE Abs!Next
        <3>1. n \in pending /\ T[n] = "open" /\ D[n] <= clock
            BY <2>8 DEF VerifyDrop, Meets, Ahead, Expired, TicketState, EntryInv, TimeInv
        <3>5. \A m \in Nonces :
                  TicketState(m)' = IF m = n THEN "gone" ELSE TicketState(m)
            BY <2>8, <3>1 DEF VerifyDrop, TicketState, EntryInv
        <3>2. T' = [m \in Nonces |-> IF m \in {n} THEN "gone" ELSE T[m]]
            BY <3>5
        <3>3. D' = D /\ clock' = clock /\ alive' = alive
            BY <2>8 DEF VerifyDrop
        <3>4. {n} \in SUBSET Nonces /\ \A m \in {n} : T[m] = "open" /\ D[m] <= clock
            BY <3>1
        <3>6. Abs!Lapse({n})
            BY <3>2, <3>3, <3>4 DEF Abs!Lapse
        <3> QED BY <3>4, <3>6 DEF Abs!Next
    <2>13. ASSUME NEW t \in Threads, NEW n \in Nonces, VerifyPass(t, n)
          PROVE UNCHANGED Abs!ticketVars
        BY <2>1, <2>13 DEF VerifyPass
    <2>14. ASSUME NEW t \in Threads, VerifyMatch(t) \/ VerifyEnd(t)
          PROVE UNCHANGED Abs!ticketVars
        BY <2>1, <2>14 DEF VerifyMatch, VerifyEnd
    <2>9. ASSUME NEW t \in Threads, VerifyTake(t) PROVE Abs!Next
        <3>1. arg[t] \in Nonces /\ T[arg[t]] = "open" /\ alive
            BY <2>9 DEF VerifyTake, TicketState, EntryInv, ThreadInv
        <3>4. \A n \in Nonces :
                  TicketState(n)' = IF n = arg[t] THEN "used" ELSE TicketState(n)
            BY <2>9, <3>1 DEF VerifyTake, TicketState, EntryInv, ThreadInv
        <3>2. T' = [T EXCEPT ![arg[t]] = "used"]
            BY <3>4
        <3>3. D' = D /\ clock' = clock /\ alive' = alive
            BY <2>9 DEF VerifyTake
        <3> QED BY <3>1, <3>2, <3>3 DEF Abs!Next, Abs!Use
    <2>10. ASSUME NEW t \in Threads, VerifyReturn(t) PROVE UNCHANGED Abs!ticketVars
        BY <2>1, <2>10 DEF VerifyReturn
    <2>11. CASE Destroy
        <3>1. T' = [n \in Nonces |-> IF T[n] = "open" THEN "gone" ELSE T[n]]
            BY <2>11 DEF Destroy, TicketState
        <3>2. D' = D /\ clock' = clock /\ alive /\ alive' = FALSE
            BY <2>11 DEF Destroy
        <3> QED BY <3>1, <3>2 DEF Abs!Next, Abs!Close
    <2>12. CASE UNCHANGED vars
        BY <2>1, <2>12 DEF vars
    <2> QED
        BY <2>2, <2>3, <2>4, <2>5, <2>6, <2>7, <2>8, <2>9, <2>10, <2>11, <2>12,
           <2>13, <2>14
        DEF Next, Challenge, Verify
<1>3. Spec => []TimeInv
    BY NoWrap, AuthTime
<1> QED BY <1>1, <1>2, <1>3, AuthInvariant, PTL DEF Spec, TicketsRefined, Abs!Spec

(* --------------------------------- streams --------------------------------- *)

\* A sequence, of whatever.
IsSeq(s) == s \in Seq({s[i] : i \in DOMAIN s})

\* s is what f has behind the place `at'.
Piece(s, at, f) == \A i \in 1..Len(s) : s[i] = f[at + i]

\* The bytes of any file, by place.
Data == [i \in Nat |-> Byte("data", <<>>, i)]

\* The stream of Encrypt for a file: IV, data and digest.
Stream(file) ==
    [i \in Nat |->
        IF i <= IvSize THEN Byte("iv", <<>>, i)
        ELSE IF i <= IvSize + Len(file) THEN Byte("cipher", Byte("data", <<>>, i - IvSize), i - IvSize)
        ELSE Byte("cipher", Byte("digest", file, i - IvSize - Len(file)), i - IvSize)]

\* The beginning of the file.
Prefix(s) == Len(s) <= size /\ Piece(s, 0, Data)

\* Decrypt is at work.
Live == rpc \in {"iv", "fill", "final"}

\* How far the stream was made.
Made ==
    IF ~secure THEN read
    ELSE IvSize + read + (IF spc \in {"digest", "done"} THEN DigestSize ELSE 0)

\* How far Decrypt has got: what it has passed on, what it has taken from the
\* connection, and what has arrived there.
Base == IF rpc = "iv" THEN 0 ELSE IvSize + Len(digest)
Taken == Base + Len(buffer)
Arrived == Taken + Len(chan)

Seqs ==
    /\ IsSeq(fed) /\ IsSeq(out) /\ IsSeq(chan)
    /\ IsSeq(buffer) /\ IsSeq(digest) /\ IsSeq(written)

\* The digest is made of the whole file, or of what could be read of it.
AllRead == spc \in {"digest", "done", "dead"} /\ (spoilt \/ read = size)

SenderInv ==
    /\ Prefix(fed) /\ Len(fed) = read
    /\ spc \in {"iv", "digest"} => secure
    /\ spc = "iv" => read = 0
    /\ spc = "digest" \/ (spc = "done" /\ sent >= 0) => AllRead
    /\ spc = "dead" <=> link = "ended"
    /\ spc \in {"done", "dead"} => out = <<>>
    /\ link = "reset" => chan = <<>>
    /\ sent < 0 => secure /\ spc = "done" /\ (link = "reset" \/ rpc \in {"done", "undefined"})
    /\ sent >= 0 => IF spc = "dead" THEN sent <= Made + DigestSize ELSE sent + Len(out) = Made

ReceiverInv ==
    /\ Prefix(digest)
    /\ Live \/ rpc = "undefined" => secure
    /\ rpc = "copy" => ~secure
    /\ rpc = "final" => fill = 0
    /\ secure => Prefix(written)
    /\ ~secure => Len(written) <= size /\ fill = 0 /\ buffer = <<>>

\* While Decrypt is at work, everything is at its place.
DecryptInv ==
    Live =>
        /\ written = digest /\ total = Len(digest)
        /\ rpc = "iv" => Len(buffer) <= IvSize /\ digest = <<>>
        /\ rpc # "iv" => Len(buffer) <= ReadSize
        /\ Piece(buffer, Base, Stream(fed)) /\ Piece(chan, Taken, Stream(fed))
        /\ Arrived <= IvSize + read + DigestSize
        /\ Arrived > IvSize + read => AllRead
        /\ link = "open" => Piece(out, Arrived, Stream(fed)) /\ Arrived + Len(out) = Made

\* While Transfer is at work, as long as nothing has failed.
CopyInv ==
    rpc = "copy" =>
        /\ Len(written) <= total /\ 0 <= total /\ total + Len(chan) <= read
        /\ link = "open" => total + Len(chan) + Len(out) = read
        /\ ~spoilt /\ link = "open" =>
               /\ Len(written) = total /\ Piece(written, 0, Data)
               /\ Piece(chan, total, Data) /\ Piece(out, total + Len(chan), Data)

DoneInv ==
    rpc = "done" =>
        /\ total <= size
        /\ secure /\ total >= 0 => written = fed /\ total = Len(written) /\ AllRead
        /\ ~secure /\ ~spoilt /\ link = "open" => written = File /\ total = size

StreamInv == StreamTypes /\ Seqs /\ SenderInv /\ ReceiverInv /\ DecryptInv /\ CopyInv /\ DoneInv

----------------------------------------------------------------------------
(* Sequences and their pieces *)

LEMMA AnySeq ==
    ASSUME NEW S, NEW s \in Seq(S)
    PROVE  IsSeq(s)
BY DEF IsSeq

LEMMA Lens ==
    ASSUME NEW s, IsSeq(s)
    PROVE  Len(s) \in Nat /\ DOMAIN s = 1..Len(s) /\ (Len(s) = 0 <=> s = <<>>)
BY DEF IsSeq

LEMMA Empty ==
    /\ IsSeq(<<>>) /\ Len(<<>>) = 0
    /\ \A at, f : Piece(<<>>, at, f)
BY DEF IsSeq, Piece

LEMMA SameSeq ==
    ASSUME NEW s, NEW t, IsSeq(s), IsSeq(t), Len(s) = Len(t), NEW f, NEW at,
           Piece(s, at, f), Piece(t, at, f)
    PROVE  s = t
<1>1. \A i \in 1..Len(s) : s[i] = t[i]
    BY DEF Piece
<1> QED BY <1>1 DEF IsSeq

\* A sequence given by its elements.
LEMMA Listed ==
    ASSUME NEW n \in Nat, NEW s, s = [i \in 1..n |-> s[i]]
    PROVE  IsSeq(s) /\ Len(s) = n
<1>1. s \in Seq({s[i] : i \in DOMAIN s}) /\ Len(s) = n
    OBVIOUS
<1> QED BY <1>1, AnySeq

LEMMA Cat ==
    ASSUME NEW s, NEW t, IsSeq(s), IsSeq(t)
    PROVE  /\ IsSeq(s \o t) /\ Len(s \o t) = Len(s) + Len(t)
           /\ \A f, at : at \in Nat /\ Piece(s, at, f) /\ Piece(t, at + Len(s), f) => Piece(s \o t, at, f)
<1>1. PICK S : s \in Seq(S) /\ t \in Seq(S)
    <2> DEFINE A == {s[i] : i \in DOMAIN s}
               B == {t[i] : i \in DOMAIN t}
    <2>1. s \in Seq(A) /\ t \in Seq(B)
        BY DEF IsSeq
    <2> HIDE DEF A, B
    <2>2. s \in Seq(A \cup B) /\ t \in Seq(A \cup B)
        BY <2>1
    <2> QED BY <2>2
<1>2. s \o t \in Seq(S) /\ Len(s \o t) = Len(s) + Len(t)
    BY <1>1
<1>3. \A i \in 1..Len(s \o t) : (s \o t)[i] = IF i <= Len(s) THEN s[i] ELSE t[i - Len(s)]
    BY <1>1
<1>4. Len(s) \in Nat /\ Len(t) \in Nat
    BY <1>1
<1>5. ASSUME NEW f, NEW at \in Nat, Piece(s, at, f), Piece(t, at + Len(s), f),
             NEW i \in 1..Len(s \o t)
      PROVE  (s \o t)[i] = f[at + i]
    <2>1. CASE i <= Len(s)
        BY <1>2, <1>3, <1>4, <1>5, <2>1 DEF Piece
    <2>2. CASE ~(i <= Len(s))
        <3>1. i - Len(s) \in 1..Len(t) /\ at + Len(s) + (i - Len(s)) = at + i
            BY <1>2, <1>4, <2>2
        <3>2. t[i - Len(s)] = f[at + Len(s) + (i - Len(s))]
            BY <1>5, <3>1 DEF Piece
        <3> QED BY <1>3, <2>2, <3>1, <3>2
    <2> QED BY <2>1, <2>2
<1> QED BY <1>2, <1>5, AnySeq DEF Piece

LEMMA Cut ==
    ASSUME NEW s, IsSeq(s), NEW n \in 0..Len(s)
    PROVE  /\ IsSeq(Front(s, n)) /\ Len(Front(s, n)) = n
           /\ IsSeq(Behind(s, n)) /\ Len(Behind(s, n)) = Len(s) - n
           /\ \A i \in 1..n : Front(s, n)[i] = s[i]
           /\ \A i \in 1..(Len(s) - n) : Behind(s, n)[i] = s[n + i]
           /\ \A f, at : at \in Nat /\ Piece(s, at, f) =>
                  Piece(Front(s, n), at, f) /\ Piece(Behind(s, n), at + n, f)
<1>1. PICK S : s \in Seq(S)
    BY DEF IsSeq
<1>2. Len(s) \in Nat
    BY <1>1
<1>3. /\ Front(s, n) \in Seq(S) /\ Len(Front(s, n)) = n
      /\ \A i \in 1..n : Front(s, n)[i] = s[i]
    BY <1>1, <1>2 DEF Front
<1>4. /\ Behind(s, n) \in Seq(S) /\ Len(Behind(s, n)) = Len(s) - n
      /\ \A i \in 1..(Len(s) - n) : Behind(s, n)[i] = s[n + i]
    BY <1>1, <1>2 DEF Behind
<1>5. ASSUME NEW f, NEW at \in Nat, Piece(s, at, f), NEW i \in 1..(Len(s) - n)
      PROVE  Behind(s, n)[i] = f[at + n + i]
    <2>1. n + i \in 1..Len(s) /\ at + (n + i) = at + n + i
        BY <1>2
    <2>2. s[n + i] = f[at + (n + i)]
        BY <1>5, <2>1 DEF Piece
    <2> QED BY <1>4, <2>1, <2>2
<1>6. ASSUME NEW f, NEW at \in Nat, Piece(s, at, f), NEW i \in 1..n
      PROVE  Front(s, n)[i] = f[at + i]
    <2>1. i \in 1..Len(s)
        BY <1>2
    <2> QED BY <1>3, <1>6, <2>1 DEF Piece
<1>7. ASSUME NEW f, NEW at \in Nat, Piece(s, at, f)
      PROVE  Piece(Front(s, n), at, f) /\ Piece(Behind(s, n), at + n, f)
    <2>1. Piece(Front(s, n), at, f)
        <3>1. \A i \in 1..n : Front(s, n)[i] = f[at + i]
            BY <1>6, <1>7
        <3>2. Len(Front(s, n)) = n
            BY <1>3
        <3> QED BY <3>1, <3>2 DEF Piece
    <2>2. Piece(Behind(s, n), at + n, f)
        BY <1>4, <1>5, <1>7 DEF Piece
    <2> QED BY <2>1, <2>2
<1>8. IsSeq(Front(s, n)) /\ IsSeq(Behind(s, n))
    BY <1>3, <1>4, AnySeq
<1> QED BY <1>3, <1>4, <1>7, <1>8

LEMMA FilePieces ==
    ASSUME StreamTypes
    PROVE  /\ IsSeq(File) /\ Len(File) = size /\ Piece(File, 0, Data)
           /\ \A m, n \in Nat : m + n <= size =>
                  LET s == SubSeq(File, m + 1, m + n)
                  IN  IsSeq(s) /\ Len(s) = n /\ Piece(s, m, Data)
<1>0. size \in Nat
    BY StreamAssumption DEF StreamTypes
<1>1. IsSeq(File) /\ Len(File) = size /\ \A i \in 1..size : File[i] = Byte("data", <<>>, i)
    <2>1. File = [i \in 1..size |-> File[i]] /\ \A i \in 1..size : File[i] = Byte("data", <<>>, i)
        BY DEF File
    <2> QED BY <1>0, <2>1, Listed
<1>2. \A i \in Nat : Data[i] = Byte("data", <<>>, i)
    BY DEF Data
<1>3. ASSUME NEW m \in Nat, NEW n \in Nat, m + n <= size
      PROVE  LET s == SubSeq(File, m + 1, m + n)
             IN  IsSeq(s) /\ Len(s) = n /\ Piece(s, m, Data)
    <2> DEFINE s == SubSeq(File, m + 1, m + n)
    <2>1. PICK S : File \in Seq(S)
        BY <1>1 DEF IsSeq
    <2>2. s \in Seq(S) /\ Len(s) = n /\ \A i \in 1..n : s[i] = File[m + i]
        BY <1>0, <1>1, <1>3, <2>1
    <2>3. \A i \in 1..n : m + i \in 1..size
        BY <1>0, <1>3
    <2>4. \A i \in 1..n : s[i] = Data[m + i]
        BY <1>1, <1>2, <2>2, <2>3
    <2> QED BY <2>2, <2>4, AnySeq DEF Piece
<1>4. Piece(File, 0, Data)
    BY <1>0, <1>1, <1>2 DEF Piece
<1> QED BY <1>1, <1>3, <1>4

LEMMA Encryption ==
    ASSUME NEW at \in Nat, NEW s, IsSeq(s)
    PROVE  /\ IsSeq(Encrypted(at, s)) /\ Len(Encrypted(at, s)) = Len(s)
           /\ \A i \in 1..Len(s) : Encrypted(at, s)[i] = Byte("cipher", s[i], at + i)
<1> DEFINE t == Encrypted(at, s)
<1>1. Len(s) \in Nat /\ DOMAIN s = 1..Len(s)
    BY Lens
<1>2. /\ t = [i \in 1..Len(s) |-> t[i]]
      /\ \A i \in 1..Len(s) : t[i] = Byte("cipher", s[i], at + i)
    BY <1>1 DEF Encrypted
<1> HIDE DEF t
<1>3. IsSeq(t) /\ Len(t) = Len(s)
    BY <1>1, <1>2, Listed
<1> QED BY <1>2, <1>3 DEF t

LEMMA Decryption ==
    ASSUME NEW at \in Nat, NEW s, IsSeq(s)
    PROVE  /\ IsSeq(Decrypted(at, s)) /\ Len(Decrypted(at, s)) = Len(s)
           /\ \A x : \A i \in 1..Len(s) : s[i] = Byte("cipher", x, at + i) => Decrypted(at, s)[i] = x
<1> DEFINE t == Decrypted(at, s)
<1>1. Len(s) \in Nat /\ DOMAIN s = 1..Len(s)
    BY Lens
<1>2. /\ t = [i \in 1..Len(s) |-> t[i]]
      /\ \A i \in 1..Len(s) : s[i].kind = "cipher" /\ s[i].n = at + i => t[i] = s[i].of
    BY <1>1 DEF Decrypted
<1> HIDE DEF t
<1>3. IsSeq(t) /\ Len(t) = Len(s)
    BY <1>1, <1>2, Listed
<1>4. \A x, n : /\ Byte("cipher", x, n).kind = "cipher" /\ Byte("cipher", x, n).n = n
                /\ Byte("cipher", x, n).of = x
    BY DEF Byte
<1> QED BY <1>2, <1>3, <1>4 DEF t

LEMMA Digests ==
    ASSUME NEW x
    PROVE  /\ IsSeq(Digest(x)) /\ Len(Digest(x)) = DigestSize
           /\ \A i \in 1..DigestSize : Digest(x)[i] = Byte("digest", x, i)
<1>1. /\ Digest(x) = [i \in 1..DigestSize |-> Digest(x)[i]]
      /\ \A i \in 1..DigestSize : Digest(x)[i] = Byte("digest", x, i)
    BY DEF Digest
<1> QED BY <1>1, StreamAssumption, Listed

----------------------------------------------------------------------------
(* The stream *)

LEMMA Places ==
    ASSUME NEW file, IsSeq(file), NEW i \in Nat
    PROVE  /\ i <= IvSize => Stream(file)[i] = Byte("iv", <<>>, i)
           /\ i > IvSize /\ i <= IvSize + Len(file) =>
                  Stream(file)[i] = Byte("cipher", Data[i - IvSize], i - IvSize)
           /\ i > IvSize + Len(file) =>
                  Stream(file)[i] = Byte("cipher", Byte("digest", file, i - IvSize - Len(file)), i - IvSize)
<1>1. IvSize \in Nat /\ Len(file) \in Nat
    BY StreamAssumption, Lens
<1>2. i > IvSize => Data[i - IvSize] = Byte("data", <<>>, i - IvSize)
    BY <1>1 DEF Data
<1> QED BY <1>1, <1>2 DEF Stream

\* What was sent of a file stays right when more of it is read.
LEMMA StreamGrows ==
    ASSUME NEW file, NEW longer, IsSeq(file), IsSeq(longer), Len(file) <= Len(longer),
           NEW s, IsSeq(s), NEW at \in Nat, at + Len(s) <= IvSize + Len(file),
           Piece(s, at, Stream(file))
    PROVE  Piece(s, at, Stream(longer))
<1>1. IvSize \in Nat /\ Len(file) \in Nat /\ Len(longer) \in Nat /\ Len(s) \in Nat
    BY StreamAssumption, Lens
<1>2. ASSUME NEW i \in 1..Len(s) PROVE Stream(file)[at + i] = Stream(longer)[at + i]
    <2>1. at + i \in Nat /\ at + i <= IvSize + Len(file) /\ at + i <= IvSize + Len(longer)
        BY <1>1
    <2>2. CASE at + i <= IvSize
        BY <2>1, <2>2, Places
    <2>3. CASE ~(at + i <= IvSize)
        BY <1>1, <2>1, <2>3, Places
    <2> QED BY <2>2, <2>3
<1> QED BY <1>2 DEF Piece

\* Encrypt makes the stream.
LEMMA MadeIv ==
    ASSUME NEW file, IsSeq(file)
    PROVE  IsSeq(Iv) /\ Len(Iv) = IvSize /\ Piece(Iv, 0, Stream(file))
<1>1. IvSize \in Nat
    BY StreamAssumption
<1>2. Iv = [i \in 1..IvSize |-> Iv[i]] /\ \A i \in 1..IvSize : Iv[i] = Byte("iv", <<>>, i)
    BY DEF Iv
<1>3. IsSeq(Iv) /\ Len(Iv) = IvSize
    BY <1>1, <1>2, Listed
<1>4. \A i \in 1..IvSize : Stream(file)[i] = Byte("iv", <<>>, i) /\ 0 + i = i
    BY <1>1, Places
<1> QED BY <1>2, <1>3, <1>4 DEF Piece

LEMMA MadeData ==
    ASSUME NEW file, IsSeq(file), NEW s, IsSeq(s), NEW at \in Nat, at + Len(s) <= Len(file),
           Piece(s, at, Data)
    PROVE  Piece(Encrypted(at, s), IvSize + at, Stream(file))
<1>1. IvSize \in Nat /\ Len(file) \in Nat /\ Len(s) \in Nat
    BY StreamAssumption, Lens
<1>2. ASSUME NEW i \in 1..Len(s) PROVE Encrypted(at, s)[i] = Stream(file)[IvSize + at + i]
    <2>1. PICK j \in Nat : /\ j = IvSize + at + i /\ j > IvSize /\ j <= IvSize + Len(file)
                           /\ j - IvSize = at + i
        BY <1>1
    <2>2. Stream(file)[j] = Byte("cipher", Data[at + i], at + i)
        BY <2>1, Places
    <2>3. Encrypted(at, s)[i] = Byte("cipher", s[i], at + i) /\ s[i] = Data[at + i]
        BY Encryption DEF Piece
    <2> QED BY <2>1, <2>2, <2>3
<1>3. Len(Encrypted(at, s)) = Len(s)
    BY Encryption
<1> QED BY <1>2, <1>3 DEF Piece

LEMMA MadeDigest ==
    ASSUME NEW file, IsSeq(file)
    PROVE  LET s == Encrypted(Len(file), Digest(file))
           IN  IsSeq(s) /\ Len(s) = DigestSize /\ Piece(s, IvSize + Len(file), Stream(file))
<1> DEFINE s == Encrypted(Len(file), Digest(file))
<1>1. IvSize \in Nat /\ Len(file) \in Nat
    BY StreamAssumption, Lens
<1>2. IsSeq(s) /\ Len(s) = DigestSize
    BY <1>1, Digests, Encryption
<1>3. ASSUME NEW i \in 1..DigestSize PROVE s[i] = Stream(file)[IvSize + Len(file) + i]
    <2>1. PICK j \in Nat : /\ j = IvSize + Len(file) + i /\ j > IvSize + Len(file)
                           /\ j - IvSize - Len(file) = i /\ j - IvSize = Len(file) + i
        BY <1>1
    <2>2. Stream(file)[j] = Byte("cipher", Byte("digest", file, i), Len(file) + i)
        BY <2>1, Places
    <2>3. s[i] = Byte("cipher", Byte("digest", file, i), Len(file) + i)
        <3>1. /\ IsSeq(Digest(file)) /\ Len(Digest(file)) = DigestSize
              /\ Digest(file)[i] = Byte("digest", file, i)
            BY Digests
        <3> QED BY <1>1, <3>1, Encryption
    <2> QED BY <2>1, <2>2, <2>3
<1> QED BY <1>2, <1>3 DEF Piece

\* Decrypt gets back what was encrypted, if it is at the right place.
LEMMA Recovered ==
    ASSUME NEW file, IsSeq(file), NEW s, IsSeq(s), NEW at \in Nat,
           Piece(s, IvSize + at, Stream(file))
    PROVE  LET t == Decrypted(at, s)
           IN  /\ IsSeq(t) /\ Len(t) = Len(s)
               /\ \A i \in 1..Len(s) :
                      t[i] = IF at + i <= Len(file) THEN Data[at + i]
                             ELSE Byte("digest", file, at + i - Len(file))
<1> DEFINE t == Decrypted(at, s)
           x(i) == IF at + i <= Len(file) THEN Data[at + i]
                   ELSE Byte("digest", file, at + i - Len(file))
<1>1. IvSize \in Nat /\ Len(file) \in Nat /\ Len(s) \in Nat
    BY StreamAssumption, Lens
<1>2. ASSUME NEW i \in 1..Len(s) PROVE s[i] = Byte("cipher", x(i), at + i)
    <2>1. PICK j \in Nat : /\ j = IvSize + at + i /\ j > IvSize /\ j - IvSize = at + i
                           /\ j - IvSize - Len(file) = at + i - Len(file)
                           /\ j <= IvSize + Len(file) <=> at + i <= Len(file)
                           /\ j > IvSize + Len(file) <=> ~(at + i <= Len(file))
        BY <1>1
    <2>2. Stream(file)[j] = Byte("cipher", x(i), at + i)
        <3>1. CASE at + i <= Len(file)
            BY <2>1, <3>1, Places
        <3>2. CASE ~(at + i <= Len(file))
            BY <2>1, <3>2, Places
        <3> QED BY <3>1, <3>2
    <2> QED BY <2>1, <2>2 DEF Piece
<1> HIDE DEF x
<1>3. \A i \in 1..Len(s) : t[i] = x(i)
    BY <1>2, Decryption
<1> QED BY <1>3, Decryption DEF x

\* Up to the end of the file that is the file.
LEMMA RecoveredData ==
    ASSUME NEW file, IsSeq(file), NEW s, IsSeq(s), NEW at \in Nat, at + Len(s) <= Len(file),
           Piece(s, IvSize + at, Stream(file))
    PROVE  Piece(Decrypted(at, s), at, Data)
<1>1. Len(file) \in Nat /\ Len(s) \in Nat
    BY Lens
<1>2. \A i \in 1..Len(s) : at + i <= Len(file)
    BY <1>1
<1> QED BY <1>2, Recovered DEF Piece

\* A digest is recognized: if the end of what was decrypted is the digest of something,
\* it stands behind the end of the file, and the something is the file.
LEMMA Recognized ==
    ASSUME NEW file, IsSeq(file), NEW s, IsSeq(s), NEW at \in Nat,
           NEW n \in Nat, Len(s) = n + DigestSize, Piece(s, IvSize + at, Stream(file)),
           NEW x, Behind(Decrypted(at, s), n) = Digest(x)
    PROVE  x = file /\ at + n >= Len(file)
<1> DEFINE t == Decrypted(at, s)
<1>1. DigestSize \in Nat /\ DigestSize > 0 /\ Len(file) \in Nat
    BY StreamAssumption, Lens
<1>2. IsSeq(t) /\ Len(t) = n + DigestSize
    BY Recovered
<1>3. n + 1 \in 1..Len(s) /\ n \in 0..Len(s) /\ 1 \in 1..(Len(s) - n) /\ 1 \in 1..DigestSize
    BY <1>1
<1>4. t[n + 1] = Digest(x)[1]
    <2>1. n \in 0..Len(t) /\ 1 \in 1..(Len(t) - n)
        BY <1>1, <1>2
    <2> HIDE DEF t
    <2>2. Behind(t, n)[1] = t[n + 1]
        BY <1>2, <2>1, Cut
    <2> QED BY <2>2 DEF t
<1>5. t[n + 1] = Byte("digest", x, 1)
    BY <1>3, <1>4, Digests
<1>6. CASE at + (n + 1) <= Len(file)
    <2>0. at + (n + 1) \in Nat
        OBVIOUS
    <2>1. t[n + 1] = Data[at + (n + 1)]
        BY <1>3, <1>6, Recovered
    <2>2. t[n + 1] = Byte("data", <<>>, at + (n + 1))
        BY <2>0, <2>1 DEF Data
    <2> QED BY <1>5, <2>2 DEF Byte
<1>7. CASE ~(at + (n + 1) <= Len(file))
    <2>1. t[n + 1] = Byte("digest", file, at + (n + 1) - Len(file))
        BY <1>3, <1>7, Recovered
    <2>2. x = file
        BY <1>5, <2>1 DEF Byte
    <2> QED BY <1>1, <1>7, <2>2
<1> QED BY <1>6, <1>7

----------------------------------------------------------------------------
(* The sender's steps *)

\* The numbers are numbers.
Numbers ==
    /\ size \in Nat /\ read \in Nat /\ read <= size /\ size <= MaxFile
    /\ Len(fed) \in Nat /\ Len(out) \in Nat /\ Len(chan) \in Nat
    /\ Len(buffer) \in Nat /\ Len(digest) \in Nat /\ Len(written) \in Nat
    /\ sent \in Int /\ sent >= -1 /\ total \in Int /\ total >= -1 /\ fill \in Nat
    /\ IvSize \in Nat /\ DigestSize \in Nat /\ DigestSize > 0
    /\ ReadSize \in Nat /\ ReadSize > 2 * DigestSize
    /\ Capacity \in Nat /\ MaxFile \in Nat /\ MaxFaults \in Nat

LEMMA Nums == ASSUME StreamInv PROVE Numbers
<1>1. /\ Len(fed) \in Nat /\ Len(out) \in Nat /\ Len(chan) \in Nat
      /\ Len(buffer) \in Nat /\ Len(digest) \in Nat /\ Len(written) \in Nat
    BY Lens DEF StreamInv, Seqs
<1> QED BY <1>1, StreamAssumption DEF StreamInv, StreamTypes, Numbers

\* Bytes move from out to the connection, and keep their place.
LEMMA WriteKeeps ==
    ASSUME StreamInv, Write
    PROVE  StreamInv'
<1>0. Numbers
    BY Nums
<1> USE <1>0 DEF Numbers
<1>1. PICK n \in 1..Least(Len(out), Capacity - Len(chan)) :
          chan' = chan \o Front(out, n) /\ out' = Behind(out, n) /\ sent' = sent + n
    BY DEF Write
<1>2. /\ link = "open" /\ rpc \notin {"done", "undefined"} /\ out # <<>>
      /\ UNCHANGED <<secure, size, spc, read, fed, link, receiverVars, spoilt, faults>>
    BY DEF Write
<1>3. n \in 0..Len(out) /\ n + Len(chan) <= Capacity /\ n > 0
    BY <1>1 DEF Least
<1>4. /\ IsSeq(chan') /\ IsSeq(out') /\ Len(chan') = Len(chan) + n /\ Len(out') = Len(out) - n
      /\ \A f, at : at \in Nat /\ Piece(chan, at, f) /\ Piece(out, at + Len(chan), f) =>
             Piece(chan', at, f) /\ Piece(out', at + Len(chan) + n, f)
    <2>1. IsSeq(out) /\ IsSeq(chan)
        BY DEF StreamInv, Seqs
    <2>2. /\ IsSeq(Front(out, n)) /\ Len(Front(out, n)) = n
          /\ IsSeq(Behind(out, n)) /\ Len(Behind(out, n)) = Len(out) - n
          /\ \A f, at : at \in Nat /\ Piece(out, at, f) =>
                 Piece(Front(out, n), at, f) /\ Piece(Behind(out, n), at + n, f)
        BY <1>3, <2>1, Cut
    <2>3. /\ IsSeq(chan') /\ Len(chan') = Len(chan) + n
          /\ \A f, at : at \in Nat /\ Piece(chan, at, f) /\ Piece(Front(out, n), at + Len(chan), f) =>
                 Piece(chan', at, f)
        BY <1>1, <2>1, <2>2, Cat
    <2>4. ASSUME NEW f, NEW at, at \in Nat, Piece(chan, at, f), Piece(out, at + Len(chan), f)
          PROVE  Piece(chan', at, f) /\ Piece(out', at + Len(chan) + n, f)
        <3>1. at + Len(chan) \in Nat
            BY <2>4
        <3> QED BY <1>1, <2>2, <2>3, <2>4, <3>1
    <2> QED BY <1>1, <2>2, <2>3, <2>4
<1>5. spc \notin {"done", "dead"} /\ sent >= 0 /\ sent + Len(out) = Made /\ Made' = Made
    BY <1>2 DEF StreamInv, SenderInv, Made
<1>6. /\ Made <= IvSize + size + DigestSize
      /\ sent' >= 0 /\ sent' + Len(out') = Made
    <2>1. Made <= IvSize + size + DigestSize
        BY DEF Made
    <2> QED BY <1>1, <1>3, <1>4, <1>5, <2>1
<1>7. StreamTypes'
    <2>1. sent' \in -1..(IvSize + MaxFile + DigestSize)
        BY <1>1, <1>4, <1>6
    <2>2. Len(out') <= ReadSize \/ Len(out') <= IvSize
        BY <1>3, <1>4 DEF StreamInv, StreamTypes
    <2>3. Len(chan') <= Capacity
        BY <1>3, <1>4
    <2> QED BY <1>2, <2>1, <2>2, <2>3 DEF StreamInv, StreamTypes, receiverVars
<1>8. Seqs'
    BY <1>2, <1>4 DEF StreamInv, Seqs, receiverVars
<1>9. SenderInv'
    <2>1. spc' = spc /\ link' = "open" /\ (AllRead => AllRead')
        BY <1>2 DEF AllRead
    <2>2. ~(sent' < 0) /\ sent' + Len(out') = Made'
        BY <1>1, <1>5, <1>6
    <2> QED BY <1>2, <1>5, <2>1, <2>2 DEF StreamInv, SenderInv, Prefix
<1>10. ReceiverInv'
    BY <1>2 DEF StreamInv, ReceiverInv, Prefix, Live, receiverVars
<1>11. DecryptInv'
    <2> SUFFICES ASSUME Live PROVE DecryptInv'
        BY <1>2 DEF DecryptInv, Live, receiverVars
    <2>1. Taken \in Nat /\ Taken' = Taken /\ Base' = Base /\ Arrived = Taken + Len(chan)
          /\ Arrived' = Arrived + n
        <3>1. Taken \in Nat /\ Taken' = Taken /\ Base' = Base
            BY <1>2 DEF Taken, Base, receiverVars
        <3> QED BY <1>4, <3>1 DEF Arrived
    <2>2. /\ written = digest /\ total = Len(digest)
          /\ rpc = "iv" => Len(buffer) <= IvSize /\ digest = <<>>
          /\ rpc # "iv" => Len(buffer) <= ReadSize
          /\ Piece(buffer, Base, Stream(fed)) /\ Piece(chan, Taken, Stream(fed))
          /\ Piece(out, Arrived, Stream(fed)) /\ Arrived + Len(out) = Made
        BY <1>2 DEF StreamInv, DecryptInv
    <2>3. Piece(chan', Taken, Stream(fed)) /\ Piece(out', Arrived + n, Stream(fed))
        BY <1>4, <2>1, <2>2
    <2>4. Arrived' + Len(out') = Made
        BY <1>3, <1>4, <2>1, <2>2
    <2>5. /\ Made <= IvSize + read + DigestSize
          /\ Made > IvSize + read => spc = "digest"
        BY <1>5 DEF Made
    <2>6. Arrived' <= Made
        BY <1>3, <1>4, <2>1, <2>4
    <2>7. Arrived' <= IvSize + read + DigestSize /\ (Arrived' > IvSize + read => spc = "digest")
        BY <2>1, <2>5, <2>6 DEF Made
    <2>8. spc = "digest" => AllRead'
        BY <1>2 DEF StreamInv, SenderInv, AllRead
    <2> QED BY <1>2, <1>5, <2>1, <2>2, <2>3, <2>4, <2>7, <2>8 DEF DecryptInv, receiverVars
<1>12. CopyInv'
    <2> SUFFICES ASSUME rpc = "copy" PROVE CopyInv'
        BY <1>2 DEF CopyInv, receiverVars
    <2>1. total + Len(chan) + Len(out) = read /\ Len(written) <= total /\ 0 <= total /\ total \in Nat
        BY <1>2 DEF StreamInv, CopyInv
    <2>2. /\ total + Len(chan') + Len(out') = read /\ total + Len(chan') <= read
          /\ total + Len(chan') = total + Len(chan) + n
        <3>1. \A t, c, o, m, r \in Nat : t + c + o = r /\ m <= o =>
                  t + (c + m) + (o - m) = r /\ t + (c + m) <= r /\ t + (c + m) = t + c + m
            OBVIOUS
        <3>2. /\ n \in Nat /\ n <= Len(out)
              /\ Len(chan') = Len(chan) + n /\ Len(out') = Len(out) - n
            BY <1>3, <1>4
        <3> QED BY <2>1, <3>1, <3>2
    <2>3. ~spoilt => /\ Len(written) = total /\ Piece(written, 0, Data)
                     /\ Piece(chan', total, Data) /\ Piece(out', total + Len(chan'), Data)
        BY <1>2, <1>4, <2>1, <2>2 DEF StreamInv, CopyInv
    <2> QED BY <1>2, <2>1, <2>2, <2>3 DEF CopyInv, receiverVars
<1>13. DoneInv'
    BY <1>2 DEF DoneInv, receiverVars
<1> QED BY <1>7, <1>8, <1>9, <1>10, <1>11, <1>12, <1>13 DEF StreamInv

\* A sender that gives up, or goes on with nothing to write.
LEMMA SenderEnds ==
    ASSUME StreamInv, WriteFails \/ IvSent \/ DigestSent
    PROVE  StreamInv'
<1>0. Numbers
    BY Nums
<1> USE <1>0 DEF Numbers
<1>1. UNCHANGED <<secure, size, read, fed, link, chan, receiverVars, spoilt, faults>>
    BY DEF WriteFails, IvSent, DigestSent
<1>2. /\ IsSeq(out') /\ out' = <<>> /\ Len(out') = 0
      /\ WriteFails => link = "reset" \/ rpc \in {"done", "undefined"}
      /\ ~WriteFails => out' = out /\ sent' = sent
    BY Empty DEF WriteFails, IvSent, DigestSent
<1>3. /\ AllRead => AllRead'
      /\ spc' = "done" /\ sent' >= 0 => AllRead'
      /\ spc' = "dead" <=> spc = "dead"
    <2>1. AllRead => AllRead'
        BY <1>1 DEF WriteFails, IvSent, DigestSent, AllRead
    <2>2. spc' = "done" /\ sent' >= 0 => AllRead'
        <3>1. CASE WriteFails
            BY <1>1, <2>1, <3>1 DEF WriteFails, StreamInv, SenderInv, AllRead
        <3>2. CASE IvSent \/ DigestSent
            BY <1>1, <2>1, <3>2 DEF IvSent, DigestSent, StreamInv, SenderInv
        <3> QED BY <3>1, <3>2
    <2> QED BY <2>1, <2>2 DEF WriteFails, IvSent, DigestSent
<1>4. sent' >= 0 /\ spc # "dead" => sent' = Made'
    <2> SUFFICES ASSUME sent' >= 0, spc # "dead" PROVE sent' = Made'
        OBVIOUS
    <2>1. CASE WriteFails
        BY <1>1, <2>1 DEF WriteFails, StreamInv, SenderInv, Made
    <2>2. CASE IvSent \/ DigestSent
        BY <1>1, <2>2, Empty DEF IvSent, DigestSent, StreamInv, SenderInv, Made
    <2> QED BY <2>1, <2>2
<1>5. Made' <= IvSize + size + DigestSize
    BY <1>1 DEF Made
<1>6. StreamTypes'
    <2>1. sent' \in Int /\ sent' >= -1 /\ spc' \in {"iv", "read", "digest", "done", "dead"}
        BY <1>1 DEF WriteFails, IvSent, DigestSent, StreamInv, StreamTypes
    <2>2. sent' <= IvSize + MaxFile + DigestSize
        <3>1. CASE spc = "dead"
            BY <1>1, <3>1 DEF WriteFails, IvSent, DigestSent, StreamInv, StreamTypes
        <3>2. CASE spc # "dead"
            BY <1>4, <1>5, <2>1, <3>2
        <3> QED BY <3>1, <3>2
    <2>3. Len(out') <= ReadSize
        BY <1>2
    <2> QED BY <1>1, <2>1, <2>2, <2>3 DEF StreamInv, StreamTypes, receiverVars
<1>7. Seqs'
    BY <1>1, <1>2 DEF StreamInv, Seqs, receiverVars
<1>8. SenderInv'
    <2>1. spc' \in {"iv", "digest"} => spc' = spc
        BY DEF WriteFails, IvSent, DigestSent
    <2>2. spc' = "digest" => AllRead'
        BY <1>3, <2>1 DEF StreamInv, SenderInv
    <2>3. sent' < 0 => secure' /\ spc' = "done" /\ (link' = "reset" \/ rpc' \in {"done", "undefined"})
        <3>1. CASE WriteFails
            BY <1>1, <1>2, <3>1 DEF WriteFails, StreamInv, SenderInv, receiverVars
        <3>2. CASE IvSent \/ DigestSent
            BY <1>1, <1>2, <3>2 DEF IvSent, DigestSent, StreamInv, SenderInv, receiverVars
        <3> QED BY <3>1, <3>2
    <2>4. spc # "dead"
        BY DEF WriteFails, IvSent, DigestSent
    <2>5. sent' >= 0 => sent' + Len(out') = Made'
        BY <1>2, <1>4, <1>6, <2>4 DEF StreamTypes
    <2>6. Prefix(fed)' /\ Len(fed') = read' /\ (spc' = "iv" => read' = 0)
        BY <1>1, <2>1 DEF StreamInv, SenderInv, Prefix
    <2>7. (spc' \in {"iv", "digest"} => secure') /\ (link' = "reset" => chan' = <<>>)
        BY <1>1, <2>1 DEF StreamInv, SenderInv
    <2> QED BY <1>1, <1>2, <1>3, <2>2, <2>3, <2>4, <2>5, <2>6, <2>7 DEF StreamInv, SenderInv
<1>9. ReceiverInv'
    BY <1>1 DEF StreamInv, ReceiverInv, Prefix, Live, receiverVars
<1>10. DecryptInv'
    <2> SUFFICES ASSUME Live PROVE DecryptInv'
        BY <1>1 DEF DecryptInv, Live, receiverVars
    <2>1. Taken' = Taken /\ Base' = Base /\ Arrived' = Arrived
        BY <1>1 DEF Taken, Base, Arrived, receiverVars
    <2>2. link = "open" => Piece(out', Arrived, Stream(fed)) /\ Arrived + Len(out') = Made'
        <3> SUFFICES ASSUME link = "open" PROVE Arrived + Len(out') = Made'
            BY <1>2, Empty
        <3>1. ~WriteFails /\ out' = out /\ sent' = sent /\ spc # "dead"
            BY <1>2 DEF StreamInv, SenderInv, Live
        <3>2. Arrived + Len(out) = Made /\ sent >= 0
            BY DEF StreamInv, DecryptInv, SenderInv, Live
        <3> QED BY <1>2, <1>4, <3>1, <3>2 DEF StreamInv, SenderInv
    <2> QED BY <1>1, <1>3, <2>1, <2>2 DEF StreamInv, DecryptInv, receiverVars
<1>11. CopyInv'
    <2> SUFFICES ASSUME rpc = "copy" PROVE CopyInv'
        BY <1>1 DEF CopyInv, receiverVars
    <2>1. link = "open" => out' = out
        BY <1>2
    <2> QED BY <1>1, <2>1 DEF StreamInv, CopyInv, receiverVars
<1>12. DoneInv'
    <2>1. File' = File
        BY <1>1 DEF File
    <2> QED BY <1>1, <1>3, <2>1 DEF StreamInv, DoneInv, receiverVars
<1> QED BY <1>6, <1>7, <1>8, <1>9, <1>10, <1>11, <1>12 DEF StreamInv

\* More of the file is read, or it is at its end and the digest is made.
LEMMA ReadKeeps ==
    ASSUME StreamInv, Read
    PROVE  StreamInv'
<1>0. Numbers
    BY Nums
<1> USE <1>0 DEF Numbers
<1>1. PICK n \in 0..Least(ReadSize, size - read) :
          /\ \/ n = Least(ReadSize, size - read) /\ UNCHANGED <<spoilt, faults>>
             \/ /\ n < Least(ReadSize, size - read)
                /\ faults < MaxFaults
                /\ spoilt' = TRUE /\ faults' = faults + 1
          /\ read' = read + n
          /\ IF n = 0 THEN DataRead /\ UNCHANGED fed
             ELSE /\ fed' = fed \o SubSeq(File, read + 1, read + n)
                  /\ out' = IF secure THEN Encrypted(Len(fed), SubSeq(File, read + 1, read + n))
                                      ELSE SubSeq(File, read + 1, read + n)
                  /\ UNCHANGED spc
    BY DEF Read
<1>2. /\ spc = "read" /\ out = <<>> /\ Len(out) = 0
      /\ UNCHANGED <<secure, size, sent, link, chan, receiverVars>>
    BY Empty DEF Read
<1>3. n \in Nat /\ n <= ReadSize /\ read + n <= size /\ read' \in Nat
    BY <1>1 DEF Least
<1>4. PICK data : /\ data = SubSeq(File, read + 1, read + n)
                  /\ IsSeq(data) /\ Len(data) = n /\ Piece(data, read, Data)
    <2>1. IsSeq(SubSeq(File, read + 1, read + n)) /\ Len(SubSeq(File, read + 1, read + n)) = n
          /\ Piece(SubSeq(File, read + 1, read + n), read, Data)
        BY <1>3, FilePieces DEF StreamInv
    <2> QED BY <2>1
<1>5. IsSeq(fed) /\ Prefix(fed) /\ Len(fed) = read /\ ~AllRead /\ sent >= 0 /\ sent = Made
    <2>1. IsSeq(fed) /\ Prefix(fed) /\ Len(fed) = read /\ ~AllRead /\ sent >= 0
        BY <1>2 DEF StreamInv, Seqs, SenderInv, AllRead
    <2>2. sent + Len(out) = Made
        BY <1>2, <2>1 DEF StreamInv, SenderInv
    <2> QED BY <1>2, <2>1, <2>2
<1>6. IsSeq(fed') /\ Prefix(fed)' /\ Len(fed') = read'
    <2>1. CASE n = 0
        BY <1>1, <1>2, <1>5, <2>1 DEF Prefix
    <2>2. CASE n # 0
        <3>1. fed' = fed \o data
            BY <1>1, <1>4, <2>2
        <3>2. IsSeq(fed') /\ Len(fed') = read + n /\ Piece(fed', 0, Data)
            <4>1. Piece(fed, 0, Data) /\ Piece(data, 0 + Len(fed), Data)
                BY <1>4, <1>5 DEF Prefix
            <4> QED BY <1>4, <1>5, <3>1, <4>1, Cat
        <3> QED BY <1>1, <1>2, <1>3, <3>2 DEF Prefix
    <2> QED BY <2>1, <2>2
\* What is made now comes where the stream has ended before.
<1>7. /\ IsSeq(out') /\ Len(out') <= ReadSize
      /\ Made' = Made + Len(out')
      /\ secure => Piece(out', IvSize + read, Stream(fed'))
      /\ ~secure => Piece(out', read, Data)
    <2>1. CASE n = 0 /\ secure
        <3>1. out' = Encrypted(Len(fed), Digest(fed)) /\ spc' = "digest" /\ fed' = fed
            BY <1>1, <2>1 DEF DataRead
        <3>2. IsSeq(out') /\ Len(out') = DigestSize /\ Piece(out', IvSize + read, Stream(fed'))
            BY <1>5, <3>1, MadeDigest
        <3>3. Made' = IvSize + read + DigestSize /\ Made = IvSize + read
            BY <1>1, <1>2, <2>1, <3>1 DEF Made
        <3> QED BY <2>1, <3>2, <3>3
    <2>2. CASE n = 0 /\ ~secure
        <3>1. out' = <<>> /\ Made' = read /\ Made = read
            BY <1>1, <1>2, <2>2 DEF DataRead, Made
        <3> QED BY <2>2, <3>1, Empty
    <2>3. CASE n # 0 /\ secure
        <3>1. out' = Encrypted(read, data) /\ spc' = spc
            BY <1>1, <1>4, <1>5, <2>3
        <3>2. IsSeq(out') /\ Len(out') = n
            BY <1>4, <3>1, Encryption
        <3>3. read + Len(data) <= Len(fed')
            BY <1>1, <1>4, <1>6
        <3>4. Piece(out', IvSize + read, Stream(fed'))
            BY <1>4, <1>6, <3>1, <3>3, MadeData
        <3>5. Made' = IvSize + read + n /\ Made = IvSize + read
            BY <1>1, <1>2, <2>3, <3>1 DEF Made
        <3> QED BY <1>3, <2>3, <3>2, <3>4, <3>5
    <2>4. CASE n # 0 /\ ~secure
        <3>1. out' = data /\ Made' = read + n /\ Made = read
            BY <1>1, <1>2, <1>4, <2>4 DEF Made
        <3> QED BY <1>3, <1>4, <2>4, <3>1
    <2> QED BY <2>1, <2>2, <2>3, <2>4
<1>8. /\ spc' \in {"read", "digest", "done"}
      /\ spc' # "read" => n = 0 /\ AllRead'
      /\ spc' = "digest" => secure
      /\ spc' = "done" => out' = <<>>
    <2>1. /\ spc' \in {"read", "digest", "done"}
          /\ spc' # "read" => n = 0
          /\ spc' = "digest" => secure
          /\ spc' = "done" => out' = <<>>
        BY <1>1, <1>2 DEF DataRead
    <2>2. n = 0 => spoilt' \/ read' = size
        BY <1>1 DEF Least
    <2>3. size' = size
        BY <1>2
    <2> QED BY <2>1, <2>2, <2>3 DEF AllRead
<1>9. StreamTypes'
    <2>1. read' \in 0..size /\ Len(fed') <= size
        BY <1>1, <1>3, <1>6
    <2>2. spoilt' \in BOOLEAN /\ faults' \in 0..MaxFaults
        <3>1. spoilt \in BOOLEAN /\ faults \in 0..MaxFaults
            BY DEF StreamInv, StreamTypes
        <3>2. CASE UNCHANGED <<spoilt, faults>>
            BY <3>1, <3>2
        <3>3. CASE faults < MaxFaults /\ spoilt' = TRUE /\ faults' = faults + 1
            BY <3>1, <3>3
        <3> QED BY <1>1, <3>2, <3>3
    <2> QED BY <1>2, <1>7, <1>8, <2>1, <2>2 DEF StreamInv, StreamTypes, receiverVars
<1>10. Seqs'
    BY <1>2, <1>6, <1>7 DEF StreamInv, Seqs, receiverVars
<1>11. SenderInv'
    <2>1. sent' >= 0 /\ sent' + Len(out') = Made'
        BY <1>2, <1>5, <1>7
    <2>2. (spc' = "dead" <=> link' = "ended") /\ (link' = "reset" => chan' = <<>>)
        BY <1>2, <1>8 DEF StreamInv, SenderInv
    <2> QED BY <1>0, <1>2, <1>6, <1>8, <2>1, <2>2 DEF SenderInv
<1>12. ReceiverInv'
    BY <1>2 DEF StreamInv, ReceiverInv, Prefix, Live, receiverVars
<1>13. DecryptInv'
    <2> SUFFICES ASSUME Live PROVE DecryptInv'
        BY <1>2 DEF DecryptInv, Live, receiverVars
    <2>1. Taken' = Taken /\ Base' = Base /\ Arrived' = Arrived
        BY <1>2 DEF Taken, Base, Arrived, receiverVars
    <2>2. /\ Base \in Nat /\ Taken = Base + Len(buffer) /\ Taken \in Nat
          /\ Arrived = Taken + Len(chan) /\ Arrived \in Nat
        BY DEF Base, Taken, Arrived
    <2>3. Arrived <= IvSize + read /\ secure
        <3>1. ~(Arrived > IvSize + read) /\ secure
            BY <1>5 DEF StreamInv, DecryptInv, ReceiverInv
        <3> QED BY <2>2, <3>1
    <2>4. Len(fed) <= Len(fed') /\ IsSeq(buffer) /\ IsSeq(chan)
        BY <1>1, <1>5, <1>6 DEF StreamInv, Seqs
    <2>5. Base + Len(buffer) <= IvSize + Len(fed) /\ Taken + Len(chan) <= IvSize + Len(fed)
        BY <1>5, <2>2, <2>3
    <2>6. Piece(buffer, Base, Stream(fed')) /\ Piece(chan, Taken, Stream(fed'))
        <3>1. Piece(buffer, Base, Stream(fed)) /\ Piece(chan, Taken, Stream(fed))
            BY DEF StreamInv, DecryptInv
        <3> QED BY <1>5, <1>6, <2>2, <2>4, <2>5, <3>1, StreamGrows
    <2>7. Arrived <= IvSize + read' + DigestSize /\ ~(Arrived > IvSize + read')
        BY <1>1, <2>2, <2>3
    <2>8. link = "open" => Piece(out', Arrived, Stream(fed')) /\ Arrived + Len(out') = Made'
        <3> SUFFICES ASSUME link = "open"
                     PROVE  Piece(out', Arrived, Stream(fed')) /\ Arrived + Len(out') = Made'
            OBVIOUS
        <3>1. Arrived + Len(out) = Made
            BY DEF StreamInv, DecryptInv
        <3>2. Made = IvSize + read
            BY <1>2, <2>3 DEF Made
        <3>3. Arrived = IvSize + read
            BY <1>2, <2>2, <3>1, <3>2
        <3> QED BY <1>7, <2>3, <3>2, <3>3
    <2>9. /\ written = digest /\ total = Len(digest)
          /\ rpc = "iv" => Len(buffer) <= IvSize /\ digest = <<>>
          /\ rpc # "iv" => Len(buffer) <= ReadSize
        BY DEF StreamInv, DecryptInv
    <2> QED BY <1>2, <2>1, <2>6, <2>7, <2>8, <2>9 DEF DecryptInv, receiverVars
<1>14. CopyInv'
    <2> SUFFICES ASSUME rpc = "copy" PROVE CopyInv'
        BY <1>2 DEF CopyInv, receiverVars
    <2>1. ~secure /\ Len(written) <= total /\ 0 <= total /\ total + Len(chan) <= read
        BY DEF StreamInv, ReceiverInv, CopyInv
    <2>2. total + Len(chan) <= read'
        BY <1>1, <2>1
    <2>3. link = "open" => /\ total + Len(chan) = read
                           /\ total + Len(chan) + Len(out') = read'
        <3> SUFFICES ASSUME link = "open" PROVE total + Len(chan) = read /\ read + Len(out') = read'
            OBVIOUS
        <3>1. total + Len(chan) + Len(out) = read
            BY DEF StreamInv, CopyInv
        <3>2. Made' = read' /\ Made = read
            BY <1>2, <2>1 DEF Made
        <3> QED BY <1>2, <1>7, <3>1, <3>2
    <2>4. ~spoilt' /\ link = "open" =>
              /\ Len(written) = total /\ Piece(written, 0, Data) /\ Piece(chan, total, Data)
        BY <1>1 DEF StreamInv, CopyInv
    <2>5. link = "open" => Piece(out', total + Len(chan), Data)
        BY <1>7, <2>1, <2>3
    <2> QED BY <1>2, <2>1, <2>2, <2>3, <2>4, <2>5 DEF CopyInv, receiverVars
<1>15. DoneInv'
    <2>1. File' = File /\ (spoilt => spoilt')
        BY <1>1, <1>2 DEF File
    <2> QED BY <1>2, <1>5, <2>1 DEF StreamInv, DoneInv, receiverVars
<1> QED BY <1>9, <1>10, <1>11, <1>12, <1>13, <1>14, <1>15 DEF StreamInv

\* The connection or the sender is gone.
LEMMA LoseKeeps ==
    ASSUME StreamInv, Lose
    PROVE  StreamInv'
<1>0. Numbers
    BY Nums
<1> USE <1>0 DEF Numbers
<1>1. /\ link = "open" /\ spc # "done" /\ link' # "open"
      /\ UNCHANGED <<secure, size, read, fed, sent, receiverVars, spoilt>>
      /\ faults' \in 0..MaxFaults
    BY DEF Lose, StreamInv, StreamTypes
<1>2. /\ IsSeq(out') /\ IsSeq(chan') /\ Len(out') <= Len(out) /\ Len(out') \in Nat
      /\ Len(chan') <= Len(chan) /\ Len(chan') \in Nat
      /\ chan' = <<>> \/ chan' = chan
    BY Empty DEF Lose, StreamInv, Seqs
<1>3. /\ spc' \in {"iv", "read", "digest", "dead"} /\ link' \in {"reset", "ended"}
      /\ AllRead => AllRead'
      /\ spc' = "dead" <=> link' = "ended"
    BY <1>1 DEF Lose, StreamInv, StreamTypes, SenderInv, AllRead
<1>4. spc # "dead" /\ sent >= 0 /\ sent + Len(out) = Made
    BY <1>1 DEF StreamInv, SenderInv
<1>5. StreamTypes'
    BY <1>1, <1>2, <1>3 DEF StreamInv, StreamTypes, receiverVars
<1>6. Seqs'
    BY <1>1, <1>2 DEF StreamInv, Seqs, receiverVars
<1>7. SenderInv'
    <2>1. CASE spc' = spc
        <3>1. /\ out' = out /\ chan' = <<>>
            BY <1>1, <1>3, <1>4, <2>1 DEF Lose
        <3>2. Made' = Made
            BY <1>1, <2>1 DEF Made
        <3> QED BY <1>0, <1>1, <1>3, <1>4, <2>1, <3>1, <3>2 DEF StreamInv, SenderInv, Prefix
    <2>2. CASE spc' # spc
        <3>1. spc' = "dead" /\ out' = <<>>
            BY <1>1, <2>2 DEF Lose
        <3>2. sent <= Made' + DigestSize
            <4>1. Made <= Made' + DigestSize /\ Made \in Nat /\ Made' \in Nat
                BY <1>1, <3>1 DEF Made
            <4>2. sent + Len(out) = Made
                BY <1>4
            <4>3. \A m, o, l, d \in Nat : \A t \in Int : m <= o + d /\ t + l = m => t <= o + d
                OBVIOUS
            <4> QED BY <4>1, <4>2, <4>3
        <3>3. link' = "ended"
            BY <1>3, <3>1
        <3> QED BY <1>1, <1>4, <3>1, <3>2, <3>3 DEF StreamInv, SenderInv, Prefix
    <2> QED BY <2>1, <2>2
<1>8. ReceiverInv'
    BY <1>1 DEF StreamInv, ReceiverInv, Prefix, Live, receiverVars
<1>9. DecryptInv'
    <2> SUFFICES ASSUME Live PROVE DecryptInv'
        BY <1>1 DEF DecryptInv, Live, receiverVars
    <2>1. Taken' = Taken /\ Base' = Base /\ Taken \in Nat
        BY <1>1 DEF Taken, Base, receiverVars
    <2>2. Arrived' <= Arrived /\ Arrived \in Nat /\ Arrived' \in Nat
        BY <1>2, <2>1 DEF Arrived
    <2>3. Piece(chan', Taken, Stream(fed))
        BY <1>2, Empty DEF StreamInv, DecryptInv
    <2>4. Arrived <= IvSize + read + DigestSize /\ (Arrived > IvSize + read => AllRead)
        BY DEF StreamInv, DecryptInv
    <2>5. Arrived' <= IvSize + read + DigestSize /\ (Arrived' > IvSize + read => AllRead')
        BY <1>3, <2>2, <2>4
    <2> QED BY <1>1, <2>1, <2>3, <2>5 DEF StreamInv, DecryptInv, receiverVars
<1>10. CopyInv'
    BY <1>1, <1>2 DEF StreamInv, CopyInv, receiverVars
<1>11. DoneInv'
    BY <1>1, <1>3 DEF StreamInv, DoneInv, receiverVars
<1> QED BY <1>5, <1>6, <1>7, <1>8, <1>9, <1>10, <1>11 DEF StreamInv

----------------------------------------------------------------------------
(* The receiver's steps *)

\* What all steps of the receiver leave alone.
LEMMA SenderSame ==
    ASSUME StreamInv, UNCHANGED <<secure, size, senderVars, link>>,
           spoilt => spoilt', chan = <<>> => chan' = <<>>,
           rpc \in {"done", "undefined"} => rpc' \in {"done", "undefined"}
    PROVE  SenderInv' /\ Made' = Made /\ File' = File /\ (AllRead => AllRead')
<1>1. Made' = Made
    BY DEF Made, senderVars
<1>2. AllRead => AllRead'
    BY DEF AllRead, senderVars
<1> QED BY <1>1, <1>2 DEF StreamInv, SenderInv, Prefix, File, senderVars

\* Bytes move from the connection to the buffer, and keep their place.
LEMMA ReceiveKeeps ==
    ASSUME StreamInv, Receive
    PROVE  StreamInv'
<1>0. Numbers
    BY Nums
<1> USE <1>0 DEF Numbers
<1>1. PICK n \in 1..Least(Room, Len(chan)) :
          buffer' = buffer \o Front(chan, n) /\ fill' = fill + n /\ chan' = Behind(chan, n)
    BY DEF Receive
<1>2. /\ rpc \in {"iv", "fill"} /\ link # "reset" /\ rpc' = rpc
      /\ UNCHANGED <<secure, size, senderVars, link, rpc, digest, written, total, spoilt, faults>>
    BY DEF Receive
<1>3. /\ n \in 0..Len(chan) /\ n > 0
      /\ rpc = "iv" => Len(buffer) + n <= IvSize
      /\ rpc # "iv" => Len(buffer) + n <= ReadSize
    BY <1>1 DEF Least, Room
<1>4. /\ IsSeq(chan') /\ IsSeq(buffer')
      /\ Len(chan') = Len(chan) - n /\ Len(buffer') = Len(buffer) + n
      /\ \A f, at : at \in Nat /\ Piece(buffer, at, f) /\ Piece(chan, at + Len(buffer), f) =>
             Piece(buffer', at, f) /\ Piece(chan', at + Len(buffer) + n, f)
    <2>1. IsSeq(buffer) /\ IsSeq(chan)
        BY DEF StreamInv, Seqs
    <2>2. /\ IsSeq(Front(chan, n)) /\ Len(Front(chan, n)) = n
          /\ IsSeq(Behind(chan, n)) /\ Len(Behind(chan, n)) = Len(chan) - n
          /\ \A f, at : at \in Nat /\ Piece(chan, at, f) =>
                 Piece(Front(chan, n), at, f) /\ Piece(Behind(chan, n), at + n, f)
        BY <1>3, <2>1, Cut
    <2>3. /\ IsSeq(buffer') /\ Len(buffer') = Len(buffer) + n
          /\ \A f, at : at \in Nat /\ Piece(buffer, at, f) /\ Piece(Front(chan, n), at + Len(buffer), f) =>
                 Piece(buffer', at, f)
        BY <1>1, <2>1, <2>2, Cat
    <2>4. ASSUME NEW f, NEW at, at \in Nat, Piece(buffer, at, f), Piece(chan, at + Len(buffer), f)
          PROVE  Piece(buffer', at, f) /\ Piece(chan', at + Len(buffer) + n, f)
        <3>1. at + Len(buffer) \in Nat
            BY <2>4
        <3> QED BY <1>1, <2>2, <2>3, <2>4, <3>1
    <2> QED BY <1>1, <2>2, <2>3, <2>4
<1>5. StreamTypes'
    <2>1. Len(buffer') <= ReadSize \/ Len(buffer') <= IvSize
        BY <1>3, <1>4
    <2>2. fill' \in 0..Len(buffer') /\ Len(chan') <= Capacity
        BY <1>1, <1>3, <1>4 DEF StreamInv, StreamTypes
    <2> QED BY <1>2, <2>1, <2>2 DEF StreamInv, StreamTypes, senderVars
<1>6. Seqs'
    BY <1>2, <1>4 DEF StreamInv, Seqs, senderVars
<1>7. SenderInv' /\ Made' = Made /\ (AllRead => AllRead')
    <2>1. chan # <<>>
        BY <1>3, Empty
    <2> QED BY <1>2, <2>1, SenderSame
<1>8. ReceiverInv'
    BY <1>2 DEF StreamInv, ReceiverInv, Prefix, Live
<1>9. DecryptInv'
    <2>1. Base' = Base /\ Base \in Nat /\ Taken = Base + Len(buffer)
        BY <1>2 DEF Base, Taken
    <2>2. Taken' = Taken + n /\ Arrived' = Arrived
        BY <1>3, <1>4, <2>1 DEF Taken, Arrived
    <2>3. /\ written = digest /\ total = Len(digest) /\ (rpc = "iv" => digest = <<>>)
          /\ Piece(buffer, Base, Stream(fed)) /\ Piece(chan, Taken, Stream(fed))
          /\ Arrived <= IvSize + read + DigestSize
          /\ Arrived > IvSize + read => AllRead
          /\ link = "open" => Piece(out, Arrived, Stream(fed)) /\ Arrived + Len(out) = Made
        BY <1>2 DEF StreamInv, DecryptInv, Live
    <2>4. Piece(buffer', Base, Stream(fed)) /\ Piece(chan', Taken + n, Stream(fed))
        BY <1>4, <2>1, <2>3
    <2>5. /\ rpc = "iv" => Len(buffer') <= IvSize
          /\ rpc # "iv" => Len(buffer') <= ReadSize
        BY <1>3, <1>4
    <2> QED BY <1>2, <1>7, <2>1, <2>2, <2>3, <2>4, <2>5 DEF DecryptInv, senderVars
<1>10. CopyInv' /\ DoneInv'
    BY <1>2 DEF CopyInv, DoneInv
<1> QED BY <1>5, <1>6, <1>7, <1>8, <1>9, <1>10 DEF StreamInv

\* A receiver that gives up has written the beginning of the file.
LEMMA GivesUp ==
    ASSUME StreamInv, UNCHANGED <<secure, size, senderVars, link, chan>>, spoilt => spoilt',
           rpc' = "done", total' = -1, secure,
           IsSeq(buffer'), Len(buffer') <= ReadSize \/ Len(buffer') <= IvSize,
           fill' \in 0..Len(buffer'), IsSeq(digest'), Prefix(digest)', IsSeq(written'), Prefix(written)',
           spoilt' \in BOOLEAN, faults' \in 0..MaxFaults
    PROVE  StreamInv'
<1>0. Numbers
    BY Nums
<1> USE <1>0 DEF Numbers
<1>1. SenderInv'
    BY SenderSame
<1>2. Len(digest') \in Nat /\ Len(written') \in Nat /\ Len(digest') <= size /\ Len(written') <= size
    BY Lens DEF Prefix
<1>3. StreamTypes'
    BY <1>2 DEF StreamInv, StreamTypes, senderVars
<1>4. Seqs'
    BY DEF StreamInv, Seqs, senderVars
<1>5. ReceiverInv' /\ DecryptInv' /\ CopyInv' /\ DoneInv'
    BY DEF ReceiverInv, Live, DecryptInv, CopyInv, DoneInv
<1> QED BY <1>1, <1>3, <1>4, <1>5 DEF StreamInv

LEMMA IvKeeps ==
    ASSUME StreamInv, IvRead \/ ReceiveFails
    PROVE  StreamInv'
<1>0. Numbers
    BY Nums
<1> USE <1>0 DEF Numbers
<1>1. UNCHANGED <<secure, size, senderVars, link, chan, digest, written, spoilt, faults>>
    BY DEF IvRead, ReceiveFails
<1>2. secure /\ rpc \in {"iv", "fill"}
    BY DEF IvRead, ReceiveFails, StreamInv, ReceiverInv, Live
<1>3. CASE rpc' = "done"
    <2>1. total' = -1 /\ ((buffer' = <<>> /\ fill' = 0) \/ (buffer' = buffer /\ fill' = fill))
        BY <1>3 DEF IvRead, ReceiveFails
    <2>2. /\ IsSeq(buffer') /\ (Len(buffer') <= ReadSize \/ Len(buffer') <= IvSize)
          /\ fill' \in 0..Len(buffer')
        BY <2>1, Empty DEF StreamInv, Seqs, StreamTypes
    <2>3. /\ IsSeq(digest') /\ Prefix(digest)' /\ IsSeq(written') /\ Prefix(written)'
          /\ spoilt' \in BOOLEAN /\ faults' \in 0..MaxFaults
        BY <1>1, <1>2 DEF StreamInv, Seqs, StreamTypes, ReceiverInv, Prefix
    <2> QED BY <1>1, <1>2, <1>3, <2>1, <2>2, <2>3, GivesUp
<1>4. CASE rpc' # "done"
    <2>1. /\ rpc = "iv" /\ rpc' = "fill" /\ Len(buffer) = IvSize /\ total' = total
          /\ buffer' = <<>> /\ Len(buffer') = 0 /\ IsSeq(buffer') /\ fill' = 0
        BY <1>4, Empty DEF IvRead, ReceiveFails
    <2>2. StreamTypes'
        BY <1>1, <2>1 DEF StreamInv, StreamTypes, senderVars
    <2>3. Seqs'
        BY <1>1, <2>1 DEF StreamInv, Seqs, senderVars
    <2>4. SenderInv' /\ Made' = Made /\ (AllRead => AllRead')
        BY <1>1, <2>1, SenderSame
    <2>5. ReceiverInv'
        BY <1>1, <1>2, <2>1 DEF StreamInv, ReceiverInv, Prefix, Live
    <2>6. DecryptInv'
        <3>1. digest = <<>> /\ Len(digest) = 0
            BY <2>1, Empty DEF StreamInv, DecryptInv, Live
        <3>2. Base' = IvSize /\ Taken' = IvSize /\ Taken = IvSize /\ Arrived' = Arrived
            BY <1>1, <2>1, <3>1 DEF Base, Taken, Arrived
        <3>3. Piece(buffer', Base', Stream(fed'))
            BY <2>1, Empty
        <3>4. /\ written = digest /\ total = Len(digest) /\ Piece(chan, Taken, Stream(fed))
              /\ Arrived <= IvSize + read + DigestSize
              /\ Arrived > IvSize + read => AllRead
              /\ link = "open" => Piece(out, Arrived, Stream(fed)) /\ Arrived + Len(out) = Made
            BY <2>1 DEF StreamInv, DecryptInv, Live
        <3> QED BY <1>1, <2>1, <2>4, <3>2, <3>3, <3>4 DEF DecryptInv, senderVars
    <2>7. CopyInv' /\ DoneInv'
        BY <2>1 DEF CopyInv, DoneInv
    <2> QED BY <2>2, <2>3, <2>4, <2>5, <2>6, <2>7 DEF StreamInv
<1> QED BY <1>3, <1>4

\* More of the file is written, if what was decrypted is behind what was written.
LEMMA LongerPrefix ==
    ASSUME StreamInv, Live, NEW data, IsSeq(data), Piece(data, Len(digest), Data),
           Len(digest) + Len(data) <= size, NEW k \in 0..Len(data)
    PROVE  /\ IsSeq(digest \o data) /\ Len(digest \o data) = Len(digest) + Len(data)
           /\ Piece(digest \o data, 0, Data)
           /\ IsSeq(written \o Front(data, k)) /\ Len(written \o Front(data, k)) <= size
           /\ Piece(written \o Front(data, k), 0, Data)
<1>0. Numbers
    BY Nums
<1> USE <1>0 DEF Numbers
<1>1. written = digest /\ IsSeq(digest) /\ Piece(digest, 0, Data) /\ Len(data) \in Nat
    BY Lens DEF StreamInv, Seqs, ReceiverInv, Prefix, DecryptInv
<1>2. 0 + Len(digest) = Len(digest)
    OBVIOUS
<1>3. /\ IsSeq(Front(data, k)) /\ Len(Front(data, k)) = k /\ Piece(Front(data, k), Len(digest), Data)
    BY Cut
<1>4. /\ IsSeq(digest \o data) /\ Len(digest \o data) = Len(digest) + Len(data)
      /\ Piece(digest \o data, 0, Data)
    BY <1>1, <1>2, Cat
<1>5. /\ IsSeq(digest \o Front(data, k)) /\ Len(digest \o Front(data, k)) = Len(digest) + k
      /\ Piece(digest \o Front(data, k), 0, Data)
    BY <1>1, <1>2, <1>3, Cat
<1> QED BY <1>1, <1>4, <1>5

\* WriteAll, as far as it fails.
LEMMA WriteCutOff ==
    ASSUME StreamInv, Live, UNCHANGED <<secure, size, senderVars, link, chan>>,
           NEW data, IsSeq(data), Piece(data, Len(digest), Data),
           Len(digest) + Len(data) <= size, digest' = digest \o data,
           faults < MaxFaults, faults' = faults + 1, spoilt' = TRUE,
           \E n \in 0..(Len(data) - 1) : written' = written \o Front(data, n),
           rpc' = "done", total' = -1,
           IsSeq(buffer'), Len(buffer') <= ReadSize \/ Len(buffer') <= IvSize,
           fill' \in 0..Len(buffer')
    PROVE  StreamInv'
<1>0. Numbers
    BY Nums
<1>1. PICK n \in 0..(Len(data) - 1) : written' = written \o Front(data, n)
    OBVIOUS
<1>2. n \in 0..Len(data) /\ Len(data) \in Nat
    BY Lens
<1>3. /\ IsSeq(digest') /\ Len(digest') <= size /\ Piece(digest', 0, Data)
      /\ IsSeq(written') /\ Len(written') <= size /\ Piece(written', 0, Data)
    BY <1>1, <1>2, LongerPrefix
<1>4. Prefix(digest)' /\ Prefix(written)' /\ secure
    BY <1>3 DEF Prefix, StreamInv, ReceiverInv
<1>5. faults' \in 0..MaxFaults
    BY <1>0 DEF StreamInv, StreamTypes, Numbers
<1> QED BY <1>3, <1>4, <1>5, GivesUp

\* What was held back is enough to have no byte of the digest decrypted as data.
LEMMA RoundKeeps ==
    ASSUME StreamInv, DecryptRound
    PROVE  StreamInv'
<1>0. Numbers
    BY Nums
<1> USE <1>0 DEF Numbers
<1> DEFINE n == Len(buffer) - Held
           data == Decrypted(Len(digest), Front(buffer, n))
<1>1. /\ rpc = "fill" /\ secure /\ Live
      /\ UNCHANGED <<secure, size, senderVars, link, chan>> /\ fill' = 0
    BY DEF DecryptRound, Live, StreamInv, ReceiverInv
<1>2. Base = IvSize + Len(digest) /\ Base \in Nat /\ Taken = Base + Len(buffer) /\ Arrived = Taken + Len(chan)
    BY <1>1 DEF Base, Taken, Arrived
<1>3. /\ IsSeq(buffer) /\ IsSeq(fed) /\ Len(fed) = read /\ IsSeq(digest) /\ Prefix(digest)
      /\ written = digest /\ total = Len(digest) /\ Len(buffer) <= ReadSize
      /\ Piece(buffer, Base, Stream(fed)) /\ Piece(chan, Taken, Stream(fed))
      /\ Arrived <= IvSize + read + DigestSize
      /\ Arrived > IvSize + read => AllRead
      /\ link = "open" => Piece(out, Arrived, Stream(fed)) /\ Arrived + Len(out) = Made
    BY <1>1 DEF StreamInv, Seqs, SenderInv, ReceiverInv, DecryptInv, Live
<1>4. NextRound \in {"final", "fill"}
    BY DEF NextRound
\* Base and what is in the buffer and the connection together do not change.
<1>5. ASSUME rpc' \in {"final", "fill"}, IsSeq(buffer'), Len(buffer') <= ReadSize, Len(buffer') \in Nat,
             IsSeq(digest'), Prefix(digest)', written' = digest', total' = Len(digest'),
             Len(digest') + Len(buffer') = Len(digest) + Len(buffer),
             Piece(buffer', IvSize + Len(digest'), Stream(fed)), UNCHANGED <<spoilt, faults>>
      PROVE  StreamInv'
    <2>1. SenderInv' /\ Made' = Made /\ (AllRead => AllRead')
        BY <1>1, <1>5, SenderSame
    <2>2. Len(digest') \in Nat /\ Len(digest') <= size
        <3>1. Len(digest') \in Nat
            BY <1>5, Lens
        <3>2. Len(digest') <= size'
            BY <1>5 DEF Prefix
        <3> QED BY <1>1, <3>1, <3>2
    <2>3. Base' = IvSize + Len(digest') /\ Taken' = Taken /\ Arrived' = Arrived
        <3>1. Base' = IvSize + Len(digest') /\ Taken' = IvSize + Len(digest') + Len(buffer')
            BY <1>5 DEF Base, Taken
        <3>2. \A a, b, c, d, e \in Nat : a + b = c + d => e + a + b = e + c + d
            OBVIOUS
        <3>3. Len(digest') \in Nat /\ Len(buffer') \in Nat /\ Len(digest) \in Nat /\ Len(buffer) \in Nat
            BY <1>5, <2>2
        <3>4. Taken' = Taken
            <4>1. Taken = IvSize + Len(digest) + Len(buffer)
                BY <1>2
            <4>2. IvSize + Len(digest') + Len(buffer') = IvSize + Len(digest) + Len(buffer)
                BY <1>5, <3>2, <3>3
            <4> QED BY <3>1, <4>1, <4>2
        <3> QED BY <1>1, <3>1, <3>4 DEF Arrived
    <2>4. DecryptInv'
        BY <1>1, <1>3, <1>5, <2>1, <2>3 DEF DecryptInv, senderVars
    <2>5. StreamTypes'
        <3>1. fill' \in 0..Len(buffer')
            BY <1>1, <1>5
        <3>2. total' \in -1..(size' + DigestSize) /\ Len(digest') <= size' + DigestSize
            BY <1>1, <1>5, <2>2
        <3>3. Len(written') <= size' + DigestSize
            BY <1>5, <3>2
        <3>4. rpc' \in {"iv", "fill", "final", "copy", "done", "undefined"} /\ Len(buffer') <= ReadSize
            BY <1>5
        <3>5. /\ UNCHANGED <<secure, size, spc, read, fed, out, sent, link, chan, spoilt, faults>>
            BY <1>1, <1>5 DEF senderVars
        <3> HIDE DEF Numbers
        <3> QED BY <3>1, <3>2, <3>3, <3>4, <3>5 DEF StreamInv, StreamTypes
    <2>6. Seqs'
        BY <1>1, <1>5 DEF StreamInv, Seqs, senderVars
    <2>7. ReceiverInv' /\ CopyInv' /\ DoneInv'
        BY <1>1, <1>5 DEF ReceiverInv, CopyInv, DoneInv, Live, Prefix
    <2> QED BY <2>1, <2>4, <2>5, <2>6, <2>7 DEF StreamInv
<1>6. CASE n > 0
    <2>1. n \in 0..Len(buffer) /\ Len(digest) + n <= Len(fed) /\ n \in Nat
        BY <1>2, <1>3, <1>6 DEF Held
    <2>2. /\ IsSeq(Front(buffer, n)) /\ Len(Front(buffer, n)) = n
          /\ IsSeq(Behind(buffer, n)) /\ Len(Behind(buffer, n)) = Len(buffer) - n
          /\ Piece(Front(buffer, n), Base, Stream(fed))
          /\ Piece(Behind(buffer, n), Base + n, Stream(fed))
        BY <1>2, <1>3, <2>1, Cut
    <2>3. IsSeq(data) /\ Len(data) = n /\ Piece(data, Len(digest), Data)
        <3>1. Piece(Front(buffer, n), IvSize + Len(digest), Stream(fed))
            BY <1>2, <2>2
        <3> QED BY <1>3, <2>1, <2>2, <3>1, Decryption, RecoveredData
    <2> HIDE DEF data
    <2>4. digest' = digest \o data /\ buffer' = Behind(buffer, n)
        BY <1>6 DEF DecryptRound, data
    <2>5. WriteAll(data, NextRound, total + n)
        BY <1>6 DEF DecryptRound, data
    <2>6. Len(data) \in 0..Len(data) /\ Len(digest) + Len(data) <= size
        BY <1>3, <2>1, <2>3
    <2>7. /\ IsSeq(digest') /\ Len(digest') = Len(digest) + n /\ Piece(digest', 0, Data)
        BY <1>1, <2>3, <2>4, <2>6, LongerPrefix
    <2>8. CASE written' = written \o data /\ rpc' = NextRound /\ total' = total + n
               /\ UNCHANGED <<spoilt, faults>>
        <3>1. written' = digest' /\ total' = Len(digest')
            BY <1>3, <2>4, <2>7, <2>8
        <3> HIDE DEF n
        <3>0. \A iv, d, b, m \in Nat : m <= b =>
                  /\ iv + d + m = iv + (d + m) /\ (d + m) + (b - m) = d + b
                  /\ b - m \in Nat /\ b - m <= b
            OBVIOUS
        <3>2. Base + n = IvSize + Len(digest')
            BY <1>2, <2>1, <2>7, <3>0
        <3>3. Len(buffer') <= ReadSize /\ Len(buffer') \in Nat /\ IsSeq(buffer')
              /\ Len(digest') + Len(buffer') = Len(digest) + Len(buffer)
            <4>1. n <= Len(buffer) /\ Len(buffer') = Len(buffer) - n /\ IsSeq(buffer')
                BY <2>1, <2>2, <2>4
            <4>2. Len(buffer') \in Nat /\ Len(buffer') <= Len(buffer)
                BY <2>1, <3>0, <4>1
            <4>3. Len(buffer') <= ReadSize
                BY <1>3, <4>2
            <4> QED BY <2>1, <2>7, <3>0, <4>1, <4>2, <4>3
        <3>4. Prefix(digest)'
            BY <1>1, <2>3, <2>6, <2>7 DEF Prefix
        <3>5. Piece(buffer', IvSize + Len(digest'), Stream(fed))
            BY <2>2, <2>4, <3>2
        <3> QED BY <1>4, <1>5, <2>7, <2>8, <3>1, <3>3, <3>4, <3>5
    <2>9. CASE ~(written' = written \o data /\ rpc' = NextRound /\ total' = total + n
                 /\ UNCHANGED <<spoilt, faults>>)
        <3>1. /\ faults < MaxFaults /\ faults' = faults + 1 /\ spoilt' = TRUE
              /\ \E k \in 0..(Len(data) - 1) : written' = written \o Front(data, k)
              /\ rpc' = "done" /\ total' = -1
            BY <2>5, <2>9 DEF WriteAll
        <3>2. IsSeq(buffer') /\ Len(buffer') <= ReadSize /\ fill' \in 0..Len(buffer')
            <4>1. IsSeq(buffer') /\ Len(buffer') = Len(buffer) - n
                BY <2>2, <2>4
            <4> HIDE DEF n
            <4>2. Len(buffer') \in Nat /\ Len(buffer') <= ReadSize
                BY <1>3, <2>1, <4>1
            <4> QED BY <1>1, <4>1, <4>2
        <3> QED BY <1>1, <2>3, <2>4, <2>6, <3>1, <3>2, WriteCutOff
    <2> QED BY <2>8, <2>9
<1>7. CASE ~(n > 0)
    <2>1. rpc' = NextRound /\ UNCHANGED <<digest, buffer, written, total, spoilt, faults>>
        BY <1>7 DEF DecryptRound
    <2>2. Prefix(digest)'
        BY <1>1, <1>3, <2>1 DEF Prefix
    <2> QED BY <1>2, <1>3, <1>4, <1>5, <2>1, <2>2
<1> QED BY <1>6, <1>7

\* The digest is the one of the data only if the data is the file.
LEMMA FinalKeeps ==
    ASSUME StreamInv, DecryptFinal
    PROVE  StreamInv'
<1>0. Numbers
    BY Nums
<1> USE <1>0 DEF Numbers
<1> DEFINE n == Len(buffer) - DigestSize
           plain == Decrypted(Len(digest), buffer)
           data == Front(plain, n)
<1>1. /\ rpc = "final" /\ secure /\ Live /\ buffer' = <<>>
      /\ UNCHANGED <<secure, size, senderVars, link, chan, fill>>
    BY DEF DecryptFinal, Live, StreamInv, ReceiverInv
<1>2. Base = IvSize + Len(digest) /\ Taken = Base + Len(buffer) /\ Arrived = Taken + Len(chan)
    BY <1>1 DEF Base, Taken, Arrived
<1>3. /\ IsSeq(buffer) /\ IsSeq(fed) /\ Len(fed) = read /\ IsSeq(digest) /\ Prefix(digest)
      /\ written = digest /\ total = Len(digest) /\ fill = 0
      /\ Piece(buffer, IvSize + Len(digest), Stream(fed))
      /\ Arrived <= IvSize + read + DigestSize
      /\ Arrived > IvSize + read => AllRead
    <2>1. /\ IsSeq(buffer) /\ IsSeq(fed) /\ Len(fed) = read /\ IsSeq(digest) /\ Prefix(digest) /\ fill = 0
        BY <1>1 DEF StreamInv, Seqs, SenderInv, ReceiverInv
    <2>2. /\ written = digest /\ total = Len(digest)
          /\ Piece(buffer, Base, Stream(fed))
          /\ Arrived <= IvSize + read + DigestSize
          /\ Arrived > IvSize + read => AllRead
        BY <1>1 DEF StreamInv, DecryptInv
    <2> QED BY <1>2, <2>1, <2>2
<1>4. IsSeq(buffer') /\ Len(buffer') = 0 /\ fill' \in 0..Len(buffer') /\ Len(buffer') <= ReadSize
    BY <1>1, <1>3, Empty
<1>5. CASE n < 0
    <2>1. rpc' = "undefined" /\ UNCHANGED <<digest, written, total, spoilt, faults>>
        BY <1>5 DEF DecryptFinal
    <2>2. SenderInv'
        BY <1>1, <2>1, SenderSame
    <2>3. StreamTypes'
        BY <1>1, <1>4, <2>1 DEF StreamInv, StreamTypes, senderVars
    <2>4. Seqs'
        BY <1>1, <1>4, <2>1 DEF StreamInv, Seqs, senderVars
    <2>5. ReceiverInv' /\ DecryptInv' /\ CopyInv' /\ DoneInv'
        BY <1>1, <1>3, <2>1 DEF StreamInv, ReceiverInv, DecryptInv, CopyInv, DoneInv, Live, Prefix
    <2> QED BY <2>2, <2>3, <2>4, <2>5 DEF StreamInv
<1>6. CASE ~(n < 0)
    <2>1. n \in Nat /\ n \in 0..Len(buffer) /\ Len(digest) + n <= read
        BY <1>2, <1>3, <1>6
    <2>2. IsSeq(plain) /\ Len(plain) = Len(buffer)
        BY <1>3, Decryption
    <2>3. IsSeq(data) /\ Len(data) = n /\ Piece(data, Len(digest), Data)
        <3>1. IsSeq(data) /\ Len(data) = n /\ \A i \in 1..n : data[i] = plain[i]
            BY <2>1, <2>2, Cut
        <3>2. \A i \in 1..n : i \in 1..Len(buffer) /\ Len(digest) + i <= Len(fed)
            BY <1>3, <2>1
        <3>3. \A i \in 1..n : plain[i] = Data[Len(digest) + i]
            BY <1>3, <3>2, Recovered
        <3> QED BY <3>1, <3>3 DEF Piece
    <2>4. digest' = digest \o data /\ WriteAll(data, "done", Result(data, Behind(plain, n)))
        BY <1>6 DEF DecryptFinal
    <2>5. Len(buffer) = n + DigestSize
        OBVIOUS
    <2> HIDE DEF data, n
    <2>6. Len(data) \in 0..Len(data) /\ Len(digest) + Len(data) <= size
        BY <2>1, <2>3
    <2>7. IsSeq(digest') /\ Len(digest') = Len(digest) + n /\ Piece(digest', 0, Data)
        BY <1>1, <2>3, <2>4, <2>6, LongerPrefix
    <2>8. CASE /\ written' = written \o data /\ rpc' = "done"
               /\ total' = Result(data, Behind(plain, n)) /\ UNCHANGED <<spoilt, faults>>
        <3>1. written' = digest' /\ IsSeq(written')
            BY <1>3, <2>4, <2>7, <2>8
        <3>2. CASE Behind(plain, n) = Digest(digest \o data)
            <4>1. digest \o data = fed /\ Len(digest) + n >= Len(fed)
                <5>1. Behind(Decrypted(Len(digest), buffer), n) = Digest(digest \o data)
                    BY <3>2
                <5> HIDE DEF plain, Numbers
                <5>2. Len(digest) \in Nat /\ n \in Nat
                    BY <1>3, <2>1, Lens
                <5>3. PICK x : x = digest \o data
                    OBVIOUS
                <5>4. /\ IsSeq(fed) /\ IsSeq(buffer) /\ Piece(buffer, IvSize + Len(digest), Stream(fed))
                      /\ Behind(Decrypted(Len(digest), buffer), n) = Digest(x)
                    BY <1>3, <5>1, <5>3
                <5>5. x = fed /\ Len(digest) + n >= Len(fed)
                    BY <2>5, <5>2, <5>4, Recognized
                <5> QED BY <5>3, <5>5
            <4>2. written' = fed /\ total' = Len(written')
                <5>1. total' = total + Len(data)
                    BY <2>8, <3>2 DEF Result
                <5> QED BY <1>3, <2>3, <2>4, <2>7, <3>1, <4>1, <5>1
            <4>3. AllRead
                <5>1. Arrived > IvSize + read
                    <6>1. \A iv, d, m, r, g, c \in Nat : d + m >= r /\ g > 0 =>
                              iv + d + (m + g) + c > iv + r
                        OBVIOUS
                    <6>2. DigestSize > 0 /\ n \in Nat /\ Len(digest) + n >= read
                        BY <1>3, <2>1, <4>1, StreamAssumption
                    <6> QED BY <1>2, <2>5, <6>1, <6>2
                <5> QED BY <1>3, <5>1
            <4>4. SenderInv' /\ AllRead'
                BY <1>1, <2>8, <4>3, SenderSame
            <4>5. Len(digest') \in Nat /\ Len(digest') <= size /\ total' = Len(digest')
                BY <2>1, <2>3, <2>6, <2>7, <3>1, <4>2
            <4>6. StreamTypes'
                BY <1>1, <1>4, <2>8, <3>1, <4>5 DEF StreamInv, StreamTypes, senderVars
            <4>7. Seqs'
                BY <1>1, <1>4, <2>7, <3>1 DEF StreamInv, Seqs, senderVars
            <4>8. Prefix(digest)' /\ Prefix(written)'
                BY <1>1, <2>7, <3>1, <4>5 DEF Prefix
            <4>9. ReceiverInv' /\ DecryptInv' /\ CopyInv'
                BY <1>1, <2>8, <4>8 DEF ReceiverInv, DecryptInv, CopyInv, Live
            <4>10. DoneInv'
                BY <1>1, <4>2, <4>4, <4>5 DEF DoneInv, senderVars
            <4> QED BY <4>4, <4>6, <4>7, <4>9, <4>10 DEF StreamInv
        <3>3. CASE Behind(plain, n) # Digest(digest \o data)
            <4>1. total' = -1
                BY <2>8, <3>3 DEF Result
            <4>2. Prefix(digest)' /\ Prefix(written)'
                BY <1>1, <2>3, <2>6, <2>7, <3>1 DEF Prefix
            <4>3. spoilt' \in BOOLEAN /\ faults' \in 0..MaxFaults
                BY <2>8 DEF StreamInv, StreamTypes
            <4> QED BY <1>1, <1>4, <2>7, <2>8, <3>1, <4>1, <4>2, <4>3, GivesUp
        <3> QED BY <3>2, <3>3
    <2>9. CASE ~(/\ written' = written \o data /\ rpc' = "done"
                 /\ total' = Result(data, Behind(plain, n)) /\ UNCHANGED <<spoilt, faults>>)
        <3>1. /\ faults < MaxFaults /\ faults' = faults + 1 /\ spoilt' = TRUE
              /\ \E k \in 0..(Len(data) - 1) : written' = written \o Front(data, k)
              /\ rpc' = "done" /\ total' = -1
            BY <2>4, <2>9 DEF WriteAll
        <3> QED BY <1>1, <1>4, <2>3, <2>4, <2>6, <3>1, WriteCutOff
    <2> QED BY <2>8, <2>9
<1> QED BY <1>5, <1>6

\* Transfer takes what comes, and an error for the end.
LEMMA CopyKeeps ==
    ASSUME StreamInv, Copy
    PROVE  StreamInv'
<1>0. Numbers
    BY Nums
<1> USE <1>0 DEF Numbers
<1>1. PICK n \in 1..Least(ReadSize, Len(chan)) :
          /\ chan' = Behind(chan, n) /\ total' = total + n
          /\ \/ written' = written \o Front(chan, n) /\ UNCHANGED <<spoilt, faults>>
             \/ /\ faults < MaxFaults /\ faults' = faults + 1 /\ spoilt' = TRUE
                /\ \E k \in 0..(n - 1) : written' = written \o Front(chan, k)
    BY DEF Copy
<1>2. /\ rpc = "copy" /\ ~secure
      /\ UNCHANGED <<secure, size, senderVars, link, rpc, buffer, fill, digest>>
    BY DEF Copy, StreamInv, ReceiverInv
<1>3. n \in 0..Len(chan) /\ n \in Nat /\ n > 0
    BY <1>1 DEF Least
<1>4. PICK k \in 0..n : /\ written' = written \o Front(chan, k)
                        /\ \/ k = n /\ UNCHANGED <<spoilt, faults>>
                           \/ faults < MaxFaults /\ faults' = faults + 1 /\ spoilt' = TRUE
    <2>1. CASE written' = written \o Front(chan, n) /\ UNCHANGED <<spoilt, faults>>
        <3>1. n \in 0..n
            BY <1>3
        <3> QED BY <2>1, <3>1
    <2>2. ASSUME faults < MaxFaults, faults' = faults + 1, spoilt' = TRUE,
                 NEW j \in 0..(n - 1), written' = written \o Front(chan, j)
          PROVE  \E i \in 0..n : /\ written' = written \o Front(chan, i)
                                 /\ faults < MaxFaults /\ faults' = faults + 1 /\ spoilt' = TRUE
        <3>1. j \in 0..n
            BY <1>3
        <3> QED BY <2>2, <3>1
    <2> QED BY <1>1, <2>1, <2>2
<1>5. /\ IsSeq(chan') /\ Len(chan') = Len(chan) - n
      /\ IsSeq(Front(chan, k)) /\ Len(Front(chan, k)) = k
      /\ \A f, at : at \in Nat /\ Piece(chan, at, f) =>
             Piece(Front(chan, k), at, f) /\ Piece(chan', at + n, f)
    <2>1. IsSeq(chan) /\ k \in 0..Len(chan)
        BY <1>3 DEF StreamInv, Seqs
    <2> QED BY <1>1, <1>3, <2>1, Cut
<1>6. /\ IsSeq(written') /\ Len(written') = Len(written) + k
      /\ \A f, at : at \in Nat /\ Piece(written, at, f) /\ Piece(Front(chan, k), at + Len(written), f) =>
             Piece(written', at, f)
    <2>1. IsSeq(written)
        BY DEF StreamInv, Seqs
    <2> QED BY <1>4, <1>5, <2>1, Cat
<1>7. /\ Len(written) <= total /\ 0 <= total /\ total + Len(chan) <= read
      /\ link = "open" => total + Len(chan) + Len(out) = read
      /\ ~spoilt /\ link = "open" =>
             /\ Len(written) = total /\ Piece(written, 0, Data)
             /\ Piece(chan, total, Data) /\ Piece(out, total + Len(chan), Data)
    BY <1>2 DEF StreamInv, CopyInv
<1>8. /\ Len(written') <= total' /\ 0 <= total' /\ total' + Len(chan') = total + Len(chan)
      /\ total' \in Nat /\ total' <= size /\ Len(written') <= size /\ Len(written') \in Nat
    <2>1. k \in Nat /\ k <= n /\ n <= Len(chan) /\ total \in Nat /\ total + Len(chan) <= read
        BY <1>3, <1>4, <1>7
    <2>2. \A t, c, m, j, w, r, z \in Nat : m <= c /\ j <= m /\ w <= t /\ t + c <= r /\ r <= z =>
              /\ w + j <= t + m /\ (t + m) + (c - m) = t + c /\ t + m <= z /\ w + j <= z
              /\ t + m \in Nat /\ w + j \in Nat
        OBVIOUS
    <2>3. read <= size
        BY DEF StreamInv, StreamTypes
    <2>4. total' = total + n /\ Len(chan') = Len(chan) - n /\ Len(written') = Len(written) + k
        BY <1>1, <1>5, <1>6
    <2> QED BY <1>3, <1>7, <2>1, <2>2, <2>3, <2>4
<1>9. spoilt' \in BOOLEAN /\ faults' \in 0..MaxFaults /\ (spoilt => spoilt')
      /\ (~spoilt' => k = n /\ ~spoilt)
    <2>1. spoilt \in BOOLEAN /\ faults \in 0..MaxFaults
        BY DEF StreamInv, StreamTypes
    <2>2. CASE k = n /\ UNCHANGED <<spoilt, faults>>
        BY <2>1, <2>2
    <2>3. CASE faults < MaxFaults /\ faults' = faults + 1 /\ spoilt' = TRUE
        <3>1. faults' \in 0..MaxFaults
            BY <2>1, <2>3
        <3> QED BY <2>3, <3>1
    <2> QED BY <1>4, <2>2, <2>3
<1>10. SenderInv'
    <2>1. chan # <<>>
        BY <1>3, Empty
    <2> QED BY <1>2, <1>9, <2>1, SenderSame
<1>11. CopyInv'
    <2>1. total' + Len(chan') <= read /\ (link = "open" => total' + Len(chan') + Len(out) = read)
        BY <1>7, <1>8
    <2>2. ASSUME ~spoilt', link = "open"
          PROVE  /\ Len(written') = total' /\ Piece(written', 0, Data)
                 /\ Piece(chan', total', Data) /\ Piece(out, total' + Len(chan'), Data)
        <3>1. /\ k = n /\ Len(written) = total /\ Piece(written, 0, Data)
              /\ Piece(chan, total, Data) /\ Piece(out, total + Len(chan), Data) /\ total \in Nat
            BY <1>7, <1>9, <2>2
        <3>2. Piece(Front(chan, k), total, Data) /\ Piece(chan', total + n, Data)
            BY <1>5, <3>1
        <3>3. 0 + Len(written) = total
            BY <3>1
        <3>4. Piece(written', 0, Data)
            BY <1>6, <3>1, <3>2, <3>3
        <3> QED BY <1>1, <1>6, <1>8, <3>1, <3>2, <3>4
    <2> QED BY <1>2, <1>8, <2>1, <2>2 DEF CopyInv, senderVars
<1>12. StreamTypes'
    <2>1. Len(chan') <= Capacity
        BY <1>3, <1>5 DEF StreamInv, StreamTypes
    <2>2. Len(written') <= size' + DigestSize /\ total' \in -1..(size' + DigestSize)
        BY <1>2, <1>8
    <2>3. UNCHANGED <<secure, size, spc, read, fed, out, sent, link, rpc, buffer, fill, digest>>
        BY <1>2 DEF senderVars
    <2> HIDE DEF Numbers
    <2> QED BY <1>9, <2>1, <2>2, <2>3 DEF StreamInv, StreamTypes
<1>13. Seqs'
    BY <1>2, <1>5, <1>6 DEF StreamInv, Seqs, senderVars
<1>14. ReceiverInv'
    BY <1>2, <1>8 DEF StreamInv, ReceiverInv, Live, Prefix
<1>15. DecryptInv' /\ DoneInv'
    BY <1>2 DEF DecryptInv, DoneInv, Live
<1> QED BY <1>10, <1>11, <1>12, <1>13, <1>14, <1>15 DEF StreamInv

LEMMA CopyEndKeeps ==
    ASSUME StreamInv, CopyEnd
    PROVE  StreamInv'
<1>0. Numbers
    BY Nums
<1> USE <1>0 DEF Numbers
<1>1. /\ rpc = "copy" /\ ~secure /\ rpc' = "done" /\ (AtEnd \/ link = "reset")
      /\ UNCHANGED <<secure, size, senderVars, link, chan, buffer, fill, digest, written, total,
                     spoilt, faults>>
    BY DEF CopyEnd, StreamInv, ReceiverInv
<1>2. SenderInv' /\ File' = File
    BY <1>1, SenderSame
<1>3. StreamTypes' /\ Seqs'
    BY <1>1 DEF StreamInv, StreamTypes, Seqs, senderVars
<1>4. ReceiverInv' /\ DecryptInv' /\ CopyInv'
    BY <1>1 DEF StreamInv, ReceiverInv, DecryptInv, CopyInv, Live, Prefix
<1>5. total <= size
    BY <1>1 DEF StreamInv, CopyInv
<1>6. ASSUME ~spoilt, link = "open" PROVE written = File /\ total = size
    <2>1. chan = <<>> /\ out = <<>> /\ spc = "done" /\ sent >= 0
        BY <1>1, <1>6 DEF AtEnd, StreamInv, SenderInv
    <2>2. read = size
        BY <1>6, <2>1 DEF StreamInv, SenderInv, AllRead
    <2>3. /\ total + Len(chan) + Len(out) = read /\ Len(written) = total /\ Piece(written, 0, Data)
          /\ IsSeq(written)
        BY <1>1, <1>6 DEF StreamInv, CopyInv, Seqs
    <2>4. total = size
        BY <2>1, <2>2, <2>3, Empty
    <2>5. IsSeq(File) /\ Len(File) = size /\ Piece(File, 0, Data)
        BY FilePieces DEF StreamInv
    <2> QED BY <2>3, <2>4, <2>5, SameSeq
<1>7. DoneInv'
    BY <1>1, <1>2, <1>5, <1>6 DEF DoneInv
<1> QED BY <1>2, <1>3, <1>4, <1>7 DEF StreamInv

----------------------------------------------------------------------------
(* The theorems *)

\* The inductive invariant: every byte is at its place.
THEOREM StreamInvariant == StreamSpec => []StreamInv
<1>1. StreamInit => StreamInv
    <2> SUFFICES ASSUME StreamInit PROVE StreamInv
        OBVIOUS
    <2> USE StreamAssumption
    <2>1. /\ secure \in BOOLEAN /\ size \in 0..MaxFile /\ read = 0 /\ sent = 0 /\ fill = 0 /\ total = 0
          /\ fed = <<>> /\ chan = <<>> /\ buffer = <<>> /\ digest = <<>> /\ written = <<>>
          /\ link = "open" /\ spoilt = FALSE /\ faults = 0 /\ size \in Nat
          /\ spc = (IF secure THEN "iv" ELSE "read") /\ rpc = (IF secure THEN "iv" ELSE "copy")
        BY DEF StreamInit
    <2>2. /\ IsSeq(<<>>) /\ Len(<<>>) = 0 /\ \A at, f : Piece(<<>>, at, f)
          /\ IsSeq(Iv) /\ Len(Iv) = IvSize /\ Piece(Iv, 0, Stream(<<>>))
        BY Empty, MadeIv
    <2>3. out = IF secure THEN Iv ELSE <<>>
        BY DEF StreamInit
    <2>4. IsSeq(out) /\ Len(out) = (IF secure THEN IvSize ELSE 0) /\ Made = Len(out)
        BY <2>1, <2>2, <2>3 DEF Made
    <2>5. StreamTypes
        <3>1. /\ read \in 0..size /\ Len(fed) <= size /\ Len(chan) <= Capacity /\ Len(buffer) <= ReadSize
              /\ fill \in 0..Len(buffer) /\ faults \in 0..MaxFaults
            BY <2>1, <2>2
        <3>2. /\ sent \in -1..(IvSize + MaxFile + DigestSize) /\ total \in -1..(size + DigestSize)
              /\ Len(digest) <= size + DigestSize /\ Len(written) <= size + DigestSize
            BY <2>1, <2>2
        <3>3. Len(out) <= ReadSize \/ Len(out) <= IvSize
            BY <2>4
        <3>4. /\ spc \in {"iv", "read", "digest", "done", "dead"}
              /\ rpc \in {"iv", "fill", "final", "copy", "done", "undefined"}
            BY <2>1
        <3> QED BY <2>1, <3>1, <3>2, <3>3, <3>4 DEF StreamTypes
    <2>6. Seqs
        BY <2>1, <2>2, <2>4 DEF Seqs
    <2>7. SenderInv
        BY <2>1, <2>2, <2>4 DEF SenderInv, Prefix
    <2>8. ReceiverInv
        BY <2>1, <2>2 DEF ReceiverInv, Prefix, Live
    <2>9. DecryptInv
        <3>1. CASE secure
            <4>1. Base = 0 /\ Taken = 0 /\ Arrived = 0
                BY <2>1, <2>2, <3>1 DEF Base, Taken, Arrived
            <4> QED BY <2>1, <2>2, <2>3, <2>4, <3>1, <4>1 DEF DecryptInv
        <3>2. CASE ~secure
            BY <2>1, <3>2 DEF DecryptInv, Live
        <3> QED BY <3>1, <3>2
    <2>10. CopyInv /\ DoneInv
        BY <2>1, <2>2, <2>3 DEF CopyInv, DoneInv
    <2> QED BY <2>5, <2>6, <2>7, <2>8, <2>9, <2>10 DEF StreamInv
<1>2. StreamInv /\ [StreamNext]_streamVars => StreamInv'
    <2> SUFFICES ASSUME StreamInv, [StreamNext]_streamVars PROVE StreamInv'
        OBVIOUS
    <2>1. CASE UNCHANGED streamVars
        <3>1. SenderInv' /\ Made' = Made /\ File' = File /\ (AllRead => AllRead')
            BY <2>1, SenderSame DEF streamVars, receiverVars
        <3>2. Base' = Base /\ Taken' = Taken /\ Arrived' = Arrived
            BY <2>1 DEF streamVars, receiverVars, Base, Taken, Arrived
        <3>3. StreamTypes' /\ Seqs' /\ ReceiverInv'
            BY <2>1 DEF streamVars, senderVars, receiverVars, StreamInv, StreamTypes, Seqs, ReceiverInv, Prefix, Live
        <3>4. DecryptInv'
            BY <2>1, <3>1, <3>2 DEF streamVars, senderVars, receiverVars, StreamInv, DecryptInv, Live
        <3>5. CopyInv' /\ DoneInv'
            BY <2>1, <3>1 DEF streamVars, senderVars, receiverVars, StreamInv, CopyInv, DoneInv
        <3> QED BY <3>1, <3>3, <3>4, <3>5 DEF StreamInv
    <2>2. CASE Sender
        BY <2>2, WriteKeeps, SenderEnds, ReadKeeps DEF Sender
    <2>3. CASE Receiver
        BY <2>3, ReceiveKeeps, IvKeeps, RoundKeeps, FinalKeeps, CopyKeeps, CopyEndKeeps DEF Receiver
    <2>4. CASE Lose
        BY <2>4, LoseKeeps
    <2> QED BY <2>1, <2>2, <2>3, <2>4 DEF StreamNext
<1> QED BY <1>1, <1>2, PTL DEF StreamSpec

\* Buffers are never filled beyond their end and counters are what they count.
THEOREM StreamTypeOK == StreamSpec => []StreamTypes
<1>1. StreamInv => StreamTypes
    BY DEF StreamInv
<1> QED BY <1>1, StreamInvariant, PTL

\* Whatever the sizes of buffers, digest and file, and wherever reads, writes and the
\* connection break off: what Decrypt writes is the beginning of the file, and what it
\* reports as done is the file, or what its sender could read of it.
THEOREM StreamDelivered == StreamSpec => []Delivered
<1>1. StreamInv => Delivered
    <2> SUFFICES ASSUME StreamInv PROVE Delivered
        OBVIOUS
    <2>0. Numbers
        BY Nums
    <2>1. IsSeq(File) /\ Len(File) = size /\ Piece(File, 0, Data)
        BY FilePieces DEF StreamInv
    <2>2. ASSUME NEW s, IsSeq(s), Prefix(s) PROVE s = Front(File, Len(s))
        <3>1. Len(s) \in 0..Len(File)
            BY <2>0, <2>1, <2>2, Lens DEF Prefix, Numbers
        <3>2. /\ IsSeq(Front(File, Len(s))) /\ Len(Front(File, Len(s))) = Len(s)
              /\ Piece(Front(File, Len(s)), 0, Data)
            BY <2>1, <3>1, Cut
        <3> QED BY <2>2, <3>2, SameSeq DEF Prefix
    <2>3. OnlyData
        BY <2>2 DEF OnlyData, StreamInv, ReceiverInv, Prefix, Seqs
    <2>4. DoneWhole
        <3> SUFFICES ASSUME rpc = "done", total >= 0
                     PROVE  /\ secure => written = fed /\ total = Len(written)
                            /\ ~spoilt /\ (secure \/ link = "open") => written = File /\ total = size
            BY DEF DoneWhole
        <3>1. CASE secure
            <4>1. written = fed /\ total = Len(written) /\ (spoilt \/ read = size)
                BY <3>1 DEF StreamInv, DoneInv, AllRead
            <4>2. IsSeq(fed) /\ Piece(fed, 0, Data) /\ Len(fed) = read
                BY DEF StreamInv, Seqs, SenderInv, Prefix
            <4>3. read = size => fed = File
                BY <2>1, <4>2, SameSeq
            <4> QED BY <3>1, <4>1, <4>2, <4>3
        <3>2. CASE ~secure
            BY <3>2 DEF StreamInv, DoneInv
        <3> QED BY <3>1, <3>2
    <2> QED BY <2>3, <2>4 DEF Delivered
<1> QED BY <1>1, StreamInvariant, PTL

==============================================================================

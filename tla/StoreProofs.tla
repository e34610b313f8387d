----------------------------- MODULE StoreProofs -----------------------------
(***************************************************************************)
(* Proofs about module Store, in three parts: what Save and Load do to the *)
(* bags of the archive (KInv), what everybody does to the entry a loop     *)
(* over Find stands at (FInv), and what a Load brings back (RInv).         *)
(***************************************************************************)
EXTENDS Store, SequenceTheorems, FiniteSetTheorems, TLAPS

\* What RemoveAt leaves: everything in front of i, and what was behind it one
\* place further up.
LEMMA RemoveAtFacts ==
    ASSUME NEW S, NEW s \in Seq(S), NEW i \in DOMAIN s
    PROVE  /\ SX!RemoveAt(s, i) \in Seq(S)
           /\ Len(SX!RemoveAt(s, i)) = Len(s) - 1
           /\ \A k \in 1..(Len(s) - 1) :
                 SX!RemoveAt(s, i)[k] = IF k < i THEN s[k] ELSE s[k + 1]
<1> DEFINE f == SubSeq(s, 1, i - 1)
           b == SubSeq(s, i + 1, Len(s))
<1>0. i \in 1..Len(s) /\ Len(s) \in Nat
    OBVIOUS
<1>1. f \in Seq(S) /\ Len(f) = i - 1 /\ \A k \in 1..(i - 1) : f[k] = s[k]
    <2>1. \A k \in 1..(i - 1) : s[k] \in S
        BY <1>0
    <2>2. 1 \in Int /\ i - 1 \in Int
        BY <1>0
    <2> QED BY <1>0, <2>1, <2>2, SubSeqProperties
<1>2. b \in Seq(S) /\ Len(b) = Len(s) - i /\ \A k \in 1..(Len(s) - i) : b[k] = s[i + k]
    <2>1. \A k \in (i + 1)..Len(s) : s[k] \in S
        BY <1>0
    <2>2. i + 1 \in Int /\ Len(s) \in Int
        BY <1>0
    <2>3. /\ b \in Seq(S)
          /\ Len(b) = IF i + 1 <= Len(s) THEN Len(s) - (i + 1) + 1 ELSE 0
          /\ \A k \in 1..(Len(s) - (i + 1) + 1) : b[k] = s[(i + 1) + k - 1]
        BY <2>1, <2>2, SubSeqProperties
    <2>4. \A k \in 1..(Len(s) - i) : (i + 1) + k - 1 = i + k
        BY <1>0
    <2>5. Len(s) - (i + 1) + 1 = Len(s) - i
        BY <1>0
    <2> QED BY <1>0, <2>3, <2>4, <2>5
<1> DEFINE g == SX!RemoveAt(s, i)
<1>3. g = f \o b
    BY DEF SX!RemoveAt
<1> HIDE DEF f, b, g
<1>4. /\ g \in Seq(S)
      /\ Len(g) = Len(f) + Len(b)
      /\ \A k \in 1..(Len(f) + Len(b)) : g[k] = IF k <= Len(f) THEN f[k] ELSE b[k - Len(f)]
    BY <1>1, <1>2, <1>3, ConcatProperties
<1>5. Len(g) = Len(s) - 1
    BY <1>0, <1>1, <1>2, <1>4
<1>6. ASSUME NEW k \in 1..(Len(s) - 1)
      PROVE  g[k] = IF k < i THEN s[k] ELSE s[k + 1]
    <2>1. k \in 1..(Len(f) + Len(b)) /\ k \in Int /\ i \in Int
        BY <1>0, <1>1, <1>2
    <2>2. CASE k < i
        <3>1. k <= Len(f) /\ k \in 1..(i - 1)
            BY <1>0, <1>1, <2>1, <2>2
        <3> QED BY <1>1, <1>4, <2>1, <2>2, <3>1
    <2>3. CASE ~(k < i)
        <3>1. ~(k <= Len(f)) /\ k - Len(f) \in 1..(Len(s) - i) /\ i + (k - Len(f)) = k + 1
            BY <1>0, <1>1, <2>1, <2>3
        <3>2. g[k] = b[k - Len(f)]
            BY <1>4, <2>1, <3>1
        <3>3. b[k - Len(f)] = s[k + 1]
            BY <1>2, <3>1
        <3> QED BY <2>3, <3>2, <3>3
    <2> QED BY <2>2, <2>3
<1> QED BY <1>4, <1>5, <1>6 DEF g

\* A step that appends an entry appends one of the right type at an address
\* that nothing in the list uses.
LEMMA AppendFacts ==
    ASSUME entries \in Seq(Entry), NEW type \in Types, NEW body \in Bodies,
           NEW key \in Bodies \cup {None}, NEW lab \in Labels \cup {None},
           AppendEntry(type, body, key, lab)
    PROVE  \E e \in Entry :
              /\ e.type = type
              /\ e.body = body
              /\ e.key = key
              /\ e.label = lab
              /\ e.ptr \notin PtrsIn(entries)
              /\ entries' = Append(entries, e)
              /\ entries' \in Seq(Entry)
<1>1. PICK p \in Ptrs \ PtrsIn(entries) :
          entries' = Append(entries, [ptr |-> p, type |-> type, body |-> body,
                                      key |-> key, label |-> lab])
    BY DEF AppendEntry
<1> DEFINE e == [ptr |-> p, type |-> type, body |-> body, key |-> key, label |-> lab]
<1>2. e \in Entry
    BY DEF Entry
<1>3. Append(entries, e) \in Seq(Entry)
    BY <1>2, AppendProperties
<1> QED BY <1>1, <1>2, <1>3

----------------------------------------------------------------------------
(* Keys stay with their certificates. *)

\* In an archive a key bag follows the certificate it belongs to.
KeyOrder(bs) ==
    \A i \in DOMAIN bs :
        bs[i].kind = "key" =>
            i > 1 /\ bs[i - 1].kind = "cert" /\ bs[i - 1].body = bs[i].body

\* What Import has still to read is in that order behind the certificate that
\* waits.
ImportOrder ==
    \A i \in DOMAIN bags :
        bags[i].kind = "key" =>
            \/ i = 1 /\ cert = bags[i].body
            \/ i > 1 /\ bags[i - 1].kind = "cert" /\ bags[i - 1].body = bags[i].body

\* The archive on the medium, the one being exported and the one being imported
\* are in order; no bags are left over from one call for the next.
BagInv ==
    /\ medium \notin {Absent, Torn} => KeyOrder(medium)
    /\ pc \in {"pack", "delete", "write"} => KeyOrder(bags)
    /\ pc \in {"idle", "export", "read"} => bags = <<>>
    /\ pc # "import" => cert = None
    /\ pc = "import" => ImportOrder
    /\ pc = "pack" => at >= 1

KInv == TypeOK /\ BagInv /\ KeyMatches

\* Appending an entry whose key is its own, or that has none, keeps KeyMatches.
LEMMA AppendKeyMatches ==
    ASSUME entries \in Seq(Entry), KeyMatches, NEW type \in Types, NEW body \in Bodies,
           NEW key \in Bodies \cup {None}, NEW lab \in Labels \cup {None},
           AppendEntry(type, body, key, lab),
           key # None => type = "IDENTITY" /\ key = body
    PROVE  entries' \in Seq(Entry) /\ KeyMatches'
<1>1. PICK e \in Entry :
          /\ e.type = type
          /\ e.body = body
          /\ e.key = key
          /\ entries' = Append(entries, e)
          /\ entries' \in Seq(Entry)
    BY AppendFacts
<1>2. /\ Len(entries') = Len(entries) + 1
      /\ \A i \in 1..Len(entries) : entries'[i] = entries[i]
      /\ entries'[Len(entries) + 1] = e
    BY <1>1, AppendProperties
<1>3. DOMAIN entries = 1..Len(entries) /\ DOMAIN entries' = 1..Len(entries')
    BY <1>1
<1>4. ASSUME NEW i \in DOMAIN entries'
      PROVE  entries'[i].key # None =>
                entries'[i].type = "IDENTITY" /\ entries'[i].key = entries'[i].body
    <2>1. i \in 1..Len(entries) \/ i = Len(entries) + 1
        BY <1>2, <1>3
    <2> QED BY <1>1, <1>2, <1>3, <2>1 DEF KeyMatches
<1> QED BY <1>1, <1>4 DEF KeyMatches

\* The bags of an entry whose key is its own are in order.
LEMMA BagsOfOrder ==
    ASSUME NEW e \in Entry, e.key # None => e.key = e.body
    PROVE  BagsOf(e) \in Seq(Bag) /\ KeyOrder(BagsOf(e))
<1> DEFINE b == [kind |-> "cert", body |-> e.body, label |-> e.label]
           k == [kind |-> "key", body |-> e.key, label |-> None]
           x == [b EXCEPT !.kind = "secret"]
<1>1. CASE e.type # "IDENTITY"
    <2>1. BagsOf(e) = <<x>>
        BY <1>1 DEF BagsOf
    <2>2. x \in Bag /\ x.kind = "secret"
        BY DEF Bag, Entry
    <2> HIDE DEF x
    <2> QED BY <2>1, <2>2 DEF KeyOrder
<1>2. CASE e.type = "IDENTITY" /\ e.key = None
    <2>1. BagsOf(e) = <<b>>
        BY <1>2 DEF BagsOf
    <2>2. b \in Bag /\ b.kind = "cert"
        BY DEF Bag, Entry
    <2> HIDE DEF b
    <2> QED BY <2>1, <2>2 DEF KeyOrder
<1>3. CASE e.type = "IDENTITY" /\ e.key # None
    <2>1. BagsOf(e) = <<b, k>>
        BY <1>3 DEF BagsOf
    <2>2. b \in Bag /\ b.kind = "cert" /\ k \in Bag /\ k.kind = "key" /\ k.body = b.body
        BY <1>3 DEF Bag, Entry
    <2> HIDE DEF b, k
    <2> QED BY <2>1, <2>2 DEF KeyOrder
<1> QED BY <1>1, <1>2, <1>3

\* Archives in order, one after the other, are an archive in order.
LEMMA ConcatOrder ==
    ASSUME NEW s1 \in Seq(Bag), NEW s2 \in Seq(Bag), KeyOrder(s1), KeyOrder(s2)
    PROVE  s1 \o s2 \in Seq(Bag) /\ KeyOrder(s1 \o s2)
<1> DEFINE c == s1 \o s2
<1>1. /\ c \in Seq(Bag)
      /\ Len(c) = Len(s1) + Len(s2)
      /\ \A i \in 1..(Len(s1) + Len(s2)) :
            c[i] = IF i <= Len(s1) THEN s1[i] ELSE s2[i - Len(s1)]
    BY ConcatProperties
<1> HIDE DEF c
<1>2. /\ DOMAIN c = 1..Len(c)
      /\ DOMAIN s1 = 1..Len(s1)
      /\ DOMAIN s2 = 1..Len(s2)
      /\ Len(s1) \in Nat
      /\ Len(s2) \in Nat
    BY <1>1
<1>3. ASSUME NEW i \in DOMAIN c, c[i].kind = "key"
      PROVE  i > 1 /\ c[i - 1].kind = "cert" /\ c[i - 1].body = c[i].body
    <2>1. CASE i <= Len(s1)
        <3>1. i \in DOMAIN s1 /\ c[i] = s1[i]
            BY <1>1, <1>2, <2>1
        <3>2. i > 1 /\ s1[i - 1].kind = "cert" /\ s1[i - 1].body = s1[i].body
            BY <1>3, <3>1 DEF KeyOrder
        <3>3. c[i - 1] = s1[i - 1]
            BY <1>1, <1>2, <2>1, <3>2
        <3> QED BY <3>1, <3>2, <3>3
    <2>2. CASE i > Len(s1)
        <3> DEFINE j == i - Len(s1)
        <3>1. j \in DOMAIN s2 /\ c[i] = s2[j]
            BY <1>1, <1>2, <2>2
        <3>2. j > 1 /\ s2[j - 1].kind = "cert" /\ s2[j - 1].body = s2[j].body
            BY <1>3, <3>1 DEF KeyOrder
        <3>3. i > 1 /\ i - 1 \in 1..(Len(s1) + Len(s2)) /\ ~(i - 1 <= Len(s1))
              /\ (i - 1) - Len(s1) = j - 1
            BY <1>1, <1>2, <2>2, <3>2
        <3>4. c[i - 1] = s2[j - 1]
            BY <1>1, <3>3
        <3> QED BY <3>1, <3>2, <3>3, <3>4
    <2> QED BY <1>2, <2>1, <2>2
<1> QED BY <1>1, <1>3 DEF KeyOrder, c

\* RemoveAt leaves only entries that were there.
LEMMA RemoveKeyMatches ==
    ASSUME entries \in Seq(Entry), KeyMatches, NEW i \in DOMAIN entries,
           entries' = SX!RemoveAt(entries, i)
    PROVE  entries' \in Seq(Entry) /\ KeyMatches'
<1>1. /\ entries' \in Seq(Entry)
      /\ Len(entries') = Len(entries) - 1
      /\ \A k \in 1..(Len(entries) - 1) :
            entries'[k] = IF k < i THEN entries[k] ELSE entries[k + 1]
    BY RemoveAtFacts
<1>2. ASSUME NEW k \in DOMAIN entries'
      PROVE  \E j \in DOMAIN entries : entries'[k] = entries[j]
    <2>1. k \in 1..(Len(entries) - 1) /\ Len(entries) \in Nat
        BY <1>1
    <2>2. k \in DOMAIN entries /\ k + 1 \in DOMAIN entries
        BY <2>1
    <2> QED BY <1>1, <2>1, <2>2
<1> QED BY <1>1, <1>2 DEF KeyMatches

\* A call is counted, and what a loop over Find forgets leaves its state typed.
LEMMA CallTypes ==
    ASSUME TypeOK, Call
    PROVE  calls' \in Nat
BY DEF TypeOK, Call

LEMMA ForgetTypes ==
    ASSUME TypeOK, NEW ptrs, Forget(ptrs)
    PROVE  /\ want' \in Types \cup {"ALL", None}
           /\ from' \in Ptrs \cup {None}
           /\ todo' \in SUBSET Ptrs
           /\ done' \in SUBSET Ptrs
           /\ cut' \in BOOLEAN
BY DEF TypeOK, Forget

\* A turn of Import's loop that leaves the certificate it met waiting leaves
\* the bags behind it in order.
LEMMA TailOrder ==
    ASSUME bags \in Seq(Bag), bags # <<>>, ImportOrder, bags' = Tail(bags),
           Head(bags).kind = "cert" => cert' = Head(bags).body
    PROVE  bags' \in Seq(Bag) /\ ImportOrder'
<1>1. /\ bags' \in Seq(Bag)
      /\ Len(bags') = Len(bags) - 1
      /\ \A i \in 1..Len(bags') : bags'[i] = bags[i + 1]
    BY HeadTailProperties
<1>2. DOMAIN bags = 1..Len(bags) /\ DOMAIN bags' = 1..Len(bags') /\ Len(bags) \in Nat
    BY <1>1
<1>3. Head(bags) = bags[1]
    OBVIOUS
<1>4. ASSUME NEW i \in DOMAIN bags', bags'[i].kind = "key"
      PROVE  \/ i = 1 /\ cert' = bags'[i].body
             \/ i > 1 /\ bags'[i - 1].kind = "cert" /\ bags'[i - 1].body = bags'[i].body
    <2>1. i + 1 \in DOMAIN bags /\ i + 1 # 1 /\ (i + 1) - 1 = i /\ bags'[i] = bags[i + 1]
        BY <1>1, <1>2
    <2>2. bags[i].kind = "cert" /\ bags[i].body = bags'[i].body
        BY <1>4, <2>1 DEF ImportOrder
    <2>3. CASE i = 1
        BY <1>3, <2>2, <2>3
    <2>4. CASE i # 1
        <3>1. i > 1 /\ i - 1 \in 1..Len(bags') /\ (i - 1) + 1 = i
            BY <1>2, <2>4
        <3> QED BY <1>1, <2>2, <3>1
    <2> QED BY <2>3, <2>4
<1> QED BY <1>1, <1>4 DEF ImportOrder

\* Every step keeps the archives in order and keys with their certificates.
LEMMA StepKeepsKInv ==
    ASSUME KInv, [Next]_vars
    PROVE  KInv'
<1> USE DEF KInv
<1>e. Len(<<>>) = 0 /\ <<>> \in Seq(Entry) /\ <<>> \in Seq(Bag)
    OBVIOUS
<1>1. CASE Insert
    <2>1. PICK body \in Bodies, lab \in Labels \cup {None} :
              \/ InsertIdentity(body, body, lab)
              \/ InsertIdentity(body, None, lab)
              \/ InsertData(body, lab)
        BY <1>1 DEF Insert
    <2>2. \E type \in Types, key \in Bodies \cup {None} :
              /\ AppendEntry(type, body, key, lab)
              /\ key # None => type = "IDENTITY" /\ key = body
        BY <2>1 DEF InsertIdentity, InsertData, Types
    <2>3. entries' \in Seq(Entry) /\ KeyMatches'
        BY <2>2, AppendKeyMatches DEF TypeOK
    <2>4. /\ calls' \in Nat
          /\ quiet' \in BOOLEAN
          /\ UNCHANGED <<registry, mediumVars, callVars, findVars>>
        BY <1>1, CallTypes DEF Insert
    <2>5. TypeOK'
        BY <2>3, <2>4 DEF TypeOK, mediumVars, callVars, findVars
    <2>6. BagInv'
        BY <2>4 DEF BagInv, ImportOrder, mediumVars, callVars
    <2> QED BY <2>3, <2>5, <2>6
<1>2. ASSUME NEW type \in Types, NEW body \in Bodies, Remove(type, body)
      PROVE  KInv'
    <2>1. PICK i \in DOMAIN entries :
              entries' = SX!RemoveAt(entries, i) /\ Forget({entries[i].ptr})
        BY <1>2 DEF Remove
    <2>2. entries' \in Seq(Entry) /\ KeyMatches'
        BY <2>1, RemoveKeyMatches DEF TypeOK
    <2>3. TypeOK'
        BY <1>2, <2>1, <2>2, CallTypes, ForgetTypes DEF Remove, TypeOK, mediumVars, callVars
    <2>4. BagInv'
        BY <1>2 DEF Remove, BagInv, ImportOrder, mediumVars, callVars
    <2> QED BY <2>2, <2>3, <2>4
<1>3. CASE Find
    <2>1. UNCHANGED <<registry, entries, mediumVars, callVars, quiet, calls>>
        BY <1>3 DEF Find, FindStart, FindNext, FindNull
    <2>2. /\ want' \in Types \cup {"ALL", None}
          /\ from' \in Ptrs \cup {None}
          /\ todo' \in SUBSET Ptrs
          /\ done' \in SUBSET Ptrs
          /\ cut' \in BOOLEAN
        <3>1. \A i \in DOMAIN entries : entries[i].ptr \in Ptrs
            <4>1. \A i \in DOMAIN entries : entries[i] \in Entry
                BY DEF TypeOK
            <4> QED BY <4>1 DEF Entry
        <3>2. ASSUME NEW type \in Wanted, FindStart(type) PROVE <2>2!:
            BY <3>1, <3>2, StoreAssumption DEF FindStart
        <3>3. CASE FindNext
            BY <3>1, <3>3 DEF FindNext, Hits, TypeOK
        <3>4. CASE FindNull
            BY <3>4 DEF FindNull, FindOver
        <3> QED BY <1>3, <3>2, <3>3, <3>4 DEF Find
    <2>3. TypeOK'
        BY <2>1, <2>2 DEF TypeOK, mediumVars, callVars
    <2>4. BagInv' /\ KeyMatches'
        BY <2>1 DEF BagInv, ImportOrder, KeyMatches, mediumVars, callVars
    <2> QED BY <2>3, <2>4
<1>4. CASE SaveOpen
    <2>1. TypeOK'
        BY <1>4, <1>e, CallTypes DEF SaveOpen, TypeOK, mediumVars, callVars, findVars
    <2>2. BagInv' /\ KeyMatches'
        BY <1>4, <1>e DEF SaveOpen, BagInv, ImportOrder, KeyMatches, mediumVars, callVars
    <2> QED BY <2>1, <2>2
<1>5. CASE ExportLock
    <2>1. TypeOK'
        BY <1>5 DEF ExportLock, TypeOK, mediumVars, findVars
    <2>2. KeyOrder(<<>>)
        BY DEF KeyOrder
    <2>3. BagInv' /\ KeyMatches'
        BY <1>5, <2>2 DEF ExportLock, BagInv, KeyMatches, mediumVars
    <2> QED BY <2>1, <2>3
<1>6. CASE ExportEntry
    <2>1. at \in Nat /\ entries \in Seq(Entry)
        BY DEF TypeOK
    <2>2. at \in DOMAIN entries
        BY <1>6, <2>1 DEF ExportEntry, BagInv
    <2>3. entries[at] \in Entry /\ (entries[at].key # None => entries[at].key = entries[at].body)
        BY <2>1, <2>2 DEF KeyMatches
    <2>4. bags' \in Seq(Bag) /\ KeyOrder(bags')
        BY <1>6, <2>3, BagsOfOrder, ConcatOrder DEF ExportEntry, TypeOK, BagInv
    <2>5. at' \in Nat /\ at' >= 1
        BY <1>6, <2>1 DEF ExportEntry
    <2>6. TypeOK'
        BY <1>6, <2>4, <2>5 DEF ExportEntry, TypeOK, mediumVars, findVars
    <2>7. BagInv' /\ KeyMatches'
        BY <1>6, <2>4, <2>5 DEF ExportEntry, BagInv, KeyMatches, mediumVars
    <2> QED BY <2>6, <2>7
<1>7. CASE ExportUnlock
    BY <1>7 DEF ExportUnlock, TypeOK, BagInv, KeyMatches, mediumVars, findVars
<1>8. CASE SaveDelete
    BY <1>8 DEF SaveDelete, TypeOK, BagInv, KeyMatches, findVars
<1>9. CASE SaveWrite
    BY <1>9, <1>e DEF SaveWrite, TypeOK, BagInv, KeyMatches, findVars
<1>10. CASE LoadDestroy
    <2>1. TypeOK'
        BY <1>10, <1>e, CallTypes, ForgetTypes DEF LoadDestroy, TypeOK, mediumVars, callVars, findVars
    <2>2. BagInv' /\ KeyMatches'
        BY <1>10, <1>e DEF LoadDestroy, BagInv, ImportOrder, KeyMatches, mediumVars, callVars
    <2> QED BY <2>1, <2>2
<1>11. CASE LoadRead
    <2>1. TypeOK' /\ KeyMatches'
        BY <1>11 DEF LoadRead, TypeOK, KeyMatches, mediumVars, findVars
    <2>2. ImportOrder'
        BY <1>11 DEF LoadRead, BagInv, KeyOrder, ImportOrder
    <2>3. BagInv'
        BY <1>11, <2>2 DEF LoadRead, BagInv, mediumVars
    <2> QED BY <2>1, <2>3
<1>12. CASE LoadFails
    BY <1>12 DEF LoadFails, TypeOK, BagInv, KeyMatches, mediumVars, findVars
<1>13. CASE ImportCert
    <2> DEFINE b == Head(bags)
               lab == IF b.kind = "key" THEN label ELSE b.label
               key == IF b.kind = "key" THEN b.body ELSE None
    <2>1. bags # <<>> /\ cert \in Bodies /\ pc = "import" /\ ImportOrder
        BY <1>13 DEF ImportCert, TypeOK, BagInv
    <2>2. b \in Bag /\ b = bags[1] /\ 1 \in DOMAIN bags
        BY <2>1 DEF TypeOK
    <2>3. b.body \in Bodies /\ b.label \in Labels \cup {None} /\ lab \in Labels \cup {None}
        BY <2>2 DEF Bag, TypeOK
    <2>4. b.kind = "key" => b.body = cert
        BY <2>1, <2>2 DEF ImportOrder
    <2>5. /\ AppendEntry("IDENTITY", cert, key, lab)
          /\ label' = lab
          /\ cert' = IF b.kind = "cert" THEN b.body ELSE None
          /\ bags' = IF b.kind = "secret" THEN bags ELSE Tail(bags)
          /\ UNCHANGED <<registry, at, mediumVars, pc, snapshot, findVars, quiet, calls>>
        BY <1>13 DEF ImportCert, InsertIdentity
    <2> HIDE DEF b, lab
    <2>6. entries' \in Seq(Entry) /\ KeyMatches'
        BY <2>1, <2>3, <2>4, <2>5, AppendKeyMatches DEF TypeOK, Types
    <2>7. bags' \in Seq(Bag) /\ ImportOrder'
        <3>1. CASE b.kind = "secret"
            BY <2>1, <2>2, <2>5, <3>1 DEF TypeOK, ImportOrder
        <3>2. CASE b.kind # "secret"
            BY <2>1, <2>5, <3>2, TailOrder DEF TypeOK, b
        <3> QED BY <3>1, <3>2
    <2>8. TypeOK'
        BY <2>3, <2>5, <2>6, <2>7 DEF TypeOK, mediumVars, findVars
    <2>9. BagInv'
        BY <2>1, <2>5, <2>7 DEF BagInv, mediumVars
    <2> QED BY <2>6, <2>8, <2>9
<1>14. CASE ImportSecret
    <2> DEFINE b == Head(bags)
    <2>1. /\ bags # <<>>
          /\ pc = "import"
          /\ ImportOrder
          /\ b.kind = "secret"
          /\ InsertData(b.body, b.label)
          /\ label' = b.label
          /\ bags' = Tail(bags)
          /\ UNCHANGED <<registry, at, mediumVars, pc, cert, snapshot, findVars, quiet, calls>>
        BY <1>14 DEF ImportSecret, BagInv
    <2>2. b \in Bag
        BY <2>1 DEF TypeOK
    <2>3. b.body \in Bodies /\ b.label \in Labels \cup {None}
        BY <2>2 DEF Bag
    <2>4. bags' \in Seq(Bag) /\ ImportOrder'
        BY <2>1, TailOrder DEF TypeOK
    <2> HIDE DEF b
    <2>5. \E type \in Types : AppendEntry(type, b.body, None, b.label)
        BY <2>1 DEF InsertData, Types
    <2>6. entries' \in Seq(Entry) /\ KeyMatches'
        BY <2>3, <2>5, AppendKeyMatches DEF TypeOK
    <2>7. TypeOK'
        BY <2>1, <2>3, <2>4, <2>6 DEF TypeOK, mediumVars, findVars
    <2>8. BagInv'
        BY <2>1, <2>4 DEF BagInv, mediumVars
    <2> QED BY <2>6, <2>7, <2>8
<1>15. CASE ImportNext
    <2> DEFINE b == Head(bags)
    <2>1. /\ bags # <<>>
          /\ pc = "import"
          /\ ImportOrder
          /\ cert' = IF b.kind = "cert" THEN b.body ELSE None
          /\ label' = IF b.kind = "cert" THEN b.label ELSE label
          /\ bags' = Tail(bags)
          /\ UNCHANGED <<registry, at, entries, mediumVars, pc, snapshot, findVars, quiet,
                         calls>>
        BY <1>15 DEF ImportNext, BagInv
    <2>2. b \in Bag
        BY <2>1 DEF TypeOK
    <2>3. b.body \in Bodies /\ b.label \in Labels \cup {None}
        BY <2>2 DEF Bag
    <2>4. bags' \in Seq(Bag) /\ ImportOrder'
        BY <2>1, TailOrder DEF TypeOK
    <2> HIDE DEF b
    <2>5. TypeOK'
        BY <2>1, <2>3, <2>4 DEF TypeOK, mediumVars, findVars
    <2>6. BagInv' /\ KeyMatches'
        BY <2>1, <2>4 DEF BagInv, KeyMatches, mediumVars
    <2> QED BY <2>5, <2>6
<1>16. CASE ImportEnd
    <2>1. entries' \in Seq(Entry) /\ KeyMatches'
        <3>1. CASE cert = None
            BY <1>16, <3>1 DEF ImportEnd, TypeOK, KeyMatches
        <3>2. CASE cert # None
            BY <1>16, <3>2, AppendKeyMatches DEF ImportEnd, InsertIdentity, TypeOK, Types
        <3> QED BY <3>1, <3>2
    <2>2. TypeOK'
        BY <1>16, <2>1 DEF ImportEnd, TypeOK, mediumVars, findVars
    <2>3. BagInv'
        BY <1>16 DEF ImportEnd, BagInv, mediumVars
    <2> QED BY <2>1, <2>2, <2>3
<1>17. ASSUME NEW remove \in BOOLEAN, Reset(remove)
       PROVE  KInv'
    <2>1. TypeOK'
        BY <1>17, <1>e, CallTypes, ForgetTypes DEF Reset, TypeOK, mediumVars, callVars, findVars
    <2>2. BagInv' /\ KeyMatches'
        BY <1>17, <1>e DEF Reset, BagInv, ImportOrder, KeyMatches, mediumVars, callVars
    <2> QED BY <2>1, <2>2
<1>18. CASE Crash
    <2>1. TypeOK'
        BY <1>18, <1>e, CallTypes DEF Crash, FindOver, TypeOK, mediumVars, callVars, findVars
    <2>2. BagInv' /\ KeyMatches'
        BY <1>18, <1>e DEF Crash, FindOver, BagInv, ImportOrder, KeyMatches, mediumVars, callVars
    <2> QED BY <2>1, <2>2
<1>19. CASE UNCHANGED vars
    BY <1>19 DEF vars, TypeOK, BagInv, ImportOrder, KeyMatches, mediumVars, callVars, findVars
<1> QED
    BY <1>1, <1>2, <1>3, <1>4, <1>5, <1>6, <1>7, <1>8, <1>9, <1>10, <1>11, <1>12, <1>13,
       <1>14, <1>15, <1>16, <1>17, <1>18, <1>19 DEF Next, Save, Load

\* Archives are in order and keys with their certificates in every state.
THEOREM StoreInvariant == Spec => []KInv
<1>1. Init => KInv
    <2> SUFFICES ASSUME Init PROVE KInv
        OBVIOUS
    <2>1. TypeOK
        <3>1. <<>> \in Seq(Entry) /\ <<>> \in Seq(Bag) /\ 0 \in Nat
            OBVIOUS
        <3> QED BY <3>1, Zenon DEF Init, TypeOK
    <2>2. BagInv /\ KeyMatches
        BY DEF Init, BagInv, KeyMatches
    <2> QED BY <2>1, <2>2 DEF KInv
<1>2. KInv /\ [Next]_vars => KInv'
    BY StepKeepsKInv
<1> QED BY <1>1, <1>2, PTL DEF Spec

\* Every variable of the store keeps its type.
THEOREM StoreTypes == Spec => []TypeOK
<1>1. KInv => TypeOK
    BY DEF KInv
<1> QED BY <1>1, StoreInvariant, PTL

\* Import never gives an identity a private key that is not its own.
THEOREM StoreKeys == Spec => []KeyMatches
<1>1. KInv => KeyMatches
    BY DEF KInv
<1> QED BY <1>1, StoreInvariant, PTL

----------------------------------------------------------------------------
(* Loops over Find. *)

\* No two entries of the list share an address.
Distinct ==
    \A i, j \in DOMAIN entries : entries[i].ptr = entries[j].ptr => i = j

\* What a loop has found is in the list, and nothing of it behind the entry
\* the loop stands at; before its first result it has found nothing.
Passed ==
    /\ want = None => done = {}
    /\ from = None => done = {}
    /\ done \subseteq PtrsIn(entries)
    /\ \A i, j \in DOMAIN entries :
          entries[i].ptr \in done /\ entries[j].ptr = from => i <= j

\* Unless it was removed, the entry a loop stands at is in the list.
Standing == want # None /\ ~cut => from \in PtrsIn(entries) \cup {None}

FInv == Distinct /\ Passed /\ Standing /\ FindComplete

\* An entry put at the end of the list is behind everything a loop has found
\* and ahead of where it stands.
LEMMA AppendKeepsFInv ==
    ASSUME entries \in Seq(Entry), None \notin Ptrs, FInv, NEW type \in Types, NEW body \in Bodies,
           NEW key \in Bodies \cup {None}, NEW lab \in Labels \cup {None},
           AppendEntry(type, body, key, lab), UNCHANGED findVars
    PROVE  FInv'
<1>1. PICK e \in Entry :
          /\ e.ptr \notin PtrsIn(entries)
          /\ entries' = Append(entries, e)
          /\ entries' \in Seq(Entry)
    BY AppendFacts
<1>2. /\ Len(entries') = Len(entries) + 1
      /\ \A i \in 1..Len(entries) : entries'[i] = entries[i]
      /\ entries'[Len(entries) + 1] = e
    BY <1>1, AppendProperties
<1>3. /\ DOMAIN entries = 1..Len(entries)
      /\ DOMAIN entries' = 1..(Len(entries) + 1)
      /\ Len(entries) \in Nat
    BY <1>1, <1>2
<1>4. UNCHANGED <<want, from, todo, done, cut>>
    BY DEF findVars
<1>5. \A i \in DOMAIN entries : entries[i].ptr # e.ptr
    BY <1>1 DEF PtrsIn
<1>6. ASSUME NEW i \in DOMAIN entries'
      PROVE  \/ i \in DOMAIN entries /\ entries'[i] = entries[i]
             \/ i = Len(entries) + 1 /\ entries'[i] = e
    <2>1. i \in 1..Len(entries) \/ i = Len(entries) + 1
        BY <1>3
    <2> QED BY <1>2, <1>3, <2>1
<1>7. \A i \in DOMAIN entries : i \in DOMAIN entries' /\ entries'[i] = entries[i]
    BY <1>2, <1>3
<1>8. Distinct'
    BY <1>5, <1>6 DEF FInv, Distinct
<1>9. PtrsIn(entries) \subseteq PtrsIn(entries')
    BY <1>7 DEF PtrsIn
<1>10. e.ptr \notin done
    BY <1>1 DEF FInv, Passed
<1>11. Passed'
    <2>1. ASSUME NEW i \in DOMAIN entries', NEW j \in DOMAIN entries',
                 entries'[i].ptr \in done, entries'[j].ptr = from
          PROVE  i <= j
        <3>1. i \in DOMAIN entries /\ entries'[i] = entries[i]
            BY <1>6, <1>10, <2>1
        <3>2. CASE j \in DOMAIN entries /\ entries'[j] = entries[j]
            BY <2>1, <3>1, <3>2 DEF FInv, Passed
        <3>3. CASE j = Len(entries) + 1
            BY <1>3, <3>1, <3>3
        <3> QED BY <1>6, <3>2, <3>3
    <2> QED BY <1>4, <1>9, <2>1 DEF FInv, Passed
<1>12. Standing'
    BY <1>4, <1>9 DEF FInv, Standing
<1>13. FindComplete'
    <2>1. ASSUME NEW i \in Hits PROVE i \in Hits' /\ entries'[i] = entries[i]
        <3>1. i \in DOMAIN entries
            BY DEF Hits
        <3>2. Behind(i)'
            <4>1. CASE from = None
                BY <1>4, <4>1 DEF Behind
            <4>2. CASE from # None
                <5>1. PICK j \in 1..(i - 1) : entries[j].ptr = from
                    BY <4>2 DEF Hits, Behind
                <5>2. entries'[j] = entries[j]
                    BY <1>2, <1>3, <3>1
                <5> QED BY <1>4, <5>1, <5>2 DEF Behind
            <4> QED BY <4>1, <4>2
        <3> QED BY <1>4, <1>7, <3>1, <3>2 DEF Hits
    <2> QED BY <1>4, <2>1 DEF FInv, FindComplete
<1> QED BY <1>8, <1>11, <1>12, <1>13 DEF FInv

\* Removal keeps the order of what stays, and the loop forgets what goes.
LEMMA RemoveKeepsFInv ==
    ASSUME entries \in Seq(Entry), FInv, NEW i \in DOMAIN entries,
           entries' = SX!RemoveAt(entries, i), Forget({entries[i].ptr})
    PROVE  FInv'
<1> DEFINE old(k) == IF k < i THEN k ELSE k + 1
           new(j) == IF j < i THEN j ELSE j - 1
<1>1. /\ entries' \in Seq(Entry)
      /\ Len(entries') = Len(entries) - 1
      /\ \A k \in 1..(Len(entries) - 1) :
            entries'[k] = IF k < i THEN entries[k] ELSE entries[k + 1]
    BY RemoveAtFacts
<1>2. /\ DOMAIN entries = 1..Len(entries)
      /\ DOMAIN entries' = 1..(Len(entries) - 1)
      /\ Len(entries) \in Nat
      /\ i \in 1..Len(entries)
    BY <1>1
<1>3. \A k \in DOMAIN entries' :
          /\ old(k) \in DOMAIN entries
          /\ old(k) # i
          /\ entries'[k] = entries[old(k)]
    BY <1>1, <1>2
<1>4. \A j \in DOMAIN entries \ {i} :
          /\ new(j) \in DOMAIN entries'
          /\ entries'[new(j)] = entries[j]
    <2> TAKE j \in DOMAIN entries \ {i}
    <2>1. CASE j < i
        <3>1. new(j) = j /\ j \in 1..(Len(entries) - 1)
            BY <1>2, <2>1
        <3> QED BY <1>1, <1>2, <2>1, <3>1
    <2>2. CASE j > i
        <3>1. new(j) = j - 1 /\ j - 1 \in 1..(Len(entries) - 1) /\ ~(j - 1 < i) /\ (j - 1) + 1 = j
            BY <1>2, <2>2
        <3> QED BY <1>1, <1>2, <3>1
    <2> QED BY <1>2, <2>1, <2>2
<1>5. \A j, k \in DOMAIN entries' : (old(j) <= old(k) => j <= k) /\ (old(j) = old(k) => j = k)
    BY <1>2
<1>6. \A j, h \in DOMAIN entries \ {i} : j < h => new(j) < new(h)
    BY <1>2
<1> HIDE DEF old, new
<1> DEFINE p == entries[i].ptr
<1>7. /\ todo' = todo \ {p}
      /\ done' = done \ {p}
      /\ ~cut' => ~cut /\ from # p
      /\ want' = want
      /\ from' = from
    BY DEF Forget
<1>8. \A j \in DOMAIN entries : j # i => entries[j].ptr # p
    BY DEF FInv, Distinct
<1> HIDE DEF p
<1>9. ASSUME NEW q \in PtrsIn(entries), q # p PROVE q \in PtrsIn(entries')
    <2>1. PICK j \in DOMAIN entries : q = entries[j].ptr
        BY <1>9 DEF PtrsIn
    <2>2. j # i
        BY <1>9, <2>1 DEF p
    <2> QED BY <1>4, <2>1, <2>2 DEF PtrsIn
<1>10. Distinct'
    BY <1>3, <1>5 DEF FInv, Distinct
<1>11. Passed'
    <2>1. ASSUME NEW j \in DOMAIN entries', NEW k \in DOMAIN entries',
                 entries'[j].ptr \in done', entries'[k].ptr = from
          PROVE  j <= k
        <3>1. old(j) <= old(k)
            BY <1>3, <1>7, <2>1 DEF FInv, Passed
        <3> QED BY <1>5, <3>1
    <2> QED BY <1>7, <1>9, <2>1 DEF FInv, Passed
<1>12. Standing'
    BY <1>7, <1>9 DEF FInv, Standing
<1>13. FindComplete'
    <2> SUFFICES ASSUME want # None, ~cut', NEW q \in todo'
                 PROVE  \E h \in Hits' : entries'[h].ptr = q
        BY <1>7 DEF FindComplete
    <2>1. PICK h \in Hits : entries[h].ptr = q
        BY <1>7 DEF FInv, FindComplete
    <2>2. h \in DOMAIN entries \ {i}
        BY <1>7, <2>1 DEF Hits, p
    <2>3. new(h) \in DOMAIN entries' /\ entries'[new(h)] = entries[h] /\ new(h) \in Nat
        BY <1>2, <1>4, <2>2
    <2>4. Behind(new(h))'
        <3>1. CASE from = None
            BY <1>7, <3>1 DEF Behind
        <3>2. CASE from # None
            <4>1. PICK j \in 1..(h - 1) : entries[j].ptr = from
                BY <2>1, <3>2 DEF Hits, Behind
            <4>2. j \in DOMAIN entries \ {i} /\ j < h
                BY <1>2, <1>7, <2>2, <4>1 DEF p
            <4>3. new(j) < new(h) /\ new(j) \in DOMAIN entries' /\ entries'[new(j)] = entries[j]
                BY <1>4, <1>6, <2>2, <4>2
            <4>4. new(j) \in 1..(new(h) - 1)
                BY <1>2, <2>3, <4>3
            <4> QED BY <1>7, <4>1, <4>3, <4>4 DEF Behind
        <3> QED BY <3>1, <3>2
    <2>5. new(h) \in Hits'
        BY <1>7, <2>1, <2>3, <2>4 DEF Hits
    <2> QED BY <2>1, <2>3, <2>5
<1> QED BY <1>10, <1>11, <1>12, <1>13 DEF FInv

\* When the list is emptied a loop has nothing left to find.
LEMMA ClearKeepsFInv ==
    ASSUME FInv, entries' = <<>>, Forget(PtrsIn(entries))
    PROVE  FInv'
<1>1. /\ todo' = todo \ PtrsIn(entries)
      /\ done' = done \ PtrsIn(entries)
      /\ ~cut' => ~cut /\ from \notin PtrsIn(entries)
      /\ want' = want
      /\ from' = from
    BY DEF Forget
<1>2. DOMAIN entries' = {}
    OBVIOUS
<1>3. done' = {}
    BY <1>1 DEF FInv, Passed
<1>4. Distinct' /\ Passed'
    BY <1>1, <1>2, <1>3 DEF Distinct, Passed
<1>5. Standing'
    BY <1>1 DEF FInv, Standing
<1>6. FindComplete'
    <2>1. todo \subseteq PtrsIn(entries) \/ cut \/ want = None
        BY DEF FInv, FindComplete, Hits, PtrsIn
    <2> QED BY <1>1, <2>1 DEF FindComplete
<1> QED BY <1>4, <1>5, <1>6 DEF FInv

\* Each call of Find moves the loop on to the first hit.
LEMMA FindKeepsFInv ==
    ASSUME TypeOK, FInv, Find
    PROVE  FInv'
<1>0. /\ entries' = entries
      /\ \A i \in DOMAIN entries : entries[i].ptr \in Ptrs /\ i \in Nat
    <2>1. \A i \in DOMAIN entries : entries[i] \in Entry /\ i \in Nat
        BY DEF TypeOK
    <2> QED BY <2>1 DEF Entry, Find, FindStart, FindNext, FindNull
<1>1. ASSUME NEW type \in Wanted, FindStart(type)
      PROVE  FInv'
    <2>1. Distinct' /\ Passed' /\ Standing'
        BY <1>0, <1>1 DEF FindStart, FInv, Distinct, Passed, Standing, PtrsIn
    <2>2. FindComplete'
        BY <1>0, <1>1 DEF FindStart, FindComplete, Hits, Behind
    <2> QED BY <2>1, <2>2 DEF FInv
<1>2. CASE FindNext
    <2>1. PICK i \in Hits :
              /\ \A j \in Hits : i <= j
              /\ from' = entries[i].ptr
              /\ todo' = todo \ {entries[i].ptr}
              /\ done' = done \cup {entries[i].ptr}
              /\ want # None
              /\ want' = want
              /\ cut' = cut
        BY <1>2 DEF FindNext
    <2>2. i \in DOMAIN entries /\ i \in Nat /\ entries[i].ptr # None
        BY <1>0, StoreAssumption DEF Hits
    <2>3. Distinct'
        BY <1>0 DEF FInv, Distinct
    <2>4. Passed'
        <3>1. done' \subseteq PtrsIn(entries)
            BY <2>1, <2>2 DEF FInv, Passed, PtrsIn
        <3>2. ASSUME NEW a \in DOMAIN entries, NEW b \in DOMAIN entries,
                     entries[a].ptr \in done', entries[b].ptr = from'
              PROVE  a <= b
            <4>1. b = i
                BY <2>1, <2>2, <3>2 DEF FInv, Distinct
            <4>2. CASE entries[a].ptr = entries[i].ptr
                BY <1>0, <2>2, <4>1, <4>2 DEF FInv, Distinct
            <4>3. CASE entries[a].ptr \in done
                <5>1. from # None
                    BY <4>3 DEF FInv, Passed
                <5>2. PICK j \in 1..(i - 1) : entries[j].ptr = from
                    BY <5>1 DEF Hits, Behind
                <5>3. j \in DOMAIN entries /\ j < i /\ j \in Nat
                    BY <2>2, <5>2 DEF TypeOK
                <5>4. a <= j
                    BY <4>3, <5>2, <5>3 DEF FInv, Passed
                <5> QED BY <1>0, <2>2, <4>1, <5>3, <5>4
            <4> QED BY <2>1, <3>2, <4>2, <4>3
        <3> QED BY <1>0, <2>1, <2>2, <3>1, <3>2 DEF Passed
    <2>5. Standing'
        BY <1>0, <2>1, <2>2 DEF Standing, PtrsIn
    <2>6. FindComplete'
        <3> SUFFICES ASSUME ~cut, NEW q \in todo'
                     PROVE  \E h \in Hits' : entries'[h].ptr = q
            BY <2>1 DEF FindComplete
        <3>1. PICK h \in Hits : entries[h].ptr = q
            BY <2>1 DEF FInv, FindComplete
        <3>2. h # i /\ i <= h /\ h \in DOMAIN entries /\ h \in Nat
            BY <1>0, <2>1, <3>1 DEF Hits
        <3>3. i \in 1..(h - 1)
            BY <2>2, <3>2 DEF TypeOK
        <3>4. Behind(h)'
            BY <1>0, <2>1, <3>3 DEF Behind
        <3>5. h \in Hits'
            BY <1>0, <2>1, <3>1, <3>4 DEF Hits
        <3> QED BY <1>0, <3>1, <3>5
    <2> QED BY <2>3, <2>4, <2>5, <2>6 DEF FInv
<1>3. CASE FindNull
    BY <1>0, <1>3 DEF FindNull, FindOver, FInv, Distinct, Passed, Standing, FindComplete
<1> QED BY <1>1, <1>2, <1>3 DEF Find

\* What a step leaves alone stays true.
LEMMA StutterKeepsFInv ==
    ASSUME FInv, UNCHANGED <<entries, findVars>>
    PROVE  FInv'
BY DEF FInv, Distinct, Passed, Standing, FindComplete, Hits, Behind, PtrsIn, findVars

LEMMA StepKeepsFInv ==
    ASSUME KInv, FInv, [Next]_vars
    PROVE  FInv'
<1>0. TypeOK /\ entries \in Seq(Entry) /\ None \notin Ptrs
    BY StoreAssumption DEF KInv, TypeOK
<1>1. CASE Insert
    <2>1. UNCHANGED findVars
        BY <1>1 DEF Insert
    <2>2. PICK body \in Bodies, lab \in Labels \cup {None} :
              \E type \in Types, key \in Bodies \cup {None} : AppendEntry(type, body, key, lab)
        BY <1>1 DEF Insert, InsertIdentity, InsertData, Types
    <2> QED BY <1>0, <2>1, <2>2, AppendKeepsFInv
<1>2. ASSUME NEW type \in Types, NEW body \in Bodies, Remove(type, body)
      PROVE  FInv'
    BY <1>0, <1>2, RemoveKeepsFInv DEF Remove
<1>3. CASE Find
    BY <1>0, <1>3, FindKeepsFInv
<1>4. CASE Save \/ LoadRead \/ LoadFails \/ ImportNext \/ UNCHANGED vars
    BY <1>4, StutterKeepsFInv DEF Save, SaveOpen, ExportLock, ExportEntry, ExportUnlock,
       SaveDelete, SaveWrite, LoadRead, LoadFails, ImportNext, vars
<1>5. CASE LoadDestroy
    BY <1>5, ClearKeepsFInv DEF LoadDestroy
<1>6. CASE ImportCert
    <2> DEFINE b == Head(bags)
               lab == IF b.kind = "key" THEN label ELSE b.label
               key == IF b.kind = "key" THEN b.body ELSE None
    <2>1. b \in Bag
        BY <1>0, <1>6 DEF ImportCert, TypeOK
    <2>2. /\ lab \in Labels \cup {None}
          /\ key \in Bodies \cup {None}
          /\ cert \in Bodies
        BY <1>0, <1>6, <2>1 DEF ImportCert, TypeOK, Bag
    <2>3. AppendEntry("IDENTITY", cert, key, lab) /\ UNCHANGED findVars
        BY <1>6 DEF ImportCert, InsertIdentity
    <2> HIDE DEF lab, key
    <2> QED BY <1>0, <2>2, <2>3, AppendKeepsFInv DEF Types
<1>7. CASE ImportSecret
    <2> DEFINE b == Head(bags)
    <2>1. b \in Bag
        BY <1>0, <1>7 DEF ImportSecret, TypeOK
    <2>2. b.label \in Labels \cup {None} /\ b.body \in Bodies
        BY <2>1 DEF Bag
    <2>3. /\ \E type \in Types : AppendEntry(type, b.body, None, b.label)
          /\ UNCHANGED findVars
        BY <1>7 DEF ImportSecret, InsertData, Types
    <2> HIDE DEF b
    <2> QED BY <1>0, <2>2, <2>3, AppendKeepsFInv
<1>8. CASE ImportEnd
    <2>1. CASE cert = None
        BY <1>8, <2>1, StutterKeepsFInv DEF ImportEnd
    <2>2. CASE cert # None
        BY <1>0, <1>8, <2>2, AppendKeepsFInv DEF ImportEnd, InsertIdentity, TypeOK, Types
    <2> QED BY <2>1, <2>2
<1>9. ASSUME NEW remove \in BOOLEAN, Reset(remove)
      PROVE  FInv'
    BY <1>9, ClearKeepsFInv DEF Reset
<1>10. CASE Crash
    BY <1>10 DEF Crash, FindOver, FInv, Distinct, Passed, Standing, FindComplete
<1> QED
    BY <1>1, <1>2, <1>3, <1>4, <1>5, <1>6, <1>7, <1>8, <1>9, <1>10 DEF Next, Load

\* What loops over Find rely on holds in every state.
THEOREM StoreFindInvariant == Spec => []FInv
<1>1. Init => FInv
    BY DEF Init, FInv, Distinct, Passed, Standing, FindComplete
<1>2. KInv /\ FInv /\ [Next]_vars => FInv'
    BY StepKeepsFInv
<1> QED BY <1>1, <1>2, StoreInvariant, PTL DEF Spec

\* A loop over Find still has every entry ahead that was there at its start,
\* was not removed and was not found, unless the entry it stands at was removed.
THEOREM StoreFindComplete == Spec => []FindComplete
<1>1. FInv => FindComplete
    BY DEF FInv
<1> QED BY <1>1, StoreFindInvariant, PTL

\* No loop over Find returns an entry twice.
THEOREM StoreFindOnce == Spec => []FindOnce
<1>1. KInv /\ FInv => FindOnce
    <2> SUFFICES ASSUME KInv, FInv, NEW i \in Hits, entries[i].ptr \in done
                 PROVE  FALSE
        BY DEF FindOnce
    <2>1. i \in DOMAIN entries /\ DOMAIN entries = 1..Len(entries) /\ Len(entries) \in Nat
        BY DEF Hits, KInv, TypeOK
    <2>2. from # None
        BY DEF FInv, Passed
    <2>3. PICK j \in 1..(i - 1) : entries[j].ptr = from
        BY <2>2 DEF Hits, Behind
    <2>4. j \in DOMAIN entries /\ j < i
        BY <2>1, <2>3
    <2>5. i <= j
        BY <2>1, <2>3, <2>4 DEF FInv, Passed
    <2> QED BY <2>1, <2>4, <2>5
<1> QED BY <1>1, StoreInvariant, StoreFindInvariant, PTL

\* A loop over Find meets every entry that stays, and each of them once.
THEOREM StoreFindExact == Spec => []FindExact
<1>1. FindComplete /\ FindOnce => FindExact
    BY DEF FindExact
<1> QED BY <1>1, StoreFindComplete, StoreFindOnce, PTL

----------------------------------------------------------------------------
(* What a Load brings back. *)

\* Keys and secrets are told apart by their names, and have no private key; the
\* key of an identity is its own.
Proper(e) ==
    /\ e.type # "IDENTITY" => e.type = (IF e.label \in KeyLabels THEN "KEY" ELSE "SECRET")
    /\ e.key # None => e.type = "IDENTITY" /\ e.key = e.body

AllProper(list) == \A i \in DOMAIN list : Proper(list[i])

\* Those of the first n entries that are exported as two bags.
Paired(list, n) == {i \in 1..n : list[i].type = "IDENTITY" /\ list[i].key # None}

\* The bags of the entries in front of entry n + 1.
Before(list, n) == n + Cardinality(Paired(list, n))

\* bs is the archive of the first n entries of list.
ArchiveOf(bs, list, n) ==
    /\ Len(bs) = Before(list, n)
    /\ \A i \in 1..n : \A j \in DOMAIN BagsOf(list[i]) :
          bs[Before(list, i - 1) + j] = BagsOf(list[i])[j]

\* Entry i is back, with its name or with that of the entry behind it.
Back(i) ==
    /\ entries[i].type = saved[i].type
    /\ entries[i].body = saved[i].body
    /\ entries[i].key = saved[i].key
    /\ \/ entries[i].label = saved[i].label
       \/ saved[i].type = "IDENTITY" /\ saved[i].key = None /\ i # Len(saved)

\* The bags Import has met.
Met == Len(medium) - Len(bags)

\* Import has brought back the entries whose bags it has met; the certificate
\* that waits is that of the next one.
Importing ==
    LET k == Len(entries)
    IN  /\ medium \notin {Absent, Torn}
        /\ k <= Len(saved)
        /\ \A i \in 1..k : Back(i)
        /\ Len(bags) <= Len(medium)
        /\ \A j \in 1..Len(bags) : bags[j] = medium[Met + j]
        /\ cert = None => Met = Before(saved, k)
        /\ cert # None => /\ k < Len(saved)
                          /\ Met = Before(saved, k) + 1
                          /\ saved[k + 1].type = "IDENTITY"
                          /\ saved[k + 1].body = cert
                          /\ saved[k + 1].label = label

Restored ==
    /\ Len(entries) = Len(saved)
    /\ \A i \in 1..Len(saved) : Back(i)

RInv ==
    /\ AllProper(entries) /\ AllProper(snapshot) /\ AllProper(saved)
    /\ pc = "pack" => /\ snapshot = entries
                      /\ at <= Len(snapshot) + 1
                      /\ ArchiveOf(bags, snapshot, at - 1)
    /\ pc \in {"delete", "write"} => /\ ArchiveOf(bags, snapshot, Len(snapshot))
                                     /\ quiet => snapshot = entries
    /\ medium \notin {Absent, Torn} => ArchiveOf(medium, saved, Len(saved))
    /\ quiet /\ pc = "read" => entries = <<>>
    /\ quiet /\ pc = "import" => Importing
    /\ quiet /\ pc \notin {"read", "import"} => Restored

\* One bag for an entry, or two when it is an identity with its key.
LEMMA BagsOfFacts ==
    ASSUME NEW e \in Entry
    PROVE  /\ Len(BagsOf(e)) = IF e.type = "IDENTITY" /\ e.key # None THEN 2 ELSE 1
           /\ BagsOf(e) \in Seq(Bag)
           /\ BagsOf(e)[1].kind = IF e.type = "IDENTITY" THEN "cert" ELSE "secret"
           /\ BagsOf(e)[1].body = e.body
           /\ BagsOf(e)[1].label = e.label
           /\ e.type = "IDENTITY" /\ e.key # None =>
                 BagsOf(e)[2].kind = "key" /\ BagsOf(e)[2].body = e.key
<1> DEFINE b == [kind |-> "cert", body |-> e.body, label |-> e.label]
           k == [kind |-> "key", body |-> e.key, label |-> None]
           x == [b EXCEPT !.kind = "secret"]
<1>1. CASE e.type # "IDENTITY"
    <2>1. BagsOf(e) = <<x>>
        BY <1>1 DEF BagsOf
    <2>2. x \in Bag /\ x.kind = "secret" /\ x.body = e.body /\ x.label = e.label
        BY DEF Bag, Entry
    <2> HIDE DEF x
    <2> QED BY <1>1, <2>1, <2>2
<1>2. CASE e.type = "IDENTITY" /\ e.key = None
    <2>1. BagsOf(e) = <<b>>
        BY <1>2 DEF BagsOf
    <2>2. b \in Bag /\ b.kind = "cert" /\ b.body = e.body /\ b.label = e.label
        BY DEF Bag, Entry
    <2> HIDE DEF b
    <2> QED BY <1>2, <2>1, <2>2
<1>3. CASE e.type = "IDENTITY" /\ e.key # None
    <2>1. BagsOf(e) = <<b, k>>
        BY <1>3 DEF BagsOf
    <2>2. /\ b \in Bag /\ b.kind = "cert" /\ b.body = e.body /\ b.label = e.label
          /\ k \in Bag /\ k.kind = "key" /\ k.body = e.key
        BY <1>3 DEF Bag, Entry
    <2> HIDE DEF b, k
    <2> QED BY <1>3, <2>1, <2>2
<1> QED BY <1>1, <1>2, <1>3

\* Where the bags of an entry start: each entry in front of it has one or two.
LEMMA BeforeZero ==
    ASSUME NEW list
    PROVE  Before(list, 0) = 0
<1>1. Paired(list, 0) = {}
    BY DEF Paired
<1> QED BY <1>1, FS_EmptySet DEF Before

LEMMA BeforeNext ==
    ASSUME NEW list, NEW n \in Nat
    PROVE  /\ Before(list, n) \in Nat
           /\ Before(list, n + 1) =
                 Before(list, n) + IF list[n + 1].type = "IDENTITY" /\ list[n + 1].key # None
                                   THEN 2 ELSE 1
<1>1. IsFiniteSet(Paired(list, n)) /\ Cardinality(Paired(list, n)) \in Nat
    <2>1. IsFiniteSet(1..n)
        BY FS_Interval
    <2>2. Paired(list, n) \subseteq 1..n
        BY DEF Paired
    <2> QED BY <2>1, <2>2, FS_Subset, FS_CardinalityType
<1>2. CASE list[n + 1].type = "IDENTITY" /\ list[n + 1].key # None
    <2>1. Paired(list, n + 1) = Paired(list, n) \cup {n + 1} /\ n + 1 \notin Paired(list, n)
        BY <1>2 DEF Paired
    <2>2. Cardinality(Paired(list, n + 1)) = Cardinality(Paired(list, n)) + 1
        BY <1>1, <2>1, FS_AddElement
    <2> QED BY <1>1, <1>2, <2>2 DEF Before
<1>3. CASE ~(list[n + 1].type = "IDENTITY" /\ list[n + 1].key # None)
    <2>1. Paired(list, n + 1) = Paired(list, n)
        BY <1>3 DEF Paired
    <2> QED BY <1>1, <1>3, <2>1 DEF Before
<1> QED BY <1>1, <1>2, <1>3 DEF Before

LEMMA BeforeMore ==
    ASSUME NEW list, NEW n \in Nat
    PROVE  /\ Before(list, n) \in Nat
           /\ Before(list, n + 1) \in Nat
           /\ Before(list, n + 1) > Before(list, n)
BY BeforeNext

LEMMA BeforeGrows ==
    ASSUME NEW list, NEW m \in Nat, NEW n \in Nat, m <= n
    PROVE  Before(list, m) <= Before(list, n)
<1>1. IsFiniteSet(Paired(list, n)) /\ Paired(list, m) \subseteq Paired(list, n)
    <2>1. IsFiniteSet(1..n)
        BY FS_Interval
    <2>2. Paired(list, n) \subseteq 1..n
        BY DEF Paired
    <2>3. Paired(list, m) \subseteq Paired(list, n)
        BY DEF Paired
    <2> QED BY <2>1, <2>2, <2>3, FS_Subset
<1>2. /\ Cardinality(Paired(list, m)) <= Cardinality(Paired(list, n))
      /\ Cardinality(Paired(list, m)) \in Nat
      /\ Cardinality(Paired(list, n)) \in Nat
    BY <1>1, FS_Subset, FS_CardinalityType
<1> QED BY <1>2 DEF Before

\* The bags an entry has in an archive, and the bag behind them.
LEMMA ArchiveBags ==
    ASSUME NEW list \in Seq(Entry), NEW bs \in Seq(Bag), NEW n \in Nat, n <= Len(list),
           ArchiveOf(bs, list, n), NEW i \in 0..(n - 1)
    PROVE  /\ list[i + 1] \in Entry
           /\ bs[Before(list, i) + 1] = BagsOf(list[i + 1])[1]
           /\ list[i + 1].type = "IDENTITY" /\ list[i + 1].key # None =>
                 bs[Before(list, i) + 2] = BagsOf(list[i + 1])[2]
<1>1. /\ i + 1 \in 1..n
      /\ (i + 1) - 1 = i
      /\ i + 1 \in DOMAIN list
    BY DEF ArchiveOf
<1>2. list[i + 1] \in Entry
    BY <1>1
<1> DEFINE B == BagsOf(list[i + 1])
<1>3. /\ B \in Seq(Bag)
      /\ Len(B) = IF list[i + 1].type = "IDENTITY" /\ list[i + 1].key # None THEN 2 ELSE 1
    BY <1>2, BagsOfFacts
<1>4. \A j \in DOMAIN B : bs[Before(list, (i + 1) - 1) + j] = B[j]
    BY <1>1 DEF ArchiveOf
<1> HIDE DEF B
<1>5. 1 \in DOMAIN B
    BY <1>3
<1>6. list[i + 1].type = "IDENTITY" /\ list[i + 1].key # None => 2 \in DOMAIN B
    BY <1>3
<1> QED BY <1>1, <1>2, <1>4, <1>5, <1>6 DEF B

\* Exporting one more entry.
LEMMA ArchiveGrows ==
    ASSUME NEW list \in Seq(Entry), NEW bs \in Seq(Bag), NEW n \in Nat, n < Len(list),
           ArchiveOf(bs, list, n)
    PROVE  ArchiveOf(bs \o BagsOf(list[n + 1]), list, n + 1)
<1> DEFINE B == BagsOf(list[n + 1])
           c == bs \o B
<1>1. list[n + 1] \in Entry
    <2>1. n + 1 \in DOMAIN list
        OBVIOUS
    <2> QED BY <2>1
<1>2. /\ B \in Seq(Bag)
      /\ Len(B) = IF list[n + 1].type = "IDENTITY" /\ list[n + 1].key # None THEN 2 ELSE 1
    BY <1>1, BagsOfFacts
<1>3. /\ Len(bs) = Before(list, n)
      /\ Before(list, n) \in Nat
      /\ Before(list, n + 1) = Len(bs) + Len(B)
    BY <1>2, BeforeNext DEF ArchiveOf
<1> HIDE DEF B
<1>4. /\ c \in Seq(Bag)
      /\ Len(c) = Len(bs) + Len(B)
      /\ \A i \in 1..(Len(bs) + Len(B)) :
            c[i] = IF i <= Len(bs) THEN bs[i] ELSE B[i - Len(bs)]
    BY <1>2, ConcatProperties
<1> HIDE DEF c
<1>5. ASSUME NEW i \in 1..n, NEW j \in DOMAIN BagsOf(list[i])
      PROVE  c[Before(list, i - 1) + j] = BagsOf(list[i])[j]
    <2>1. list[i] \in Entry /\ i - 1 \in Nat /\ (i - 1) + 1 = i
        <3>1. i \in DOMAIN list
            OBVIOUS
        <3> QED BY <3>1
    <2>2. /\ BagsOf(list[i]) \in Seq(Bag)
          /\ Before(list, i) = Before(list, i - 1) + Len(BagsOf(list[i]))
          /\ Before(list, i - 1) \in Nat
        <3>1. /\ BagsOf(list[i]) \in Seq(Bag)
              /\ Len(BagsOf(list[i])) =
                    IF list[i].type = "IDENTITY" /\ list[i].key # None THEN 2 ELSE 1
            BY <2>1, BagsOfFacts
        <3>2. /\ Before(list, i - 1) \in Nat
              /\ Before(list, (i - 1) + 1) =
                    Before(list, i - 1)
                        + IF list[(i - 1) + 1].type = "IDENTITY" /\ list[(i - 1) + 1].key # None
                          THEN 2 ELSE 1
            BY <2>1, BeforeNext
        <3> QED BY <2>1, <3>1, <3>2
    <2>3. Before(list, i) <= Len(bs)
        BY <1>3, BeforeGrows
    <2>4. j \in 1..Len(BagsOf(list[i]))
        BY <2>2
    <2>5. Before(list, i - 1) + j \in 1..Len(bs)
        BY <2>2, <2>3, <2>4
    <2>6. c[Before(list, i - 1) + j] = bs[Before(list, i - 1) + j]
        <3> DEFINE q == Before(list, i - 1) + j
        <3>1. q \in 1..Len(bs)
            BY <2>5
        <3> HIDE DEF q
        <3>2. q \in 1..(Len(bs) + Len(B)) /\ q <= Len(bs)
            BY <1>2, <3>1
        <3>3. c[q] = bs[q]
            BY <1>4, <3>2
        <3> QED BY <3>3 DEF q
    <2> QED BY <2>6 DEF ArchiveOf
<1>6. ASSUME NEW j \in DOMAIN B
      PROVE  c[Before(list, (n + 1) - 1) + j] = B[j]
    <2>1. j \in 1..Len(B) /\ (n + 1) - 1 = n
        BY <1>2
    <2>2. /\ Len(bs) + j \in 1..(Len(bs) + Len(B))
          /\ ~(Len(bs) + j <= Len(bs))
          /\ (Len(bs) + j) - Len(bs) = j
        BY <1>2, <2>1
    <2> QED BY <1>3, <1>4, <2>1, <2>2
<1>7. ASSUME NEW i \in 1..(n + 1), NEW j \in DOMAIN BagsOf(list[i])
      PROVE  c[Before(list, i - 1) + j] = BagsOf(list[i])[j]
    <2>1. i \in 1..n \/ i = n + 1
        OBVIOUS
    <2>2. CASE i \in 1..n
        BY <1>5, <2>2
    <2>3. CASE i = n + 1
        BY <1>6, <2>3 DEF B
    <2> QED BY <2>1, <2>2, <2>3
<1>8. Len(c) = Before(list, n + 1)
    BY <1>3, <1>4
<1> QED BY <1>7, <1>8 DEF ArchiveOf, c, B

\* What the list is after an entry was appended to it.
LEMMA AppendProper ==
    ASSUME entries \in Seq(Entry), AllProper(entries), NEW type \in Types, NEW body \in Bodies,
           NEW key \in Bodies \cup {None}, NEW lab \in Labels \cup {None},
           AppendEntry(type, body, key, lab),
           type # "IDENTITY" => type = (IF lab \in KeyLabels THEN "KEY" ELSE "SECRET"),
           key # None => type = "IDENTITY" /\ key = body
    PROVE  /\ entries' \in Seq(Entry)
           /\ AllProper(entries)'
           /\ Len(entries') = Len(entries) + 1
           /\ \A i \in 1..Len(entries) : entries'[i] = entries[i]
           /\ entries'[Len(entries) + 1].type = type
           /\ entries'[Len(entries) + 1].body = body
           /\ entries'[Len(entries) + 1].key = key
           /\ entries'[Len(entries) + 1].label = lab
<1>1. PICK e \in Entry :
          /\ e.type = type
          /\ e.body = body
          /\ e.key = key
          /\ e.label = lab
          /\ entries' = Append(entries, e)
          /\ entries' \in Seq(Entry)
    BY AppendFacts
<1>2. /\ Len(entries') = Len(entries) + 1
      /\ \A i \in 1..Len(entries) : entries'[i] = entries[i]
      /\ entries'[Len(entries) + 1] = e
    BY <1>1, AppendProperties
<1>3. DOMAIN entries = 1..Len(entries) /\ DOMAIN entries' = 1..Len(entries')
    BY <1>1
<1>4. Proper(e)
    BY <1>1 DEF Proper
<1>5. ASSUME NEW i \in DOMAIN entries' PROVE Proper(entries'[i])
    <2>1. i \in DOMAIN entries \/ i = Len(entries) + 1
        BY <1>2, <1>3
    <2> QED BY <1>2, <1>3, <1>4, <2>1 DEF AllProper
<1> QED BY <1>1, <1>2, <1>5 DEF AllProper

LEMMA RemoveProper ==
    ASSUME entries \in Seq(Entry), AllProper(entries), NEW i \in DOMAIN entries,
           entries' = SX!RemoveAt(entries, i)
    PROVE  AllProper(entries)'
<1>1. /\ entries' \in Seq(Entry)
      /\ Len(entries') = Len(entries) - 1
      /\ \A k \in 1..(Len(entries) - 1) :
            entries'[k] = IF k < i THEN entries[k] ELSE entries[k + 1]
    BY RemoveAtFacts
<1>2. ASSUME NEW k \in DOMAIN entries'
      PROVE  \E j \in DOMAIN entries : entries'[k] = entries[j]
    <2>1. k \in 1..(Len(entries) - 1) /\ Len(entries) \in Nat
        BY <1>1
    <2>2. k \in DOMAIN entries /\ k + 1 \in DOMAIN entries
        BY <2>1
    <2> QED BY <1>1, <2>1, <2>2
<1> QED BY <1>2 DEF AllProper

\* The bag Import meets next, and where it stands in the archive.
LEMMA NextBag ==
    ASSUME KInv, RInv, pc = "import", quiet, bags # <<>>
    PROVE  /\ Head(bags) \in Bag
           /\ Head(bags) = medium[Met + 1]
           /\ Met \in Nat /\ Met < Len(medium)
           /\ Len(medium) = Before(saved, Len(saved))
           /\ bags' = Tail(bags) /\ medium' = medium =>
                 /\ Len(bags') <= Len(medium')
                 /\ \A j \in 1..Len(bags') : bags'[j] = medium'[Met' + j]
                 /\ Met' = Met + 1
<1>1. /\ bags \in Seq(Bag)
      /\ medium \in Seq(Bag)
      /\ Len(bags) <= Len(medium)
      /\ \A j \in 1..Len(bags) : bags[j] = medium[Met + j]
      /\ Len(medium) = Before(saved, Len(saved))
    BY DEF KInv, TypeOK, RInv, Importing, ArchiveOf
<1>2. Len(bags) \in Nat /\ Len(medium) \in Nat /\ Len(bags) >= 1 /\ Head(bags) = bags[1]
    BY <1>1
<1>3. Head(bags) \in Bag /\ Head(bags) = medium[Met + 1]
    BY <1>1, <1>2
<1>4. Met \in Nat /\ Met < Len(medium)
    BY <1>1, <1>2 DEF Met
<1>5. ASSUME bags' = Tail(bags), medium' = medium
      PROVE  /\ Len(bags') <= Len(medium')
             /\ \A j \in 1..Len(bags') : bags'[j] = medium'[Met' + j]
             /\ Met' = Met + 1
    <2>1. Len(bags') = Len(bags) - 1 /\ \A j \in 1..Len(bags') : bags'[j] = bags[j + 1]
        BY <1>1, <1>5, HeadTailProperties
    <2>2. Met' = Met + 1
        BY <1>2, <1>5, <2>1 DEF Met
    <2>3. ASSUME NEW j \in 1..Len(bags') PROVE bags'[j] = medium'[Met' + j]
        <3>1. j + 1 \in 1..Len(bags) /\ Met + (j + 1) = (Met + 1) + j
            BY <1>2, <1>4, <2>1
        <3>2. bags[j + 1] = medium[Met + (j + 1)]
            BY <1>1, <3>1
        <3> QED BY <1>5, <2>1, <2>2, <3>1, <3>2
    <2>4. Len(bags') <= Len(medium')
        BY <1>1, <1>2, <1>5, <2>1
    <2> QED BY <2>2, <2>3, <2>4
<1> QED BY <1>1, <1>3, <1>4, <1>5

\* The bags of entry i + 1 in the archive Import reads.
LEMMA SavedBags ==
    ASSUME KInv, RInv, medium \notin {Absent, Torn}, NEW i \in Nat, i < Len(saved)
    PROVE  /\ saved[i + 1] \in Entry
           /\ Proper(saved[i + 1])
           /\ medium[Before(saved, i) + 1] = BagsOf(saved[i + 1])[1]
           /\ saved[i + 1].type = "IDENTITY" /\ saved[i + 1].key # None =>
                 medium[Before(saved, i) + 2] = BagsOf(saved[i + 1])[2]
<1>1. PICK n \in Nat : n = Len(saved)
    BY DEF KInv, TypeOK
<1>2. /\ saved \in Seq(Entry) /\ medium \in Seq(Bag)
      /\ n <= Len(saved)
      /\ ArchiveOf(medium, saved, n)
      /\ i \in 0..(n - 1)
      /\ i + 1 \in DOMAIN saved
    BY <1>1 DEF KInv, TypeOK, RInv
<1> QED BY <1>2, ArchiveBags DEF RInv, AllProper

\* An archive has no more bags than those of its entries: what Import has still
\* to read belongs to entries it has not brought back.
LEMMA EntryLeft ==
    ASSUME saved \in Seq(Entry), NEW k \in Nat, k <= Len(saved),
           Before(saved, k) < Before(saved, Len(saved))
    PROVE  k < Len(saved)
<1>1. k # Len(saved)
    <2>1. Before(saved, k) \in Nat
        BY BeforeNext
    <2> QED BY <2>1
<1> QED BY <1>1

----------------------------------------------------------------------------
\* The turns of Import's loop, each in an undisturbed Load.
LEMMA CertBrings ==
    ASSUME KInv, RInv, quiet, ImportCert
    PROVE  AllProper(entries)' /\ Importing'
<1>k. PICK k \in Nat : k = Len(entries)
    BY DEF KInv, TypeOK
<1> DEFINE b == Head(bags)
           lab == IF b.kind = "key" THEN label ELSE b.label
           key == IF b.kind = "key" THEN b.body ELSE None
           s == saved[k + 1]
<1>0. /\ bags \in Seq(Bag) /\ medium \in Seq(Bag)
      /\ entries \in Seq(Entry) /\ saved \in Seq(Entry)
      /\ label \in Labels \cup {None} /\ cert \in Bodies /\ cert # None
      /\ bags # <<>> /\ pc = "import"
      /\ k \in Nat /\ Len(saved) \in Nat /\ k = Len(entries)
    BY <1>k DEF ImportCert, KInv, TypeOK, RInv, Importing
<1>1. /\ b \in Bag /\ b = medium[Met + 1] /\ Met \in Nat /\ Met < Len(medium)
      /\ Len(medium) = Before(saved, Len(saved))
      /\ bags' = Tail(bags) /\ medium' = medium =>
            /\ Len(bags') <= Len(medium')
            /\ \A j \in 1..Len(bags') : bags'[j] = medium'[Met' + j]
            /\ Met' = Met + 1
    BY <1>0, NextBag
<1>2. /\ k < Len(saved)
      /\ Met = Before(saved, k) + 1
      /\ s.type = "IDENTITY" /\ s.body = cert /\ s.label = label
      /\ \A i \in 1..k : Back(i)
      /\ ArchiveOf(medium, saved, Len(saved))
      /\ medium \notin {Absent, Torn}
      /\ Len(bags) <= Len(medium)
      /\ \A j \in 1..Len(bags) : bags[j] = medium[Met + j]
    BY <1>0 DEF RInv, Importing
<1>3. s \in Entry /\ Proper(s)
    <2>1. k + 1 \in DOMAIN saved
        BY <1>0, <1>2
    <2> QED BY <1>0, <2>1 DEF RInv, AllProper
<1>4. /\ s.key # None => b = BagsOf(s)[2]
      /\ Before(saved, k) \in Nat
      /\ Before(saved, k + 1) = Before(saved, k) + IF s.key # None THEN 2 ELSE 1
    <2>2. s.type = "IDENTITY" /\ s.key # None => medium[Before(saved, k) + 2] = BagsOf(s)[2]
        BY <1>0, <1>2, SavedBags
    <2>3. /\ Before(saved, k) \in Nat
          /\ Before(saved, k + 1) =
                Before(saved, k) + IF s.type = "IDENTITY" /\ s.key # None THEN 2 ELSE 1
        BY <1>0, BeforeNext
    <2>4. Met + 1 = Before(saved, k) + 2
        BY <1>2, <2>3
    <2> QED BY <1>1, <1>2, <2>2, <2>3, <2>4
\* The bag behind a certificate without a key is the first one of the next entry.
<1>5. ASSUME s.key = None
      PROVE  /\ k + 1 < Len(saved)
             /\ saved[k + 2] \in Entry
             /\ b = BagsOf(saved[k + 2])[1]
    <2>1. Met = Before(saved, k + 1)
        BY <1>2, <1>4, <1>5
    <2>2. k + 1 < Len(saved)
        <3>1. k + 1 \in Nat /\ k + 1 <= Len(saved)
            BY <1>0, <1>2
        <3> QED BY <1>0, <1>1, <2>1, <3>1, EntryLeft
    <2>3. k + 1 \in Nat /\ (k + 1) + 1 = k + 2
        BY <1>0
    <2>4. /\ saved[(k + 1) + 1] \in Entry
          /\ medium[Before(saved, k + 1) + 1] = BagsOf(saved[(k + 1) + 1])[1]
        BY <1>2, <2>2, <2>3, SavedBags
    <2> QED BY <1>1, <2>1, <2>2, <2>3, <2>4
<1>6. /\ (b.kind = "key" <=> s.key # None)
      /\ s.key # None => b.body = s.key
    <2>1. CASE s.key # None
        BY <1>2, <1>3, <1>4, <2>1, BagsOfFacts
    <2>2. CASE s.key = None
        <3>1. b.kind = IF saved[k + 2].type = "IDENTITY" THEN "cert" ELSE "secret"
            BY <1>5, <2>2, BagsOfFacts
        <3> QED BY <2>2, <3>1
    <2> QED BY <2>1, <2>2
<1>7. key = s.key /\ (s.key # None => lab = s.label)
    BY <1>2, <1>6
<1>8. /\ AppendEntry("IDENTITY", cert, key, lab)
      /\ label' = lab
      /\ cert' = (IF b.kind = "cert" THEN b.body ELSE None)
      /\ bags' = (IF b.kind = "secret" THEN bags ELSE Tail(bags))
      /\ UNCHANGED <<medium, saved>>
    BY DEF ImportCert, InsertIdentity, mediumVars
<1>9. lab \in Labels \cup {None} /\ key \in Bodies \cup {None} /\ (key # None => key = cert)
    BY <1>0, <1>1, <1>2, <1>3, <1>7 DEF Bag, Proper
<1>b. b.body \in Bodies /\ b.body # None /\ b.kind \in {"cert", "key", "secret"}
    BY <1>1, StoreAssumption DEF Bag
<1> HIDE DEF lab, key
<1>10. /\ AllProper(entries)'
       /\ Len(entries') = k + 1
       /\ \A i \in 1..k : entries'[i] = entries[i]
       /\ entries'[k + 1].type = "IDENTITY"
       /\ entries'[k + 1].body = cert
       /\ entries'[k + 1].key = key
       /\ entries'[k + 1].label = lab
    <2>1. AllProper(entries) /\ "IDENTITY" \in Types
        BY DEF RInv, Types
    <2> QED BY <1>0, <1>8, <1>9, <2>1, AppendProper
<1>11. \A i \in 1..(k + 1) : Back(i)'
    <2>1. ASSUME NEW i \in 1..k PROVE Back(i)'
        BY <1>2, <1>8, <1>10 DEF Back
    <2>2. Back(k + 1)'
        <3>1. s.key = None => k + 1 # Len(saved)
            BY <1>0, <1>5
        <3> QED BY <1>2, <1>7, <1>8, <1>10, <3>1 DEF Back
    <2> QED BY <1>0, <2>1, <2>2
<1>12. CASE b.kind = "key"
    <2>1. bags' = Tail(bags) /\ cert' = None
        BY <1>8, <1>12
    <2>2. Met' = Before(saved, k + 1)
        BY <1>1, <1>2, <1>4, <1>6, <1>8, <1>12, <2>1
    <2> QED BY <1>0, <1>1, <1>2, <1>8, <1>10, <1>11, <2>1, <2>2 DEF Importing
<1>13. CASE b.kind = "cert"
    <2>1. bags' = Tail(bags) /\ cert' = b.body /\ cert' # None /\ label' = b.label
        BY <1>8, <1>13, <1>b DEF lab
    <2>2. s.key = None
        BY <1>6, <1>13
    <2>3. Met' = Before(saved, k + 1) + 1
        BY <1>1, <1>2, <1>4, <1>8, <2>1, <2>2
    <2>4. /\ saved[k + 2].type = "IDENTITY"
          /\ saved[k + 2].body = b.body
          /\ saved[k + 2].label = b.label
        BY <1>5, <1>13, <2>2, BagsOfFacts
    <2>5. (k + 1) + 1 = k + 2 /\ k + 1 < Len(saved)
        BY <1>0, <1>5, <2>2
    <2> QED BY <1>0, <1>1, <1>2, <1>8, <1>10, <1>11, <2>1, <2>3, <2>4, <2>5 DEF Importing
<1>14. CASE b.kind = "secret"
    <2>1. bags' = bags /\ cert' = None
        BY <1>8, <1>14
    <2>2. s.key = None
        BY <1>6, <1>14
    <2>3. Met' = Before(saved, k + 1) /\ Met' = Met
        BY <1>2, <1>4, <1>8, <2>1, <2>2 DEF Met
    <2> QED BY <1>0, <1>2, <1>8, <1>10, <1>11, <2>1, <2>3 DEF Importing
<1> QED BY <1>10, <1>12, <1>13, <1>14, <1>b

LEMMA SecretBrings ==
    ASSUME KInv, RInv, quiet, ImportSecret
    PROVE  AllProper(entries)' /\ Importing'
<1>k. PICK k \in Nat : k = Len(entries)
    BY DEF KInv, TypeOK
<1> DEFINE b == Head(bags)
           s == saved[k + 1]
           type == IF b.label \in KeyLabels THEN "KEY" ELSE "SECRET"
<1>0. /\ bags \in Seq(Bag) /\ medium \in Seq(Bag)
      /\ entries \in Seq(Entry) /\ saved \in Seq(Entry)
      /\ cert = None /\ bags # <<>> /\ pc = "import"
      /\ k \in Nat /\ Len(saved) \in Nat /\ k = Len(entries)
    BY <1>k DEF ImportSecret, KInv, TypeOK, RInv, Importing
<1>1. /\ b \in Bag /\ b = medium[Met + 1] /\ Met \in Nat /\ Met < Len(medium)
      /\ Len(medium) = Before(saved, Len(saved))
      /\ bags' = Tail(bags) /\ medium' = medium =>
            /\ Len(bags') <= Len(medium')
            /\ \A j \in 1..Len(bags') : bags'[j] = medium'[Met' + j]
            /\ Met' = Met + 1
    BY <1>0, NextBag
<1>2. /\ k <= Len(saved)
      /\ Met = Before(saved, k)
      /\ \A i \in 1..k : Back(i)
      /\ ArchiveOf(medium, saved, Len(saved))
      /\ medium \notin {Absent, Torn}
    BY <1>0 DEF RInv, Importing
<1>3. k < Len(saved)
    BY <1>0, <1>1, <1>2, EntryLeft
<1>4. s \in Entry /\ b = BagsOf(s)[1] /\ Proper(s)
    BY <1>0, <1>1, <1>2, <1>3, SavedBags
<1>5. /\ b.kind = "secret"
      /\ AppendEntry(type, b.body, None, b.label)
      /\ bags' = Tail(bags)
      /\ UNCHANGED <<medium, saved, cert>>
    BY DEF ImportSecret, InsertData, mediumVars
<1>6. s.type # "IDENTITY" /\ s.body = b.body /\ s.label = b.label /\ s.key = None
    BY <1>4, <1>5, BagsOfFacts DEF Proper
<1>7. s.type = type
    BY <1>4, <1>6 DEF Proper
<1>8. b.body \in Bodies /\ b.label \in Labels \cup {None} /\ type \in Types
    BY <1>1 DEF Bag, Types
<1>9. type # "IDENTITY" /\ type = (IF b.label \in KeyLabels THEN "KEY" ELSE "SECRET")
    OBVIOUS
<1> HIDE DEF type
<1>10. /\ AllProper(entries)'
       /\ Len(entries') = k + 1
       /\ \A i \in 1..k : entries'[i] = entries[i]
       /\ entries'[k + 1].type = type
       /\ entries'[k + 1].body = b.body
       /\ entries'[k + 1].key = None
       /\ entries'[k + 1].label = b.label
    <2>1. AllProper(entries)
        BY DEF RInv
    <2> QED BY <1>0, <1>5, <1>8, <1>9, <2>1, AppendProper
<1>11. \A i \in 1..(k + 1) : Back(i)'
    <2>1. ASSUME NEW i \in 1..k PROVE Back(i)'
        BY <1>2, <1>5, <1>10 DEF Back
    <2>2. Back(k + 1)'
        BY <1>5, <1>6, <1>7, <1>10 DEF Back
    <2> QED BY <1>0, <2>1, <2>2
<1>12. Met' = Before(saved, k + 1)
    <2>1. Before(saved, k + 1) = Before(saved, k) + 1
        BY <1>0, <1>6, BeforeNext
    <2> QED BY <1>1, <1>2, <1>5, <2>1
<1> QED BY <1>0, <1>1, <1>2, <1>3, <1>5, <1>10, <1>11, <1>12 DEF Importing

LEMMA NextBrings ==
    ASSUME KInv, RInv, quiet, ImportNext
    PROVE  Importing'
<1>k. PICK k \in Nat : k = Len(entries)
    BY DEF KInv, TypeOK
<1> DEFINE b == Head(bags)
           s == saved[k + 1]
<1>0. /\ bags \in Seq(Bag) /\ medium \in Seq(Bag)
      /\ entries \in Seq(Entry) /\ saved \in Seq(Entry)
      /\ cert = None /\ bags # <<>> /\ pc = "import"
      /\ k \in Nat /\ Len(saved) \in Nat /\ k = Len(entries)
    BY <1>k DEF ImportNext, KInv, TypeOK, RInv, Importing
<1>1. /\ b \in Bag /\ b = medium[Met + 1] /\ Met \in Nat /\ Met < Len(medium)
      /\ Len(medium) = Before(saved, Len(saved))
      /\ bags' = Tail(bags) /\ medium' = medium =>
            /\ Len(bags') <= Len(medium')
            /\ \A j \in 1..Len(bags') : bags'[j] = medium'[Met' + j]
            /\ Met' = Met + 1
    BY <1>0, NextBag
<1>2. /\ k <= Len(saved)
      /\ Met = Before(saved, k)
      /\ \A i \in 1..k : Back(i)
      /\ ArchiveOf(medium, saved, Len(saved))
      /\ medium \notin {Absent, Torn}
    BY <1>0 DEF RInv, Importing
<1>3. k < Len(saved)
    BY <1>0, <1>1, <1>2, EntryLeft
<1>4. s \in Entry /\ b = BagsOf(s)[1]
    BY <1>0, <1>1, <1>2, <1>3, SavedBags
<1>5. /\ b.kind # "secret"
      /\ cert' = (IF b.kind = "cert" THEN b.body ELSE None)
      /\ label' = (IF b.kind = "cert" THEN b.label ELSE label)
      /\ bags' = Tail(bags)
      /\ UNCHANGED <<entries, medium, saved>>
    BY DEF ImportNext, mediumVars
<1>6. b.kind = "cert" /\ s.type = "IDENTITY" /\ s.body = b.body /\ s.label = b.label
    BY <1>4, <1>5, BagsOfFacts
<1>7. cert' = b.body /\ label' = b.label /\ b.body # None
    BY <1>1, <1>5, <1>6, StoreAssumption DEF Bag
<1>8. Met' = Before(saved, k) + 1
    BY <1>1, <1>2, <1>5
<1>9. \A i \in 1..k : Back(i)'
    BY <1>2, <1>5 DEF Back
<1> QED BY <1>0, <1>1, <1>2, <1>3, <1>5, <1>6, <1>7, <1>8, <1>9 DEF Importing

LEMMA EndBrings ==
    ASSUME KInv, RInv, quiet, ImportEnd
    PROVE  AllProper(entries)' /\ Restored'
<1>k. PICK k \in Nat : k = Len(entries)
    BY DEF KInv, TypeOK
<1> DEFINE s == saved[k + 1]
           n == Len(saved)
<1>0. /\ bags = <<>> /\ medium \in Seq(Bag) /\ cert \in Bodies \cup {None}
      /\ entries \in Seq(Entry) /\ saved \in Seq(Entry)
      /\ label \in Labels \cup {None} /\ pc = "import"
      /\ k \in Nat /\ n \in Nat /\ Len(medium) \in Nat /\ k = Len(entries)
    BY <1>k DEF ImportEnd, KInv, TypeOK, RInv, Importing
<1>1. /\ k <= n
      /\ cert = None => Met = Before(saved, k)
      /\ cert # None => /\ k < n /\ Met = Before(saved, k) + 1
                        /\ s.type = "IDENTITY" /\ s.body = cert /\ s.label = label
      /\ \A i \in 1..k : Back(i)
      /\ Len(medium) = Before(saved, n)
      /\ AllProper(entries)
    BY <1>0 DEF RInv, Importing, ArchiveOf
<1>2. Met = Before(saved, n)
    <2>1. Met = Len(medium) - 0
        BY <1>0 DEF Met
    <2> QED BY <1>0, <1>1, <2>1
<1>3. saved' = saved
    BY DEF ImportEnd, mediumVars
<1>4. CASE cert = None
    <2>1. entries' = entries
        BY <1>4 DEF ImportEnd
    <2>2. k = n
        <3>1. ASSUME k < n PROVE FALSE
            <4>1. /\ Before(saved, k) \in Nat
                  /\ Before(saved, k + 1) > Before(saved, k)
                  /\ Before(saved, k + 1) \in Nat
                BY <1>0, BeforeMore
            <4>2. Before(saved, k + 1) <= Before(saved, n)
                BY <1>0, <3>1, BeforeGrows
            <4> QED BY <1>1, <1>2, <1>4, <4>1, <4>2
        <3> QED BY <1>0, <1>1, <3>1
    <2>3. ASSUME NEW i \in 1..n PROVE Back(i)'
        <3>1. Back(i)
            BY <1>1, <2>2
        <3> QED BY <1>3, <2>1, <3>1 DEF Back
    <2> QED BY <1>k, <1>1, <1>3, <2>1, <2>2, <2>3 DEF Restored, AllProper
<1>5. CASE cert # None
    <2>1. s \in Entry /\ Proper(s)
        <3>1. k + 1 \in DOMAIN saved
            BY <1>0, <1>1, <1>5
        <3> QED BY <1>0, <3>1 DEF RInv, AllProper
    <2>2. /\ Before(saved, k) \in Nat
          /\ Before(saved, k + 1) \in Nat
          /\ Before(saved, k + 1) = Before(saved, k) + IF s.key # None THEN 2 ELSE 1
        <3>1. s.type = "IDENTITY" /\ s.key # None <=> s.key # None
            BY <1>1, <1>5
        <3> HIDE DEF s
        <3>2. /\ Before(saved, k) \in Nat
              /\ Before(saved, k + 1) = Before(saved, k) + IF s.key # None THEN 2 ELSE 1
            BY <1>0, <3>1, BeforeNext DEF s
        <3> QED BY <1>0, <3>2, BeforeMore
    <2>3. Before(saved, k + 1) <= Before(saved, k) + 1
        BY <1>0, <1>1, <1>2, <1>5, BeforeGrows
    <2>4. s.key = None
        BY <2>2, <2>3
    <2>5. k + 1 = n
        <3>1. ASSUME k + 1 < n PROVE FALSE
            <4>1. /\ Before(saved, (k + 1) + 1) \in Nat
                  /\ Before(saved, (k + 1) + 1) > Before(saved, k + 1)
                <5>1. k + 1 \in Nat
                    BY <1>0
                <5> QED BY <5>1, BeforeMore
            <4>2. Before(saved, (k + 1) + 1) <= Before(saved, n)
                BY <1>0, <3>1, BeforeGrows
            <4> QED BY <1>1, <1>2, <1>5, <2>2, <2>4, <4>1, <4>2
        <3> QED BY <1>0, <1>1, <1>5, <3>1
    <2>6. AppendEntry("IDENTITY", cert, None, label)
        BY <1>5 DEF ImportEnd, InsertIdentity
    <2>7. /\ AllProper(entries)'
          /\ Len(entries') = k + 1
          /\ \A i \in 1..k : entries'[i] = entries[i]
          /\ entries'[k + 1].type = "IDENTITY"
          /\ entries'[k + 1].body = cert
          /\ entries'[k + 1].key = None
          /\ entries'[k + 1].label = label
        BY <1>0, <1>1, <1>5, <2>6, AppendProper DEF Types
    <2>8. \A i \in 1..n : Back(i)'
        <3>1. ASSUME NEW i \in 1..k PROVE Back(i)'
            BY <1>1, <1>3, <2>7 DEF Back
        <3>2. Back(k + 1)'
            BY <1>1, <1>3, <1>5, <2>4, <2>7 DEF Back
        <3> QED BY <1>0, <2>5, <3>1, <3>2
    <2> QED BY <1>3, <2>5, <2>7, <2>8 DEF Restored
<1> QED BY <1>4, <1>5

\* Every step keeps what Save wrote and what Load brings back in agreement.
LEMMA StepKeepsRInv ==
    ASSUME KInv, RInv, [Next]_vars
    PROVE  RInv'
<1>0. /\ TypeOK /\ BagInv /\ AllProper(entries) /\ AllProper(snapshot) /\ AllProper(saved)
      /\ entries \in Seq(Entry) /\ AllProper(<<>>)
    BY DEF KInv, RInv, TypeOK, AllProper
<1>1. CASE Insert
    <2>1. PICK body \in Bodies, lab \in Labels \cup {None} :
              \/ InsertIdentity(body, body, lab)
              \/ InsertIdentity(body, None, lab)
              \/ InsertData(body, lab)
        BY <1>1 DEF Insert
    <2>2. \E type \in Types, key \in Bodies \cup {None} :
              /\ AppendEntry(type, body, key, lab)
              /\ type # "IDENTITY" => type = (IF lab \in KeyLabels THEN "KEY" ELSE "SECRET")
              /\ key # None => type = "IDENTITY" /\ key = body
        BY <2>1 DEF InsertIdentity, InsertData, Types
    <2>3. AllProper(entries)'
        BY <1>0, <2>2, AppendProper
    <2> QED BY <1>1, <2>3 DEF Insert, Unlocked, RInv, AllProper, mediumVars, callVars
<1>2. ASSUME NEW type \in Types, NEW body \in Bodies, Remove(type, body)
      PROVE  RInv'
    <2>1. AllProper(entries)'
        BY <1>0, <1>2, RemoveProper DEF Remove
    <2> QED BY <1>2, <2>1 DEF Remove, Unlocked, RInv, AllProper, mediumVars, callVars
<1>3. CASE Find \/ UNCHANGED vars
    <2>1. UNCHANGED <<entries, mediumVars, callVars, quiet>>
        BY <1>3 DEF Find, FindStart, FindNext, FindNull, vars
    <2> QED BY <2>1 DEF RInv, AllProper, Importing, Restored, Back, Met, mediumVars, callVars
<1>4. CASE SaveOpen
    BY <1>4 DEF SaveOpen, RInv, AllProper, Restored, Back, callVars, mediumVars
<1>5. CASE ExportLock
    <2>1. ArchiveOf(<<>>, entries, 1 - 1)
        <3>1. Len(<<>>) = 0 /\ 1..0 = {} /\ 1 - 1 = 0
            OBVIOUS
        <3> QED BY <3>1, BeforeZero DEF ArchiveOf
    <2>2. bags' = <<>> /\ 1 <= Len(entries) + 1
        BY <1>0, <1>5 DEF ExportLock, BagInv
    <2> QED BY <1>5, <2>1, <2>2 DEF ExportLock, RInv, AllProper, Restored, Back, mediumVars
<1>6. CASE ExportEntry
    <2>1. /\ at \in Nat /\ at >= 1 /\ at <= Len(snapshot) /\ snapshot = entries
          /\ ArchiveOf(bags, snapshot, at - 1)
          /\ bags \in Seq(Bag) /\ snapshot \in Seq(Entry)
        BY <1>0, <1>6 DEF ExportEntry, BagInv, RInv, TypeOK
    <2>2. ArchiveOf(bags \o BagsOf(snapshot[(at - 1) + 1]), snapshot, (at - 1) + 1)
        <3>1. at - 1 \in Nat /\ at - 1 < Len(snapshot)
            BY <2>1
        <3> QED BY <2>1, <3>1, ArchiveGrows
    <2>3. /\ (at - 1) + 1 = at
          /\ at' - 1 = at
          /\ at' <= Len(snapshot) + 1
          /\ UNCHANGED <<entries, medium, saved, pc, snapshot, quiet>>
          /\ bags' = bags \o BagsOf(snapshot[at])
          /\ pc = "pack"
        BY <1>6, <2>1 DEF ExportEntry, mediumVars
    <2> QED BY <2>1, <2>2, <2>3 DEF RInv, AllProper, Restored, Back
<1>7. CASE ExportUnlock
    <2>1. at - 1 = Len(snapshot) /\ ArchiveOf(bags, snapshot, Len(snapshot)) /\ snapshot = entries
        BY <1>0, <1>7 DEF ExportUnlock, RInv, TypeOK
    <2> QED BY <1>7, <2>1 DEF ExportUnlock, RInv, AllProper, Restored, Back, mediumVars
<1>8. CASE SaveDelete
    BY <1>8 DEF SaveDelete, RInv, AllProper, Restored, Back
<1>9. CASE SaveWrite
    <2>1. /\ ArchiveOf(bags, snapshot, Len(snapshot))
          /\ quiet => snapshot = entries
          /\ pc' = "idle" /\ snapshot' = <<>> /\ UNCHANGED <<entries, quiet>>
        BY <1>9 DEF SaveWrite, RInv
    <2>2. CASE medium' = bags /\ saved' = snapshot
        <3>1. quiet => Restored'
            BY <2>1, <2>2 DEF Restored, Back
        <3> QED BY <1>0, <2>1, <2>2, <3>1 DEF RInv, AllProper
    <2>3. CASE medium' = (IF registry THEN Absent ELSE Torn) /\ saved' = saved
        <3>1. medium' \in {Absent, Torn}
            BY <2>3
        <3>2. quiet => Restored'
            BY <1>9, <2>1, <2>3 DEF SaveWrite, RInv, Restored, Back
        <3> QED BY <1>0, <2>1, <2>3, <3>1, <3>2 DEF RInv, AllProper
    <2> QED BY <1>9, <2>2, <2>3 DEF SaveWrite
<1>10. CASE LoadDestroy
    BY <1>0, <1>10 DEF LoadDestroy, RInv, AllProper, mediumVars
<1>11. CASE LoadRead
    <2>1. cert = None /\ medium \in Seq(Bag) /\ medium \notin {Absent, Torn} /\ saved \in Seq(Entry)
        BY <1>0, <1>11 DEF LoadRead, BagInv, TypeOK
    <2>2. /\ bags' = medium /\ pc' = "import"
          /\ UNCHANGED <<entries, medium, saved, cert, snapshot, quiet>>
        BY <1>11 DEF LoadRead, mediumVars
    <2>3. ASSUME quiet PROVE Importing'
        <3>1. entries = <<>> /\ Len(<<>>) = 0
            BY <1>11, <2>3 DEF LoadRead, RInv
        <3>2. Met' = 0 /\ Len(medium) \in Nat /\ \A j \in 1..Len(medium) : medium[j] = medium[0 + j]
            BY <2>1, <2>2 DEF Met
        <3> QED BY <2>1, <2>2, <3>1, <3>2, BeforeZero DEF Importing
    <2> QED BY <2>2, <2>3 DEF RInv, AllProper
<1>12. CASE LoadFails
    BY <1>12 DEF LoadFails, RInv, AllProper, mediumVars
<1>13. ASSUME ImportCert \/ ImportSecret \/ ImportNext \/ ImportEnd
       PROVE  RInv'
    <2>1. UNCHANGED <<medium, saved, snapshot, quiet>>
        BY <1>13 DEF ImportCert, ImportSecret, ImportNext, ImportEnd, mediumVars
    <2>2. pc' = IF ImportEnd THEN "idle" ELSE "import"
        BY <1>13 DEF ImportCert, ImportSecret, ImportNext, ImportEnd
    <2>3. AllProper(entries)'
        <3>1. CASE ImportCert
            <4> DEFINE b == Head(bags)
                       lab == IF b.kind = "key" THEN label ELSE b.label
                       key == IF b.kind = "key" THEN b.body ELSE None
            <4>1. b \in Bag /\ b = bags[1] /\ 1 \in DOMAIN bags
                BY <1>0, <3>1 DEF ImportCert, TypeOK
            <4>2. lab \in Labels \cup {None} /\ key \in Bodies \cup {None} /\ cert \in Bodies
                BY <1>0, <3>1, <4>1 DEF ImportCert, TypeOK, Bag
            <4>3. key # None => key = cert
                <5>1. ImportOrder /\ bags # <<>>
                    BY <1>0, <3>1 DEF ImportCert, BagInv
                <5>2. b.kind = "key" => cert = b.body
                    BY <4>1, <5>1 DEF ImportOrder
                <5> QED BY <5>2
            <4>4. AppendEntry("IDENTITY", cert, key, lab)
                BY <3>1 DEF ImportCert, InsertIdentity
            <4> HIDE DEF lab, key
            <4> QED BY <1>0, <4>2, <4>3, <4>4, AppendProper DEF Types
        <3>2. CASE ImportSecret
            <4> DEFINE b == Head(bags)
                       type == IF b.label \in KeyLabels THEN "KEY" ELSE "SECRET"
            <4>1. b \in Bag
                BY <1>0, <3>2 DEF ImportSecret, TypeOK
            <4>2. b.label \in Labels \cup {None} /\ b.body \in Bodies /\ type \in Types
                BY <4>1 DEF Bag, Types
            <4>3. AppendEntry(type, b.body, None, b.label)
                BY <3>2 DEF ImportSecret, InsertData
            <4>4. type = (IF b.label \in KeyLabels THEN "KEY" ELSE "SECRET")
                OBVIOUS
            <4> HIDE DEF type, b
            <4> QED BY <1>0, <4>2, <4>3, <4>4, AppendProper
        <3>3. CASE ImportNext
            BY <1>0, <3>3 DEF ImportNext, AllProper
        <3>4. CASE ImportEnd
            <4>1. CASE cert = None
                BY <1>0, <3>4, <4>1 DEF ImportEnd, AllProper
            <4>2. CASE cert # None
                <5>1. AppendEntry("IDENTITY", cert, None, label)
                    BY <3>4, <4>2 DEF ImportEnd, InsertIdentity
                <5> QED BY <1>0, <4>2, <5>1, AppendProper DEF Types, TypeOK
            <4> QED BY <4>1, <4>2
        <3> QED BY <1>13, <3>1, <3>2, <3>3, <3>4
    <2>4. quiet /\ pc' = "import" => Importing'
        BY <1>13, <2>2, CertBrings, SecretBrings, NextBrings
    <2>5. quiet /\ pc' # "import" => Restored'
        BY <2>2, EndBrings
    <2> QED BY <1>0, <2>1, <2>2, <2>3, <2>4, <2>5 DEF RInv, AllProper
<1>14. ASSUME NEW remove \in BOOLEAN, Reset(remove)
       PROVE  RInv'
    BY <1>0, <1>14 DEF Reset, RInv, AllProper, callVars
<1>15. CASE Crash
    BY <1>0, <1>15 DEF Crash, RInv, AllProper, mediumVars
<1> QED
    BY <1>1, <1>2, <1>3, <1>4, <1>5, <1>6, <1>7, <1>8, <1>9, <1>10, <1>11, <1>12, <1>13,
       <1>14, <1>15 DEF Next, Save, Load

\* What Save writes and what Import reads agree in every state.
THEOREM StoreArchiveInvariant == Spec => []RInv
<1>1. Init => RInv
    BY DEF Init, RInv, AllProper
<1>2. KInv /\ RInv /\ [Next]_vars => RInv'
    BY StepKeepsRInv
<1> QED BY <1>1, <1>2, StoreInvariant, PTL DEF Spec

\* A Load that succeeds undisturbed has brought back the entries of the last
\* Save that reached the medium, in order and with their keys, whatever crashed
\* in between; and their names, but for that of an identity without a key in
\* front of another entry.
THEOREM StoreLoadRestores == Spec => []LoadRestores
<1>1. KInv /\ RInv => LoadRestores
    <2> SUFFICES ASSUME KInv, RInv, pc = "idle", quiet PROVE LoadRestores
        BY DEF LoadRestores
    <2>1. Restored /\ DOMAIN saved = 1..Len(saved)
        BY DEF RInv, KInv, TypeOK
    <2> QED BY <2>1 DEF Restored, Back, LoadRestores
<1> QED BY <1>1, StoreInvariant, StoreArchiveInvariant, PTL
==============================================================================

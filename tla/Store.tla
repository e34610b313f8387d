-------------------------------- MODULE Store --------------------------------
(***************************************************************************)
(* PTP::Store (ptp/store.cpp): an archive of identities, keys and secrets  *)
(* kept in a locked list and saved to a file or, on Win32, to a registry   *)
(* value.  Insert, Remove and Find hold the list's lock for all they do,   *)
(* so each is one step and may be made by any thread at any time.  Load    *)
(* and Save take the lock only for parts of their work; one thread makes   *)
(* them, a step at a time, and the program may crash between the steps.    *)
(*                                                                         *)
(* The archive on the medium is a sequence of PKCS#12 bags.  The friendly  *)
(* name and the id of an entry always travel together and are one label;   *)
(* KeyLabels are those whose friendly name is ".KEYDATA.".  A body stands  *)
(* for a modulus or for data.                                              *)
(***************************************************************************)
EXTENDS Naturals, Sequences, FiniteSets

SX == INSTANCE SequencesExt

CONSTANTS
    Ptrs,        \* addresses of entries; one that was freed may be used again
    Bodies,      \* moduli of identities, data of keys and secrets
    Labels,      \* friendly name and id
    KeyLabels,   \* those of them that mark a key
    Wanted,      \* the types that loops over Find ask for
    None,        \* NULL
    Absent,      \* the medium holds no archive
    Torn,        \* it holds one that fails to parse or to match its MAC
    MaxEntries,  \* bound: entries in the list and still to be loaded
    MaxCalls     \* bound: calls that change something, and crashes

Types == {"IDENTITY", "KEY", "SECRET"}

ASSUME StoreAssumption ==
    /\ Wanted \subseteq Types \cup {"ALL"}
    /\ KeyLabels \subseteq Labels
    /\ None \notin Bodies \cup Labels \cup Ptrs
    /\ MaxEntries \in Nat
    /\ MaxCalls \in Nat

\* key is the private key of an identity.  A copy of the caller's identity is
\* stored with its key exactly when exportkey says so, which leaves exportkey
\* with nothing to add.
Entry == [ptr : Ptrs, type : Types, body : Bodies, key : Bodies \cup {None},
          label : Labels \cup {None}]
Bag == [kind : {"cert", "key", "secret"}, body : Bodies, label : Labels \cup {None}]

VARIABLES
    registry,   \* m_key # NULL: the medium is a registry value
    entries,    \* m_entries
    medium,     \* the archive on the storage medium
    pc,         \* where the Load or Save under way is
    bags,       \* Import: the bags still to come; Save: the bags exported
    cert,       \* Import: the certificate that waits for its key bag
    label,      \* Import: friendly and id
    at,         \* Export: the entry its loop is at
    want,       \* the type an iteration of Find asks for; None: no iteration
    from,       \* its last result
    todo,       \* history: entries there from its start, of its type and not yet found
    done,       \* history: entries it has found
    cut,        \* history: an entry was removed while it was the last result
    snapshot,   \* history: the entries the Save under way has exported
    saved,      \* history: the entries the medium's archive was made from
    quiet,      \* history: only a Load that succeeds has changed entries since it began
    calls

mediumVars == <<medium, saved>>
callVars == <<pc, bags, cert, label, at, snapshot>>
findVars == <<want, from, todo, done, cut>>
vars == <<registry, entries, mediumVars, callVars, findVars, quiet, calls>>

PtrsIn(list) == {list[i].ptr : i \in DOMAIN list}

TypeOK ==
    /\ registry \in BOOLEAN
    /\ entries \in Seq(Entry)
    /\ medium \in Seq(Bag) \cup {Absent, Torn}
    /\ pc \in {"idle", "export", "pack", "delete", "write", "read", "import"}
    /\ bags \in Seq(Bag)
    /\ cert \in Bodies \cup {None}
    /\ label \in Labels \cup {None}
    /\ at \in Nat
    /\ want \in Types \cup {"ALL", None}
    /\ from \in Ptrs \cup {None}
    /\ todo \in SUBSET Ptrs
    /\ done \in SUBSET Ptrs
    /\ cut \in BOOLEAN
    /\ snapshot \in Seq(Entry)
    /\ saved \in Seq(Entry)
    /\ quiet \in BOOLEAN
    /\ calls \in Nat

Init ==
    /\ registry \in BOOLEAN
    /\ entries = <<>>
    /\ medium = Absent
    /\ pc = "idle"
    /\ bags = <<>>
    /\ cert = None
    /\ label = None
    /\ at = 0
    /\ want = None
    /\ from = None
    /\ todo = {}
    /\ done = {}
    /\ cut = FALSE
    /\ snapshot = <<>>
    /\ saved = <<>>
    /\ quiet = FALSE
    /\ calls = 0

\* The list's lock is free: the export does not hold it.
Unlocked == pc # "pack"

Call ==
    /\ calls < MaxCalls
    /\ calls' = calls + 1

----------------------------------------------------------------------------
(* Insert and Remove *)

\* Append a new entry to the list, at an address nothing uses.
AppendEntry(type, body, key, lab) ==
    \E p \in Ptrs \ PtrsIn(entries) :
        entries' = Append(entries, [ptr |-> p, type |-> type, body |-> body, key |-> key,
                                    label |-> lab])

\* Insert(list, ident, exportkey, friendly, id, idsize)
InsertIdentity(body, key, lab) == AppendEntry("IDENTITY", body, key, lab)

\* Insert(list, data, size, friendly, id, idsize): the name makes it a key.
InsertData(body, lab) ==
    AppendEntry(IF lab \in KeyLabels THEN "KEY" ELSE "SECRET", body, None, lab)

\* Entries in the list, waiting in Import and in the bags still to come.
Volume(bs) == Len(entries) + (IF cert = None THEN 0 ELSE 1)
                  + Cardinality({i \in DOMAIN bs : bs[i].kind # "key"})

Insert ==
    /\ Call
    /\ Unlocked
    /\ Volume(bags) < MaxEntries
    /\ \E body \in Bodies, lab \in Labels \cup {None} :
          \/ InsertIdentity(body, body, lab)
          \/ InsertIdentity(body, None, lab)
          \/ InsertData(body, lab)
    /\ quiet' = FALSE
    /\ UNCHANGED <<registry, mediumVars, callVars, findVars>>

\* The entries at ptrs are deleted: no iteration is to find them any more.
Forget(ptrs) ==
    /\ todo' = todo \ ptrs
    /\ done' = done \ ptrs
    /\ cut' = (cut \/ from \in ptrs)
    /\ UNCHANGED <<want, from>>

Is(e, type, body) == e.type = type /\ e.body = body

\* Remove(ident), Remove(key), Remove(secret, size): the first entry of that
\* type with that modulus or data.  Without one they return -1.
Remove(type, body) ==
    /\ Call
    /\ Unlocked
    /\ \E i \in DOMAIN entries :
          /\ Is(entries[i], type, body)
          /\ \A j \in 1..(i - 1) : ~Is(entries[j], type, body)
          /\ entries' = SX!RemoveAt(entries, i)
          /\ Forget({entries[i].ptr})
    /\ quiet' = FALSE
    /\ UNCHANGED <<registry, mediumVars, callVars>>

----------------------------------------------------------------------------
(* Find(type, ..., from), as in the loop of its documentation: each result *)
(* is the from of the next call, until the result is NULL.                 *)

FindStart(type) ==
    /\ Unlocked
    /\ want = None
    /\ want' = type
    /\ todo' = {e.ptr : e \in {entries[i] : i \in {j \in DOMAIN entries :
                                  type \in {"ALL", entries[j].type}}}}
    /\ from' = None
    /\ done' = {}
    /\ cut' = FALSE
    /\ UNCHANGED <<registry, entries, mediumVars, callVars, quiet, calls>>

\* Mutant: the entry after the previous result is passed over.
BehindSkips(i) == from = None \/ \E j \in 1..(i - 2) : entries[j].ptr = from

\* Entries are matched only behind the previous result.
Behind(i) == from = None \/ \E j \in 1..(i - 1) : entries[j].ptr = from

Hits == {i \in DOMAIN entries : Behind(i) /\ want \in {"ALL", entries[i].type}}

FindNext ==
    /\ Unlocked
    /\ want # None
    /\ \E i \in Hits :
          /\ \A j \in Hits : i <= j
          /\ from' = entries[i].ptr
          /\ todo' = todo \ {entries[i].ptr}
          /\ done' = done \cup {entries[i].ptr}
    /\ UNCHANGED <<registry, entries, mediumVars, callVars, want, cut, quiet, calls>>

\* The loop is over.
FindOver ==
    /\ want' = None
    /\ from' = None
    /\ todo' = {}
    /\ done' = {}
    /\ cut' = FALSE

FindNull ==
    /\ Unlocked
    /\ want # None
    /\ Hits = {}
    /\ FindOver
    /\ UNCHANGED <<registry, entries, mediumVars, callVars, quiet, calls>>

----------------------------------------------------------------------------
(* Save.  A file is truncated when it is opened, before the export; the    *)
(* registry value is deleted after it.  Neither BIO_new_file failing (-1)  *)
(* nor a store without a path (-1) changes anything.                       *)

SaveOpen ==
    /\ pc = "idle"
    /\ Call
    /\ pc' = "export"
    /\ medium' = IF registry THEN medium ELSE Torn
    /\ UNCHANGED <<registry, at, entries, saved, bags, cert, label, snapshot, findVars, quiet>>

\* Mutant: the key bag is put in front of its certificate.
BagsOfKeyFirst(e) ==
    LET b == [kind |-> "cert", body |-> e.body, label |-> e.label]
        k == [kind |-> "key", body |-> e.body, label |-> None]
    IN  IF e.type # "IDENTITY" THEN <<[b EXCEPT !.kind = "secret"]>>
        ELSE IF e.key = None THEN <<b>> ELSE <<k, b>>

\* Mutant: a key bag is made without asking whether there is a key.
BagsOfAlwaysKey(e) ==
    LET b == [kind |-> "cert", body |-> e.body, label |-> e.label]
        k == [kind |-> "key", body |-> e.key, label |-> None]
    IN  IF e.type # "IDENTITY" THEN <<[b EXCEPT !.kind = "secret"]>> ELSE <<b, k>>

\* The bags of one entry: a certificate is followed by its key.
BagsOf(e) ==
    LET b == [kind |-> "cert", body |-> e.body, label |-> e.label]
        k == [kind |-> "key", body |-> e.key, label |-> None]
    IN  IF e.type # "IDENTITY" THEN <<[b EXCEPT !.kind = "secret"]>>
        ELSE IF e.key = None THEN <<b>> ELSE <<b, k>>

\* Export(list, ..., bio) locks the list, packs one entry after the other and
\* unlocks.
ExportLock ==
    /\ pc = "export"
    /\ snapshot' = entries
    /\ at' = 1
    /\ pc' = "pack"
    /\ UNCHANGED <<registry, entries, mediumVars, bags, cert, label, findVars, quiet, calls>>

ExportEntry ==
    /\ pc = "pack"
    /\ at <= Len(entries)
    /\ bags' = bags \o BagsOf(entries[at])
    /\ at' = at + 1
    /\ UNCHANGED <<registry, entries, mediumVars, pc, cert, label, snapshot, findVars, quiet,
                   calls>>

ExportUnlock ==
    /\ pc = "pack"
    /\ at > Len(entries)
    /\ at' = 0
    /\ pc' = IF registry THEN "delete" ELSE "write"
    /\ UNCHANGED <<registry, entries, mediumVars, bags, cert, label, snapshot, findVars,
                   quiet, calls>>

SaveDelete ==
    /\ pc = "delete"
    /\ medium' = Absent
    /\ pc' = "write"
    /\ UNCHANGED <<registry, at, entries, saved, bags, cert, label, snapshot, findVars,
                   quiet, calls>>

\* What is written gets there, or does not (a full disk, a registry error);
\* Save returns 0 either way.
SaveWrite ==
    /\ pc = "write"
    /\ \/ medium' = bags /\ saved' = snapshot
       \/ medium' = (IF registry THEN Absent ELSE Torn) /\ UNCHANGED saved
    /\ bags' = <<>>
    /\ snapshot' = <<>>
    /\ pc' = "idle"
    /\ UNCHANGED <<registry, at, entries, cert, label, findVars, quiet, calls>>

----------------------------------------------------------------------------
(* Load: the entries are destroyed before the medium is opened. *)

LoadDestroy ==
    /\ pc = "idle"
    /\ Call
    /\ entries' = <<>>
    /\ Forget(PtrsIn(entries))
    /\ pc' = "read"
    /\ quiet' = TRUE
    /\ UNCHANGED <<registry, at, mediumVars, bags, cert, label, snapshot>>

\* The whole archive is read and its MAC verified, or Load returns -1.
LoadRead ==
    /\ pc = "read"
    /\ medium \notin {Absent, Torn}
    /\ Volume(medium) <= MaxEntries
    /\ bags' = medium
    /\ pc' = "import"
    /\ UNCHANGED <<registry, at, entries, mediumVars, cert, label, snapshot, findVars, quiet,
                   calls>>

LoadFails ==
    /\ pc = "read"
    /\ medium \in {Absent, Torn}
    /\ pc' = "idle"
    /\ quiet' = FALSE
    /\ UNCHANGED <<registry, at, entries, mediumVars, bags, cert, label, snapshot, findVars,
                   calls>>

\* One turn of Import's loop.  The label is that of the bag just met, unless it
\* is a key bag; the certificate of an earlier turn is inserted with it.
\* A secret follows in a turn of its own (ImportSecret) when a certificate
\* was waiting.
ImportCert ==
    /\ pc = "import"
    /\ bags # <<>>
    /\ cert # None
    /\ LET b == Head(bags)
           lab == IF b.kind = "key" THEN label ELSE b.label
       IN  /\ InsertIdentity(cert, IF b.kind = "key" THEN b.body ELSE None, lab)
           /\ label' = lab
           /\ cert' = IF b.kind = "cert" THEN b.body ELSE None
           /\ bags' = IF b.kind = "secret" THEN bags ELSE Tail(bags)
    /\ UNCHANGED <<registry, at, mediumVars, pc, snapshot, findVars, quiet, calls>>

ImportSecret ==
    /\ pc = "import"
    /\ bags # <<>>
    /\ cert = None
    /\ LET b == Head(bags)
       IN  /\ b.kind = "secret"
           /\ InsertData(b.body, b.label)
           /\ label' = b.label
    /\ bags' = Tail(bags)
    /\ UNCHANGED <<registry, at, mediumVars, pc, cert, snapshot, findVars, quiet, calls>>

\* A certificate waits for the next bag; a key without one is dropped.
ImportNext ==
    /\ pc = "import"
    /\ bags # <<>>
    /\ cert = None
    /\ LET b == Head(bags)
       IN  /\ b.kind # "secret"
           /\ cert' = IF b.kind = "cert" THEN b.body ELSE None
           /\ label' = IF b.kind = "cert" THEN b.label ELSE label
    /\ bags' = Tail(bags)
    /\ UNCHANGED <<registry, at, entries, mediumVars, pc, snapshot, findVars, quiet, calls>>

\* Mutant: a certificate that still waits after the last bag is lost.
ImportEndLoses ==
    /\ pc = "import"
    /\ bags = <<>>
    /\ cert' = None
    /\ label' = None
    /\ pc' = "idle"
    /\ UNCHANGED <<registry, at, entries, mediumVars, bags, snapshot, findVars, quiet, calls>>

\* After the last bag: a certificate that still waits has no key.
ImportEnd ==
    /\ pc = "import"
    /\ bags = <<>>
    /\ IF cert = None THEN UNCHANGED entries ELSE InsertIdentity(cert, None, label)
    /\ cert' = None
    /\ label' = None
    /\ pc' = "idle"
    /\ UNCHANGED <<registry, at, mediumVars, bags, snapshot, findVars, quiet, calls>>

----------------------------------------------------------------------------
\* Reset(remove)
Reset(remove) ==
    /\ pc = "idle"
    /\ Call
    /\ entries' = <<>>
    /\ Forget(PtrsIn(entries))
    /\ medium' = IF remove THEN Absent ELSE medium
    /\ quiet' = FALSE
    /\ UNCHANGED <<registry, saved, callVars>>

\* The process ends, anywhere; the next one starts with an empty store on the
\* same medium.
Crash ==
    /\ Call
    /\ entries' = <<>>
    /\ pc' = "idle"
    /\ bags' = <<>>
    /\ cert' = None
    /\ label' = None
    /\ at' = 0
    /\ snapshot' = <<>>
    /\ FindOver
    /\ quiet' = FALSE
    /\ UNCHANGED <<registry, mediumVars>>

Find == \/ \E type \in Wanted : FindStart(type)
        \/ FindNext
        \/ FindNull

Save == SaveOpen \/ ExportLock \/ ExportEntry \/ ExportUnlock \/ SaveDelete \/ SaveWrite

Load == \/ LoadDestroy
        \/ LoadRead
        \/ LoadFails
        \/ ImportCert
        \/ ImportSecret
        \/ ImportNext
        \/ ImportEnd

Next ==
    \/ Insert
    \/ \E type \in Types, body \in Bodies : Remove(type, body)
    \/ Find
    \/ Save
    \/ Load
    \/ \E remove \in BOOLEAN : Reset(remove)
    \/ Crash

Spec == Init /\ [][Next]_vars
----------------------------------------------------------------------------
(* Properties *)

\* Between Inserts, Removes, Loads and crashes, an identity never gets a
\* private key that is not its own, and keys and secrets never get one: in
\* Import a key bag goes with the certificate that waits for it.
KeyMatches ==
    \A i \in DOMAIN entries :
        entries[i].key # None =>
            entries[i].type = "IDENTITY" /\ entries[i].key = entries[i].body

\* A Load that reports success, and that nothing disturbed, has brought back
\* the entries of the last Save that reached the medium, in their order and
\* with their keys, whatever crashed in between; and their names, except for
\* an identity without a key in front of another entry.
LoadRestores ==
    pc = "idle" /\ quiet =>
        /\ Len(entries) = Len(saved)
        /\ \A i \in DOMAIN saved :
              /\ entries[i].type = saved[i].type
              /\ entries[i].body = saved[i].body
              /\ entries[i].key = saved[i].key
              /\ \/ entries[i].label = saved[i].label
                 \/ saved[i].type = "IDENTITY" /\ saved[i].key = None /\ i # Len(saved)

\* A loop over Find has every entry that was there at its start, and was not
\* removed since, either behind it or still ahead, whatever other threads
\* insert or remove, unless they remove the entry the loop stands at.
FindComplete ==
    want # None /\ ~cut => todo \subseteq {entries[i].ptr : i \in Hits}

\* No loop over Find meets an entry twice, not even after the entry it stands
\* at was removed and its memory used for a new one.
FindOnce ==
    want # None => \A i \in Hits : entries[i].ptr \notin done

\* A loop over Find meets every entry that stays, and each of them once.
FindExact == FindComplete /\ FindOnce

\* Names survive Save and Load (violated: an identity without a key in front
\* of another entry is loaded under that entry's name).
NamesRestored ==
    pc = "idle" /\ quiet =>
        \A i \in DOMAIN saved : entries[i].label = saved[i].label
==============================================================================

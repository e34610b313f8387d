----------------------------- MODULE Collection -----------------------------
(***************************************************************************)
(* PTP::Collection (ptp/collect.cpp): named entries, some added by callers *)
(* and some found by scanning directories.  Any thread adds entries and    *)
(* searches; the thread Main also keeps the list of directories, rescans   *)
(* them and destroys entries, as the shared-folder calls of trut.cpp do.   *)
(*                                                                         *)
(* Two lists, two locks: m_entries and m_dirs.  Add, Destroy and the first *)
(* half of Rescan change m_entries and m_size under the lock of m_entries, *)
(* one after the other: GetSize reads m_size with no lock and Find walks   *)
(* m_entries under the lock of m_dirs, so both see the steps in between.   *)
(* The counter m_id is read and written with no lock at all.               *)
(*                                                                         *)
(* A file is a path below a shared directory.  Which of them a scan takes  *)
(* differs: on POSIX those with an extension of the list; on Win32 the     *)
(* list is lost on the way into a subdirectory, whose files are all taken. *)
(***************************************************************************)
EXTENDS Naturals, Sequences, FiniteSets

SX == INSTANCE SequencesExt

CONSTANTS
    Threads,
    Main,       \* the thread that owns the directories
    Cells,      \* addresses of entries; one that was freed may be used again
    Names,      \* files, and names of data entries
    Listed,     \* those that end with an extension of the list (CmpExt, see Matching)
    Deep,       \* the files that lie in a subdirectory
    Patterns,   \* the sets of names that search patterns match
    Dirs,       \* directories that can be shared
    None,
    MaxCalls    \* bound: calls

ASSUME CollectionAssumption ==
    /\ Main \in Threads
    /\ None \notin Threads \cup Cells \cup Names \cup Dirs
    /\ Listed \subseteq Names /\ Deep \subseteq Names
    /\ Patterns \subseteq SUBSET Names
    /\ MaxCalls \in Nat

VARIABLES
    win32,      \* the build: Win32 or POSIX
    disk,       \* the files in each directory and below
    dirs,       \* m_dirs
    dirsOwner,  \* who holds its lock
    entries,    \* m_entries, the head first
    entriesOwner,\* who holds its lock
    name,       \* m_name of each cell
    dir,        \* the directory an entry was scanned from (m_rescanned); None: added by a caller
    id,         \* m_id of each cell
    nextId,     \* m_id of the collection
    raced,      \* history: an Add read nextId between the read and the write of another
    size,       \* m_size
    pc,
    ent,        \* Add, Destroy: the entry
    reg,        \* Add: the m_id it has read
    pat,        \* Find: the names it matches
    num,        \* Find: the number it matches; None: any
    from,       \* Find: the previous result it has still to meet
    tmp,        \* Find, Rescan: the entry its walk comes to next
    res,        \* Find: the result
    hope,       \* history: the first match when the walk began
    calm,       \* history: nothing was removed since
    scanDirs,   \* Rescan: the directories still to be scanned
    scanFiles,  \* Rescan: the files of the first of them still to be added
    fresh,      \* history: directories and files are as the last Rescan met them
    calls

idVars == <<nextId, raced>>
entryVars == <<entries, entriesOwner, name, dir, id, size>>
findVars == <<pat, num, from, tmp, res, hope>>
scanVars == <<scanDirs, scanFiles>>
vars == <<win32, disk, dirs, dirsOwner, entryVars, idVars, pc, ent, reg, findVars, calm,
          scanVars, fresh, calls>>

TypeOK ==
    /\ win32 \in BOOLEAN
    /\ disk \in [Dirs -> SUBSET Names]
    /\ dirs \in Seq(Dirs)
    /\ dirsOwner \in Threads \cup {None}
    /\ entries \in Seq(Cells)
    /\ entriesOwner \in Threads \cup {None}
    /\ name \in [Cells -> Names \cup {None}]
    /\ dir \in [Cells -> Dirs \cup {None}]
    /\ id \in [Cells -> Nat]
    /\ nextId \in Nat /\ raced \in BOOLEAN
    /\ size \in Nat
    /\ pc \in [Threads -> {"idle", "add", "addId", "addInsert", "addCount", "destroyed", "rescan",
                           "purge", "scanLock", "scanDir", "scanFile", "findLock", "walk",
                           "found", "dead"}]
    /\ ent \in [Threads -> Cells \cup {None}]
    /\ reg \in [Threads -> Nat]
    /\ pat \in [Threads -> SUBSET Names]
    /\ num \in [Threads -> Nat \cup {None}]
    /\ from \in [Threads -> Cells \cup {None}]
    /\ tmp \in [Threads -> Cells \cup {None}]
    /\ res \in [Threads -> Cells \cup {None}]
    /\ hope \in [Threads -> Cells \cup {None}]
    /\ calm \in [Threads -> BOOLEAN]
    /\ scanDirs \in Seq(Dirs)
    /\ scanFiles \in SUBSET Names
    /\ fresh \in BOOLEAN
    /\ calls \in Nat

Init ==
    /\ win32 \in BOOLEAN
    /\ disk \in [Dirs -> SUBSET Names]
    /\ dirs = <<>>
    /\ dirsOwner = None
    /\ entries = <<>>
    /\ entriesOwner = None
    /\ name = [c \in Cells |-> None]
    /\ dir = [c \in Cells |-> None]
    /\ id = [c \in Cells |-> 0]
    /\ nextId = 0 /\ raced = FALSE
    /\ size = 0
    /\ pc = [t \in Threads |-> "idle"]
    /\ ent = [t \in Threads |-> None]
    /\ reg = [t \in Threads |-> 0]
    /\ pat = [t \in Threads |-> {}]
    /\ num = [t \in Threads |-> None]
    /\ from = [t \in Threads |-> None]
    /\ tmp = [t \in Threads |-> None]
    /\ res = [t \in Threads |-> None]
    /\ hope = [t \in Threads |-> None]
    /\ calm = [t \in Threads |-> TRUE]
    /\ scanDirs = <<>>
    /\ scanFiles = {}
    /\ fresh = FALSE
    /\ calls = 0

Goto(t, label) == pc' = [pc EXCEPT ![t] = label]

Call(t, label) ==
    /\ pc[t] = "idle"
    /\ calls < MaxCalls
    /\ calls' = calls + 1
    /\ Goto(t, label)

InList == SX!ToSet(entries)

\* Memory that new may return.
Free == Cells \ (InList \cup {ent[t] : t \in Threads})

\* new Entry(...), freshly allocated for t to add.
NewEntry(t, n, d) ==
    \E c \in Free :
        /\ ent' = [ent EXCEPT ![t] = c]
        /\ name' = [name EXCEPT ![c] = n]
        /\ dir' = [dir EXCEPT ![c] = d]
        /\ id' = [id EXCEPT ![c] = 0]

----------------------------------------------------------------------------
(* Add(entry): id = m_id++ with no lock, then the list and its size. *)

AddCall(t, n) ==
    /\ Call(t, "add")
    /\ NewEntry(t, n, None)
    /\ UNCHANGED <<win32, disk, dirs, dirsOwner, entries, entriesOwner, idVars, size, reg,
                   findVars, calm, scanVars, fresh>>

AddRead(t) ==
    /\ pc[t] = "add"
    /\ reg' = [reg EXCEPT ![t] = nextId]
    /\ raced' = (raced \/ \E u \in Threads : pc[u] = "addId")
    /\ Goto(t, "addId")
    /\ UNCHANGED <<win32, disk, dirs, dirsOwner, entryVars, nextId, ent, findVars, calm,
                   scanVars, fresh, calls>>

\* Mutant: m_id stays as it is.
AddIdSame(t) ==
    /\ pc[t] = "addId"
    /\ id' = [id EXCEPT ![ent[t]] = reg[t]]
    /\ Goto(t, "addInsert")
    /\ UNCHANGED <<win32, disk, dirs, dirsOwner, entries, entriesOwner, name, dir, size, idVars,
                   ent, reg, findVars, calm, scanVars, fresh, calls>>

AddId(t) ==
    /\ pc[t] = "addId"
    /\ nextId' = reg[t] + 1
    /\ id' = [id EXCEPT ![ent[t]] = reg[t]]
    /\ Goto(t, "addInsert")
    /\ UNCHANGED <<win32, disk, dirs, dirsOwner, entries, entriesOwner, name, dir, size, raced,
                   ent, reg, findVars, calm, scanVars, fresh, calls>>

AddInsert(t) ==
    /\ pc[t] = "addInsert"
    /\ entriesOwner = None
    /\ entriesOwner' = t
    /\ entries' = <<ent[t]>> \o entries
    /\ Goto(t, "addCount")
    /\ UNCHANGED <<win32, disk, dirs, dirsOwner, name, dir, id, size, idVars, ent, reg,
                   findVars, calm, scanVars, fresh, calls>>

AddCount(t) ==
    /\ pc[t] = "addCount"
    /\ size' = size + 1
    /\ entriesOwner' = None
    /\ ent' = [ent EXCEPT ![t] = None]
    /\ reg' = [reg EXCEPT ![t] = 0]
    /\ Goto(t, IF dir[ent[t]] = None THEN "idle" ELSE "scanFile")
    /\ UNCHANGED <<win32, disk, dirs, dirsOwner, entries, name, dir, id, idVars, findVars,
                   calm, scanVars, fresh, calls>>

----------------------------------------------------------------------------
(* Removal of entries: Destroy, and the first half of Rescan. *)

\* The items of list that are in kept, in their order.
Filter(list, kept) ==
    LET part[i \in 0..Len(list)] ==
            IF i = 0 THEN <<>>
            ELSE IF list[i] \in kept THEN Append(part[i - 1], list[i]) ELSE part[i - 1]
    IN  part[Len(list)]

Unlink(c) == entries' = Filter(entries, InList \ {c})

\* Destroy(entry): the list and its size, and delete, after the lock.
Destroy(c) ==
    /\ Call(Main, "destroyed")
    /\ c \in InList
    /\ entriesOwner = None
    /\ entriesOwner' = Main
    /\ Unlink(c)
    /\ ent' = [ent EXCEPT ![Main] = c]
    /\ calm' = [t \in Threads |-> FALSE]
    /\ fresh' = (fresh /\ dir[c] = None)
    /\ UNCHANGED <<win32, disk, dirs, dirsOwner, name, dir, id, size, idVars, reg, findVars,
                   scanVars>>

DestroyCount ==
    /\ pc[Main] = "destroyed"
    /\ size' = size - 1
    /\ entriesOwner' = None
    /\ ent' = [ent EXCEPT ![Main] = None]
    /\ Goto(Main, "idle")
    /\ UNCHANGED <<win32, disk, dirs, dirsOwner, entries, name, dir, id, idVars, reg,
                   findVars, calm, scanVars, fresh, calls>>

\* Where a PTP_LIST_FOREACH starts, and the entry after c, its m_next.  Remove has
\* linked an entry that is gone to itself, and the freed memory may still say so.
At(i) == IF i \in DOMAIN entries THEN entries[i] ELSE None

After(c) ==
    IF c \in InList THEN At(1 + CHOOSE i \in DOMAIN entries : entries[i] = c) ELSE c

RescanCall ==
    /\ Call(Main, "rescan")
    /\ fresh' = TRUE
    /\ UNCHANGED <<win32, disk, dirs, dirsOwner, entryVars, idVars, ent, reg, findVars, calm,
                   scanVars>>

\* The loop over m_entries counts anew what callers have added and removes the rest.
RescanBegin ==
    /\ pc[Main] = "rescan"
    /\ entriesOwner = None
    /\ entriesOwner' = Main
    /\ size' = 0
    /\ tmp' = [tmp EXCEPT ![Main] = At(1)]
    /\ Goto(Main, "purge")
    /\ UNCHANGED <<win32, disk, dirs, dirsOwner, entries, name, dir, id, idVars, ent, reg,
                   pat, num, from, res, hope, calm, scanVars, fresh, calls>>

RescanDrop ==
    /\ pc[Main] = "purge"
    /\ tmp[Main] # None
    /\ dir[tmp[Main]] # None
    /\ Unlink(tmp[Main])
    /\ tmp' = [tmp EXCEPT ![Main] = After(tmp[Main])]
    /\ calm' = [t \in Threads |-> FALSE]
    /\ UNCHANGED <<win32, disk, dirs, dirsOwner, entriesOwner, name, dir, id, size, idVars, pc,
                   ent, reg, pat, num, from, res, hope, scanVars, fresh, calls>>

\* Mutant: the entries that stay are not counted again.
RescanCountNone ==
    /\ pc[Main] = "purge"
    /\ tmp[Main] # None
    /\ dir[tmp[Main]] = None
    /\ tmp' = [tmp EXCEPT ![Main] = After(tmp[Main])]
    /\ UNCHANGED <<win32, disk, dirs, dirsOwner, entryVars, idVars, pc, ent, reg, pat, num,
                   from, res, hope, calm, scanVars, fresh, calls>>

RescanCount ==
    /\ pc[Main] = "purge"
    /\ tmp[Main] # None
    /\ dir[tmp[Main]] = None
    /\ size' = size + 1
    /\ tmp' = [tmp EXCEPT ![Main] = After(tmp[Main])]
    /\ UNCHANGED <<win32, disk, dirs, dirsOwner, entries, entriesOwner, name, dir, id, idVars,
                   pc, ent, reg, pat, num, from, res, hope, calm, scanVars, fresh, calls>>

RescanPurged ==
    /\ pc[Main] = "purge"
    /\ tmp[Main] = None
    /\ entriesOwner' = None
    /\ Goto(Main, "scanLock")
    /\ UNCHANGED <<win32, disk, dirs, dirsOwner, entries, name, dir, id, size, idVars, ent,
                   reg, findVars, calm, scanVars, fresh, calls>>

----------------------------------------------------------------------------
(* The second half of Rescan: every directory, under the lock of m_dirs.   *)
(* Scan and ScanDir read the tree of a directory while others may change   *)
(* it; what they meet is what is there when the directory's turn comes.    *)

RescanLock ==
    /\ pc[Main] = "scanLock"
    /\ dirsOwner = None
    /\ dirsOwner' = Main
    /\ scanDirs' = dirs
    /\ Goto(Main, "scanDir")
    /\ UNCHANGED <<win32, disk, dirs, entryVars, idVars, ent, reg, findVars, calm, scanFiles,
                   fresh, calls>>

\* Scan passes NULL for the extensions of a subdirectory.  ScanDir compares with the
\* parent's on POSIX and with those on Win32.
Taken(d) == {n \in disk[d] : n \in Listed \/ (win32 /\ n \in Deep)}

Scan ==
    /\ pc[Main] = "scanDir"
    /\ scanDirs # <<>>
    /\ scanFiles' = Taken(Head(scanDirs))
    /\ Goto(Main, "scanFile")
    /\ UNCHANGED <<win32, disk, dirs, dirsOwner, entryVars, idVars, ent, reg, findVars, calm,
                   scanDirs, fresh, calls>>

ScanFile(n) ==
    /\ pc[Main] = "scanFile"
    /\ n \in scanFiles
    /\ scanFiles' = scanFiles \ {n}
    /\ NewEntry(Main, n, Head(scanDirs))
    /\ Goto(Main, "add")
    /\ UNCHANGED <<win32, disk, dirs, dirsOwner, entries, entriesOwner, size, idVars, reg, findVars,
                   calm, scanDirs, fresh, calls>>

ScanDone ==
    /\ pc[Main] = "scanFile"
    /\ scanFiles = {}
    /\ scanDirs' = Tail(scanDirs)
    /\ Goto(Main, "scanDir")
    /\ UNCHANGED <<win32, disk, dirs, dirsOwner, entryVars, idVars, ent, reg, findVars, calm,
                   scanFiles, fresh, calls>>

RescanUnlock ==
    /\ pc[Main] = "scanDir"
    /\ scanDirs = <<>>
    /\ dirsOwner' = None
    /\ Goto(Main, "idle")
    /\ UNCHANGED <<win32, disk, dirs, entryVars, idVars, ent, reg, findVars, calm, scanVars,
                   fresh, calls>>

----------------------------------------------------------------------------
(* Add(path, ext, context) and Remove(path) *)

AddDir(d) ==
    /\ Call(Main, "idle")
    /\ dirsOwner = None
    /\ dirs' = <<d>> \o dirs
    /\ fresh' = FALSE
    /\ UNCHANGED <<win32, disk, dirsOwner, entryVars, idVars, ent, reg, findVars, calm,
                   scanVars>>

RemoveDir(d) ==
    /\ Call(Main, "idle")
    /\ dirsOwner = None
    /\ dirs' = Filter(dirs, Dirs \ {d})
    /\ fresh' = FALSE
    /\ UNCHANGED <<win32, disk, dirsOwner, entryVars, idVars, ent, reg, findVars, calm,
                   scanVars>>

\* Somebody creates and deletes files.
FilesChange(d, files) ==
    /\ files # disk[d]
    /\ disk' = [disk EXCEPT ![d] = files]
    /\ fresh' = FALSE
    /\ UNCHANGED <<win32, dirs, dirsOwner, entryVars, idVars, pc, ent, reg, findVars, calm,
                   scanVars, calls>>

----------------------------------------------------------------------------
(* Find(pat, from) and Find(id) *)

FindCall(t, p, k, f) ==
    /\ Call(t, "findLock")
    /\ pat' = [pat EXCEPT ![t] = p]
    /\ num' = [num EXCEPT ![t] = k]
    /\ from' = [from EXCEPT ![t] = f]
    /\ UNCHANGED <<win32, disk, dirs, dirsOwner, entryVars, idVars, ent, reg, tmp, res, hope,
                   calm, scanVars, fresh>>

Match(t, c) == name[c] \in pat[t] /\ num[t] \in {None, id[c]}

\* Where the search may start to match: behind from, if there is one.
Begin(t) == {i \in DOMAIN entries :
                from[t] = None \/ \E j \in 1..(i - 1) : entries[j] = from[t]}

FindLock(t) ==
    /\ pc[t] = "findLock"
    /\ dirsOwner = None
    /\ dirsOwner' = t
    /\ tmp' = [tmp EXCEPT ![t] = At(1)]
    /\ LET hits == {i \in Begin(t) : Match(t, entries[i])}
       IN  hope' = [hope EXCEPT ![t] = IF hits = {} THEN None
                        ELSE entries[CHOOSE i \in hits : \A j \in hits : i <= j]]
    /\ calm' = [calm EXCEPT ![t] = TRUE]
    /\ Goto(t, "walk")
    /\ UNCHANGED <<win32, disk, dirs, entryVars, idVars, ent, reg, pat, num, from, res,
                   scanVars, fresh, calls>>

\* Mutant: the previous result is matched again.
WalkIncludesFrom(t) ==
    /\ pc[t] = "walk"
    /\ tmp[t] # None
    /\ LET c == tmp[t]
       IN  IF from[t] \in {None, c} /\ Match(t, c)
           THEN /\ res' = [res EXCEPT ![t] = c]
                /\ Goto(t, "found")
                /\ UNCHANGED <<from, tmp>>
           ELSE /\ from' = [from EXCEPT ![t] = IF @ = c THEN None ELSE @]
                /\ tmp' = [tmp EXCEPT ![t] = After(c)]
                /\ UNCHANGED <<res, pc>>
    /\ UNCHANGED <<win32, disk, dirs, dirsOwner, entryVars, idVars, ent, reg, pat, num, hope,
                   calm, scanVars, fresh, calls>>

Walk(t) ==
    /\ pc[t] = "walk"
    /\ tmp[t] # None
    /\ LET c == tmp[t]
       IN  IF from[t] = None /\ Match(t, c)
           THEN /\ res' = [res EXCEPT ![t] = c]
                /\ Goto(t, "found")
                /\ UNCHANGED <<from, tmp>>
           ELSE /\ from' = [from EXCEPT ![t] = IF @ = c THEN None ELSE @]
                /\ tmp' = [tmp EXCEPT ![t] = After(c)]
                /\ UNCHANGED <<res, pc>>
    /\ UNCHANGED <<win32, disk, dirs, dirsOwner, entryVars, idVars, ent, reg, pat, num, hope,
                   calm, scanVars, fresh, calls>>

WalkEnd(t) ==
    /\ pc[t] = "walk"
    /\ tmp[t] = None
    /\ Goto(t, "found")
    /\ UNCHANGED <<win32, disk, dirs, dirsOwner, entryVars, idVars, ent, reg, findVars, calm,
                   scanVars, fresh, calls>>

\* An entry that was deleted may also be gone from memory: the process dies.
WalkCrash(t) ==
    /\ pc[t] = "walk"
    /\ tmp[t] \notin InList \cup {None}
    /\ ~(pc[Main] = "destroyed" /\ ent[Main] = tmp[t])
    /\ pc' = [u \in Threads |-> "dead"]
    /\ UNCHANGED <<win32, disk, dirs, dirsOwner, entryVars, idVars, ent, reg, findVars, calm,
                   scanVars, fresh, calls>>

FindReturn(t) ==
    /\ pc[t] = "found"
    /\ dirsOwner' = None
    /\ pat' = [pat EXCEPT ![t] = {}]
    /\ num' = [num EXCEPT ![t] = None]
    /\ from' = [from EXCEPT ![t] = None]
    /\ tmp' = [tmp EXCEPT ![t] = None]
    /\ res' = [res EXCEPT ![t] = None]
    /\ hope' = [hope EXCEPT ![t] = None]
    /\ calm' = [calm EXCEPT ![t] = TRUE]
    /\ Goto(t, "idle")
    /\ UNCHANGED <<win32, disk, dirs, entryVars, idVars, ent, reg, scanVars, fresh, calls>>

----------------------------------------------------------------------------
Add(t) ==
    \/ \E n \in Names : AddCall(t, n)
    \/ AddRead(t)
    \/ AddId(t)
    \/ AddInsert(t)
    \/ AddCount(t)

Find(t) ==
    \/ \E p \in Patterns, f \in InList \cup {None} : FindCall(t, p, None, f)
    \/ \E k \in {id[c] : c \in InList} : FindCall(t, Names, k, None)
    \/ FindLock(t)
    \/ Walk(t)
    \/ WalkEnd(t)
    \/ WalkCrash(t)
    \/ FindReturn(t)

Rescan ==
    \/ RescanCall
    \/ RescanBegin
    \/ RescanDrop
    \/ RescanCount
    \/ RescanPurged
    \/ RescanLock
    \/ Scan
    \/ \E n \in Names : ScanFile(n)
    \/ ScanDone
    \/ RescanUnlock

Next ==
    \/ \E t \in Threads : Add(t) \/ Find(t)
    \/ \E c \in Cells : Destroy(c)
    \/ DestroyCount
    \/ Rescan
    \/ \E d \in Dirs : AddDir(d) \/ RemoveDir(d)
    \/ \E d \in Dirs, files \in SUBSET Names : FilesChange(d, files)

Spec == Init /\ [][Next]_vars

----------------------------------------------------------------------------
(* Properties *)

\* Whenever the lock of m_entries is free, m_size is the number of entries, through every
\* interleaving of Add, Destroy and the two ways Rescan sets it.  GetSize takes no lock and
\* reads what is there in between: one too many at most, but anything from 0 up
\* while a Rescan counts.
SizeMatches ==
    /\ entriesOwner = None => size = Len(entries)
    /\ size <= Len(entries) + 1

\* No two entries have one number, and none has the number that comes next, unless two
\* threads were in m_id++ at once.
NumbersUnique ==
    raced \/ \A i, j \in DOMAIN entries :
                 /\ id[entries[i]] < nextId
                 /\ i # j => id[entries[i]] # id[entries[j]]

\* What the collection keeps of itself is right: its size and the numbers of its entries.
CountsRight == SizeMatches /\ NumbersUnique

\* A Rescan during which neither files nor directories changed leaves each
\* file that a scan takes in the collection exactly once, and no other, whatever
\* other threads add and search meanwhile.
RescanExact ==
    pc[Main] = "idle" /\ fresh =>
        \A d \in Dirs, n \in Names :
            Cardinality({i \in DOMAIN entries : dir[entries[i]] = d /\ name[entries[i]] = n})
                = IF n \in Taken(d) THEN Cardinality({j \in DOMAIN dirs : dirs[j] = d}) ELSE 0

\* Find returns the first match behind from when its walk began, if nothing is
\* removed during the walk; entries that are added meanwhile do not mislead it.
FindFirst ==
    \A t \in Threads : pc[t] = "found" /\ calm[t] => res[t] = hope[t]

\* What a search finds is what is there: the collection after a Rescan is exact, and Find
\* walks it without leaving anything out.
SearchExact == RescanExact /\ FindFirst

\* What Find is about to return, still under its lock, is an entry of the
\* collection (violated: its lock is not the one that removals take).
FindReturns ==
    \A t \in Threads : pc[t] = "found" => res[t] \in InList \cup {None}
=============================================================================

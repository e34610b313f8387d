----------------------------- MODULE KeyStream -----------------------------
(***************************************************************************)
(* The streams of PTP::Key: a file is read, encrypted and written to a     *)
(* connection by Encrypt, read from there, decrypted and written to a file *)
(* by Decrypt, each through the callbacks of the file transfer (PutRead,   *)
(* PutWrite, GetRead, GetWrite of trut.cpp; sfs.cpp has the same four).    *)
(* Without a key both sides are Transfer.                                  *)
(*                                                                         *)
(* Encrypt sends a random IV, the data and the digest of the data, all but *)
(* the IV encrypted.  Decrypt does not know where the data ends, so that   *)
(* it holds back the end of what it has read, in which the digest may be.  *)
(* The cipher is a stream cipher: a byte is recovered at its own place in  *)
(* the stream only.  fread() and fwrite() move everything or report a      *)
(* fault by a short count; read() and write() on a socket move any part.   *)
(***************************************************************************)
EXTENDS Integers, Sequences

CONSTANTS
    IvSize, DigestSize, ReadSize,
    Capacity,    \* bytes on their way in the connection
    MaxFile,     \* bound: the length of the file
    MaxFaults    \* bound: reads, writes and connections that fail

\* buffer has room for more than DIGEST_PADDED_SIZE bytes in Decrypt, and for the
\* digest in Encrypt.
ASSUME StreamAssumption ==
    /\ IvSize \in Nat /\ DigestSize \in Nat \ {0}
    /\ ReadSize \in Nat /\ ReadSize > 2 * DigestSize
    /\ Capacity \in Nat \ {0}
    /\ MaxFile \in Nat /\ MaxFaults \in Nat

VARIABLES
    secure,    \* there is a key
    size,      \* of the file
    spc,       \* the sender: where it is
    read,      \* how much of the file it has read
    fed,       \* what it has put into its digest
    out,       \* what WriteAll has still to write
    sent,      \* total of Encrypt, -1 for an error
    link,      \* the connection: open, reset, or ended with the sender's process
    chan,      \* the bytes in it
    rpc,       \* the receiver: where it is
    buffer,    \* its buffer
    fill,      \* what this call of ReadAll has read
    digest,    \* what it has put into its digest
    written,   \* the file it writes
    total,     \* its total, -1 for an error
    spoilt,    \* history: the sender could not read its file, or a write came short
    faults

senderVars == <<spc, read, fed, out, sent>>
receiverVars == <<rpc, buffer, fill, digest, written, total>>
streamVars == <<secure, size, senderVars, link, chan, receiverVars, spoilt, faults>>

Byte(kind, of, n) == [kind |-> kind, of |-> of, n |-> n]
File == [i \in 1..size |-> Byte("data", <<>>, i)]
Iv == [i \in 1..IvSize |-> Byte("iv", <<>>, i)]
Digest(data) == [i \in 1..DigestSize |-> Byte("digest", data, i)]

\* EVP_EncryptUpdate and EVP_DecryptUpdate behind `at' bytes.
Encrypted(at, s) == [i \in DOMAIN s |-> Byte("cipher", s[i], at + i)]
Decrypted(at, s) ==
    [i \in DOMAIN s |-> IF s[i].kind = "cipher" /\ s[i].n = at + i
                        THEN s[i].of ELSE Byte("garbage", <<>>, 0)]

Least(a, b) == IF a < b THEN a ELSE b
Front(s, n) == SubSeq(s, 1, n)
Behind(s, n) == SubSeq(s, n + 1, Len(s))

StreamTypes ==
    /\ secure \in BOOLEAN /\ size \in 0..MaxFile
    /\ spc \in {"iv", "read", "digest", "done", "dead"}
    /\ read \in 0..size
    /\ Len(fed) <= size
    /\ Len(out) <= ReadSize \/ Len(out) <= IvSize
    /\ sent \in -1..(IvSize + MaxFile + DigestSize)
    /\ link \in {"open", "reset", "ended"}
    /\ Len(chan) <= Capacity
    /\ rpc \in {"iv", "fill", "final", "copy", "done", "undefined"}
    /\ Len(buffer) <= ReadSize \/ Len(buffer) <= IvSize
    /\ fill \in 0..Len(buffer)
    /\ Len(digest) <= size + DigestSize
    /\ Len(written) <= size + DigestSize
    /\ total \in -1..(size + DigestSize)
    /\ spoilt \in BOOLEAN
    /\ faults \in 0..MaxFaults

StreamInit ==
    /\ secure \in BOOLEAN
    /\ size \in 0..MaxFile
    /\ spc = IF secure THEN "iv" ELSE "read"
    /\ read = 0 /\ fed = <<>> /\ sent = 0
    /\ out = IF secure THEN Iv ELSE <<>>
    /\ link = "open" /\ chan = <<>>
    /\ rpc = IF secure THEN "iv" ELSE "copy"
    /\ buffer = <<>> /\ fill = 0 /\ digest = <<>> /\ written = <<>> /\ total = 0
    /\ spoilt = FALSE /\ faults = 0

----------------------------------------------------------------------------
(* The sender: Encrypt and Transfer *)

\* A write() of WriteAll takes what there is room for.
Write ==
    /\ out # <<>>
    /\ link = "open" /\ rpc \notin {"done", "undefined"}
    /\ \E n \in 1..Least(Len(out), Capacity - Len(chan)) :
           /\ chan' = chan \o Front(out, n)
           /\ out' = Behind(out, n)
           /\ sent' = sent + n
    /\ UNCHANGED <<secure, size, spc, read, fed, link, receiverVars, spoilt, faults>>

\* A write() on a connection that is gone: Encrypt ends with -1, Transfer does not
\* look and counts the bytes.
WriteFails ==
    /\ out # <<>>
    /\ spc # "dead"
    /\ link = "reset" \/ rpc \in {"done", "undefined"}
    /\ out' = <<>>
    /\ IF secure THEN spc' = "done" /\ sent' = -1
                 ELSE sent' = sent + Len(out) /\ UNCHANGED spc
    /\ UNCHANGED <<secure, size, read, fed, link, chan, receiverVars, spoilt, faults>>

IvSent ==
    /\ spc = "iv" /\ out = <<>>
    /\ spc' = "read"
    /\ UNCHANGED <<secure, size, read, fed, out, sent, link, chan, receiverVars, spoilt, faults>>

\* The end of the data: the digest, if there is a key.
DataRead ==
    IF secure
    THEN /\ spc' = "digest"
         /\ out' = Encrypted(Len(fed), Digest(fed))
    ELSE spc' = "done" /\ UNCHANGED out

\* ReadAll, or the read of Transfer, through PutRead: fread() fills the buffer unless
\* the file ends or cannot be read; then its 0 is the end of the data.
Read ==
    /\ spc = "read" /\ out = <<>>
    /\ \E n \in 0..Least(ReadSize, size - read) :
           /\ \/ n = Least(ReadSize, size - read) /\ UNCHANGED <<spoilt, faults>>
              \/ /\ n < Least(ReadSize, size - read)
                 /\ faults < MaxFaults
                 /\ spoilt' = TRUE /\ faults' = faults + 1
           /\ read' = read + n
           /\ LET data == SubSeq(File, read + 1, read + n)
              IN  IF n = 0 THEN DataRead /\ UNCHANGED fed
                  ELSE /\ fed' = fed \o data
                       /\ out' = IF secure THEN Encrypted(Len(fed), data) ELSE data
                       /\ UNCHANGED spc
    /\ UNCHANGED <<secure, size, sent, link, chan, receiverVars>>

\* The digest is written; the connection is closed with the upload.
DigestSent ==
    /\ spc = "digest" /\ out = <<>>
    /\ spc' = "done"
    /\ UNCHANGED <<secure, size, read, fed, out, sent, link, chan, receiverVars, spoilt, faults>>

----------------------------------------------------------------------------
(* The receiver: Decrypt *)

\* Mutant: the whole buffer is filled behind what it holds.
RoomWhole == IF rpc = "iv" THEN IvSize ELSE ReadSize

\* How much ReadAll may still read.
Room == IF rpc = "iv" THEN IvSize - Len(buffer) ELSE ReadSize - Len(buffer)

\* GetRead in ReadAll: read() returns any part of what has arrived.
Receive ==
    /\ rpc \in {"iv", "fill"}
    /\ link # "reset"
    /\ \E n \in 1..Least(Room, Len(chan)) :
           /\ buffer' = buffer \o Front(chan, n)
           /\ fill' = fill + n
           /\ chan' = Behind(chan, n)
    /\ UNCHANGED <<secure, size, senderVars, link, rpc, digest, written, total, spoilt, faults>>

\* read() returns 0 when the sender has closed and everything has been read.
AtEnd == chan = <<>> /\ link # "reset" /\ spc \in {"done", "dead"}

ReadAllReturns == Room = 0 \/ AtEnd

\* Decrypt without the whole IV is an error.
IvRead ==
    /\ rpc = "iv" /\ ReadAllReturns
    /\ IF Len(buffer) = IvSize
       THEN rpc' = "fill" /\ UNCHANGED total
       ELSE rpc' = "done" /\ total' = -1
    /\ buffer' = <<>> /\ fill' = 0
    /\ UNCHANGED <<secure, size, senderVars, link, chan, digest, written, spoilt, faults>>

\* WriteAll through GetWrite: fwrite() writes everything, or it reports a fault and
\* the file has a part.
WriteAll(data, after, result) ==
    \/ /\ written' = written \o data
       /\ rpc' = after /\ total' = result
       /\ UNCHANGED <<spoilt, faults>>
    \/ /\ faults < MaxFaults
       /\ faults' = faults + 1
       /\ \E n \in 0..(Len(data) - 1) : written' = written \o Front(data, n)
       /\ rpc' = "done" /\ total' = -1
       /\ spoilt' = TRUE

\* Mutant: the loop ends on errors only.
NextRoundAlways == "fill"

\* The loop ends when nothing more was read.
NextRound == IF fill = 0 THEN "final" ELSE "fill"

\* DIGEST_PADDED_SIZE
Held == 2 * DigestSize

\* Decrypt and write the buffer but for the part that is held back.
DecryptRound ==
    /\ rpc = "fill" /\ ReadAllReturns
    /\ LET n == Len(buffer) - Held
           data == Decrypted(Len(digest), Front(buffer, n))
       IN  IF n > 0
           THEN /\ digest' = digest \o data
                /\ buffer' = Behind(buffer, n)
                /\ WriteAll(data, NextRound, total + n)
           ELSE /\ rpc' = NextRound
                /\ UNCHANGED <<digest, buffer, written, total, spoilt, faults>>
    /\ fill' = 0
    /\ UNCHANGED <<secure, size, senderVars, link, chan>>

\* Mutant: the digest is not compared.
ResultUnchecked(data, tail) == total + Len(data)

\* The total if the digest is the one of the data, -1 otherwise.
Result(data, tail) == IF tail = Digest(digest \o data) THEN total + Len(data) ELSE -1

\* The rest of the data and the digest.  With less than a digest in the buffer, size
\* becomes negative and is passed on as an unsigned number: undefined.
DecryptFinal ==
    /\ rpc = "final"
    /\ LET n == Len(buffer) - DigestSize
           plain == Decrypted(Len(digest), buffer)
           data == Front(plain, n)
       IN  IF n < 0
           THEN rpc' = "undefined" /\ UNCHANGED <<digest, written, total, spoilt, faults>>
           ELSE /\ digest' = digest \o data
                /\ WriteAll(data, "done", Result(data, Behind(plain, n)))
    /\ buffer' = <<>>
    /\ UNCHANGED <<secure, size, senderVars, link, chan, fill>>

\* read() fails: Decrypt returns -1.
ReceiveFails ==
    /\ rpc \in {"iv", "fill"} /\ Room > 0
    /\ link = "reset"
    /\ rpc' = "done" /\ total' = -1
    /\ UNCHANGED <<secure, size, senderVars, link, chan, buffer, fill, digest, written,
                   spoilt, faults>>

(* The receiver: Transfer *)

\* One read() and one fwrite(), whose result nobody looks at.
Copy ==
    /\ rpc = "copy"
    /\ link # "reset"
    /\ \E n \in 1..Least(ReadSize, Len(chan)) :
           /\ chan' = Behind(chan, n)
           /\ total' = total + n
           /\ \/ written' = written \o Front(chan, n) /\ UNCHANGED <<spoilt, faults>>
              \/ /\ faults < MaxFaults
                 /\ faults' = faults + 1
                 /\ \E k \in 0..(n - 1) : written' = written \o Front(chan, k)
                 /\ spoilt' = TRUE
    /\ UNCHANGED <<secure, size, senderVars, link, rpc, buffer, fill, digest>>

\* The end of the data, or an error that is taken for it.
CopyEnd ==
    /\ rpc = "copy"
    /\ AtEnd \/ link = "reset"
    /\ rpc' = "done"
    /\ UNCHANGED <<secure, size, senderVars, link, chan, buffer, fill, digest, written, total,
                   spoilt, faults>>

----------------------------------------------------------------------------
\* The connection is reset, or the sender's process ends.
Lose ==
    /\ link = "open" /\ spc # "done"
    /\ faults < MaxFaults
    /\ faults' = faults + 1
    /\ \/ link' = "reset" /\ chan' = <<>> /\ UNCHANGED <<spc, out>>
       \/ link' = "ended" /\ spc' = "dead" /\ out' = <<>> /\ UNCHANGED chan
    /\ UNCHANGED <<secure, size, read, fed, sent, receiverVars, spoilt>>

Sender == Write \/ WriteFails \/ IvSent \/ Read \/ DigestSent
Receiver == Receive \/ IvRead \/ DecryptRound \/ DecryptFinal \/ ReceiveFails \/ Copy \/ CopyEnd

StreamNext == Sender \/ Receiver \/ Lose

StreamSpec ==
    /\ StreamInit /\ [][StreamNext]_streamVars
    /\ WF_streamVars(Sender) /\ WF_streamVars(Receiver)

----------------------------------------------------------------------------
\* What Decrypt writes is always the beginning of the file, whatever has arrived so far
\* and wherever the stream is cut: a byte of the digest never gets into it.
OnlyData == secure => Len(written) <= size /\ written = Front(File, Len(written))

\* A transfer that is reported as done is whole.  Under a key that holds whatever is lost
\* on the way; only a file that the sender could not read to its end arrives in part, under
\* a digest of that part.  Transfer, which takes an error for the end of the data
\* and does not look at its writes, is right only if nothing fails.
DoneWhole ==
    rpc = "done" /\ total >= 0 =>
        /\ secure => written = fed /\ total = Len(written)
        /\ ~spoilt /\ (secure \/ link = "open") => written = File /\ total = size

\* What was sent is what arrives, cut short but never spoilt, and whole if it is reported
\* as done.
Delivered == OnlyData /\ DoneWhole

\* Both sides come to an end, also when one of them gives up while the other waits for
\* it.  What Decrypt does is undefined only if the sender ended before its digest was sent.
StreamEnds ==
    /\ <>(spc \in {"done", "dead"})
    /\ <>(rpc = "done" \/ (rpc = "undefined" /\ link = "ended"))
============================================================================

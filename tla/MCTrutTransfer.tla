-------------------------- MODULE MCTrutTransfer ---------------------------
(* A public file, a file of the group and its key; a client the server knows, *)
(* one it does not know, who would have the key, and one who does not know    *)
(* the server.  The values in the headers are in Base64.                      *)
EXTENDS TrutTransfer, Encoding

MCKind == [f \in Files |-> CASE f = "song" -> "plain" [] f = "plan" -> "secure" [] f = "key" -> "key"]

MCWants == ({"ann"} \X Files) \cup ({"ben", "cid"} \X {"key"})

Strings(bytes, n) == UNION {[1..k -> bytes] : k \in 0..n}

\* EncodeBase64 and DecodeBase64 against the definition of Base64: every string of
\* up to four bytes with all lines of two bytes and more, and longer ones with lines
\* that end at every place in a group of three.
ASSUME Base64Right ==
    /\ \A src \in Strings({0, 1, 106, 149, 255}, 4), bpl \in 2..5 : EncodesRight(src, bpl)
    /\ \A n \in 0..12, bpl \in 2..13 : EncodesRight([i \in 1..n |-> (37 * i) % 256], bpl)
============================================================================

------------------------------- MODULE Reader -------------------------------
(***************************************************************************)
(* The byte reader of reader/reader.go.  A reader is the length of its     *)
(* datagram and the number of bytes read so far.  The bytes themselves are *)
(* chosen by whoever reads them, once, when they are read.                 *)
(***************************************************************************)
EXTENDS Integers, Sequences

VARIABLES
    total,  \* length of the datagram
    count   \* bytes read (ReadCount)

reader == <<total, count>>

(* Len: the bytes not read yet. *)
Unread == total - count

advance(n) == count' = count + n /\ UNCHANGED total

(* Mutant: the length of what is left is not looked at. *)
ReadUnchecked(n) == advance(n)

(* Read(n) and, with n = 1, 2, 4, 8, the readers of one integer.  A read   *)
(* that cannot be served reads nothing.                                    *)
Read(n) == Unread >= n /\ advance(n)
ReadFails(n) == Unread < n /\ UNCHANGED reader

(* n calls of Uint16 in a row, given up at the first that fails. *)
Uint16s(n) == Unread >= 2 * n /\ advance(2 * n)
Uint16sFail(n) == Unread < 2 * n /\ advance(2 * (Unread \div 2))

(* Where the fields that specifiers s describe end, one read after the     *)
(* other: FieldEnds(s)[k] bytes are the first k of them.                   *)
FieldEnds(s) ==
    LET upTo[k \in 0..Len(s)] == IF k = 0 THEN 0 ELSE upTo[k - 1] + s[k].Length
    IN  upTo
=============================================================================

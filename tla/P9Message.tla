----------------------------- MODULE P9Message -----------------------------
(***************************************************************************)
(* The 9p messages of virtio.cpp: marshall and unmarshall follow a format, *)
(* one letter for each field.  A byte has Byte values here.                *)
(***************************************************************************)
EXTENDS Integers, Sequences, SequencesExt, FiniteSetsExt

CONSTANTS
  Byte,       \* values of a byte (256 in the code)
  MaxFields,  \* fields of a message
  MaxString   \* longest string

MessageAssumption == Byte \in Nat \ {0, 1} /\ MaxFields \in Nat /\ MaxString \in Nat

Width == [b |-> 1, h |-> 2, w |-> 4, d |-> 8]

\* Mutant: big-endian on one side only.
PutLeFault(v, n) == [k \in 1..n |-> (v \div Byte^(n - k)) % Byte]

PutLe(v, n) == [k \in 1..n |-> (v \div Byte^(k - 1)) % Byte]

GetLe(s) == FoldLeft(LAMBDA acc, b : acc * Byte + b, 0, Reverse(s))

\* A field is a letter and a value; strings are sequences of bytes other than 0,
\* a qid has type, version and path.
Marshall(fields) ==
  FlattenSeq([i \in 1..Len(fields) |->
    LET f == fields[i]
    IN CASE f.fmt = "s" -> PutLe(Len(f.str), 2) \o f.str
         [] f.fmt = "Q" -> PutLe(f.val, 1) \o PutLe(f.val, 4) \o PutLe(f.val, 8)
         [] OTHER -> PutLe(f.val, Width[f.fmt])])

Bytes(buf, offset, n) == SubSeq(buf, offset + 1, offset + n)

\* memcpy_from_queue of the string; the sizes of the others are tested likewise.
StringFits(buf, offset, len) == offset + len <= Len(buf)

\* One field: the value, and the offset behind it; an offset of -1 is an error.
UnmarshallField(buf, offset, fmt) ==
  LET short(n) == offset + n > Len(buf)
      error == [offset |-> -1, fmt |-> fmt]
  IN IF fmt = "s"
     THEN LET len == GetLe(Bytes(buf, offset, 2))
          IN IF short(2) \/ ~StringFits(buf, offset + 2, len) THEN error
             ELSE [offset |-> offset + 2 + len, fmt |-> fmt, str |-> Bytes(buf, offset + 2, len)]
     ELSE IF short(Width[fmt]) THEN error
          ELSE [offset |-> offset + Width[fmt], fmt |-> fmt,
                val |-> GetLe(Bytes(buf, offset, Width[fmt]))]

\* unmarshall: poffset moves only if all fields were read.
Unmarshall(buf, offset, fmts) ==
  LET step(acc, fmt) ==
        LET r == UnmarshallField(buf, acc.offset, fmt)
        IN IF acc.err \/ r.offset < 0 THEN [acc EXCEPT !.err = TRUE]
           ELSE [err |-> FALSE, offset |-> r.offset, fields |-> Append(acc.fields, r)]
      all == FoldLeft(step, [err |-> FALSE, offset |-> offset, fields |-> <<>>], fmts)
  IN IF all.err THEN [err |-> TRUE, offset |-> offset, fields |-> <<>>] ELSE all

-----------------------------------------------------------------------------
(* A guest sends a message, whole or cut short; the device reads it. *)

Strings == UNION {[1..n -> 1..(Byte - 1)] : n \in 0..MaxString}

Edge(n) == {0, 1, Byte^n - 1}

Fields == UNION {[fmt : {f}, val : Edge(Width[f])] : f \in DOMAIN Width}
          \cup [fmt : {"s"}, str : Strings]

VARIABLES
  sent,      \* the fields the guest marshalled
  buf,       \* what is in the chain
  got        \* what the device has read

vars == <<sent, buf, got>>

Nothing == [err |-> FALSE, offset |-> 0, fields |-> <<>>]

Init == sent = <<>> /\ buf = <<>> /\ got = Nothing

AddField(f) == /\ Len(sent) < MaxFields /\ got = Nothing
               /\ sent' = Append(sent, f)
               /\ buf' = Marshall(sent')
               /\ UNCHANGED got

Cut == /\ got = Nothing /\ buf # <<>>
       /\ buf' = Front(buf)
       /\ UNCHANGED <<sent, got>>

Receive == /\ got = Nothing /\ sent # <<>>
           /\ got' = Unmarshall(buf, 0, [i \in 1..Len(sent) |-> sent[i].fmt])
           /\ UNCHANGED <<sent, buf>>

\* The next message
Again == got # Nothing /\ sent' = <<>> /\ buf' = <<>> /\ got' = Nothing

Next == (\E f \in Fields : AddField(f)) \/ Cut \/ Receive \/ Again

Spec == Init /\ [][Next]_vars

-----------------------------------------------------------------------------
Value(f) == IF f.fmt = "s" THEN f.str ELSE <<f.val>>

(* What marshall wrote unmarshall reads back, field by field, and its       *)
(* offset is then where the data of the message begins; a message that is   *)
(* cut is an error and leaves the offset, whichever field is cut.           *)
RoundTrip ==
  got # Nothing =>
    LET whole == Marshall(sent)
    IN IF buf = whole
       THEN /\ ~got.err /\ got.offset = Len(whole)
            /\ \A i \in 1..Len(sent) : Value(got.fields[i]) = Value(sent[i])
       ELSE got.err /\ got.offset = 0
=============================================================================

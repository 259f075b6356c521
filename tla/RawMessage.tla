----------------------------- MODULE RawMessage -----------------------------
(***************************************************************************)
(* The buffer of a raw message (src/src/rawmessage.rs) as a value: bytes,  *)
(* as many as its capacity, and a length.  Who shares a buffer is the      *)
(* matter of the modules that use it.  The offsets of writes start at 0; a *)
(* write or a length beyond the capacity panics and has no next state.     *)
(***************************************************************************)
EXTENDS Integers, Sequences

CONSTANT Byte

Cap(raw) == Len(raw.data)

\* A buffer has at least one byte, and its memory is not cleared.
NewOfSize(cap) == {[len |-> n, data |-> d] : n \in {cap}, d \in [1..cap -> Byte]}
New(cap) == NewOfSize(IF cap = 0 THEN 1 ELSE cap)

\* The copy has the whole capacity as its length, whatever the original's was.
Dup(raw) == [raw EXCEPT !.len = Cap(raw)]

SetLen(raw, len) == {r \in {[raw EXCEPT !.len = len]} : len <= Cap(raw)}

Overwrite(data, offset, bytes) ==
    [i \in DOMAIN data |-> IF i - offset \in DOMAIN bytes THEN bytes[i - offset] ELSE data[i]]

\* writestructref leaves the length ...
WriteStruct(raw, offset, bytes) ==
    {r \in {[raw EXCEPT !.data = Overwrite(@, offset, bytes)]} :
        offset + Len(bytes) <= Cap(raw)}

\* ... and write_from_slice moves it to the end of what it writes.  The mutant
\* moves it one further.
WriteFromSliceLong(raw, offset, bytes) ==
    {[r EXCEPT !.len = offset + Len(bytes) + 1] : r \in WriteStruct(raw, offset, bytes)}
WriteFromSlice(raw, offset, bytes) ==
    {[r EXCEPT !.len = IF offset + Len(bytes) > @ THEN offset + Len(bytes) ELSE @] :
        r \in WriteStruct(raw, offset, bytes)}

AsSlice(raw) == SubSeq(raw.data, 1, raw.len)
=============================================================================

------------------------------- MODULE Buffer -------------------------------
(***************************************************************************)
(* Buffer (webserver/Buffer.hpp): a byte vector with a read and a write    *)
(* index, and a gap of Prepend bytes in front of what is readable when the *)
(* buffer is fresh, emptied or compacted.  A value of the class is a       *)
(* record; its methods are operators from buffers to buffers.              *)
(*                                                                         *)
(* r and w count the bytes before the index, so that store[r + 1] is the   *)
(* byte at readIndex_.                                                     *)
(***************************************************************************)
EXTENDS Naturals, Sequences

CONSTANTS
  Byte,      \* what a byte may be
  Blank,     \* the byte a vector puts where nothing was written
  Prepend    \* kCheapPrepend

ASSUME BufferAssumption == Prepend \in Nat

Cells == Byte \union {Blank}

(* The class invariant: the two indices are in order and in the vector.    *)
Wellformed(b) ==
  /\ b \in [store : Seq(Cells), r : Nat, w : Nat]
  /\ Prepend <= b.r /\ b.r <= b.w /\ b.w <= Len(b.store)

ReadableBytes(b) == b.w - b.r
WritableBytes(b) == Len(b.store) - b.w
Readable(b) == SubSeq(b.store, b.r + 1, b.w)    \* peek() for readableBytes()

NewBuffer(size) ==
  [store |-> [i \in 1..(Prepend + size) |-> Blank], r |-> Prepend, w |-> Prepend]

(* std::copy of s to the cells after the first n; vector::resize.          *)
Overwrite(store, n, s) ==
  [i \in 1..Len(store) |-> IF i \in (n + 1)..(n + Len(s)) THEN s[i - n] ELSE store[i]]
Resize(store, n) ==
  [i \in 1..n |-> IF i <= Len(store) THEN store[i] ELSE Blank]

(* Mutant: the readable bytes are moved, and the write index is not.       *)
MakeSpaceStale(b, len) ==
  IF WritableBytes(b) + b.r < len + Prepend
  THEN [b EXCEPT !.store = Resize(b.store, b.w + len)]
  ELSE [b EXCEPT !.store = Overwrite(b.store, Prepend, Readable(b)),
                 !.r = Prepend]

(* Grow, or move what is readable to the front when that gives room enough.*)
MakeSpace(b, len) ==
  IF WritableBytes(b) + b.r < len + Prepend
  THEN [b EXCEPT !.store = Resize(b.store, b.w + len)]
  ELSE [store |-> Overwrite(b.store, Prepend, Readable(b)),
        r |-> Prepend,
        w |-> Prepend + ReadableBytes(b)]

EnsureWritable(b, len) ==
  IF WritableBytes(b) < len THEN MakeSpace(b, len) ELSE b

(* Bytes stored at beginWrite() and hasWritten(Len(s)); s has to fit.      *)
WriteInPlace(b, s) ==
  [b EXCEPT !.store = Overwrite(b.store, b.w, s), !.w = b.w + Len(s)]

AppendTo(b, s) == WriteInPlace(EnsureWritable(b, Len(s)), s)

RetrieveAll(b) == [b EXCEPT !.r = Prepend, !.w = Prepend]

(* Mutant: what is left is dropped with what was taken.                    *)
RetrieveTooMuch(b, len) == RetrieveAll(b)

Retrieve(b, len) ==
  IF len < ReadableBytes(b) THEN [b EXCEPT !.r = b.r + len] ELSE RetrieveAll(b)
=============================================================================

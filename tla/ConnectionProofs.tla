-------------------------- MODULE ConnectionProofs --------------------------
(***************************************************************************)
(* Theorems about Buffer, for buffers of any size and contents: whatever   *)
(* way makeSpace makes room, append adds at the end of what is readable,   *)
(* retrieve takes from its front, and both keep the class invariant.       *)
(* Theorems about Connection, for any scripts, sizes of buffers and        *)
(* pieces, and width of size_t.                                            *)
(***************************************************************************)
EXTENDS Connection, SequenceTheorems, NaturalsInduction, WellFoundedInduction,
        TLAPS

(* What the operators on the vector return.                                *)
LEMMA OverwriteCells ==
  ASSUME NEW store \in Seq(Cells), NEW n \in Nat, NEW s \in Seq(Cells)
  PROVE  /\ Overwrite(store, n, s) \in Seq(Cells)
         /\ Len(Overwrite(store, n, s)) = Len(store)
         /\ \A i \in 1..Len(s) :
              n + i <= Len(store) => Overwrite(store, n, s)[n + i] = s[i]
         /\ \A i \in 1..n : i <= Len(store) => Overwrite(store, n, s)[i] = store[i]
<1>1. \A i \in 1..Len(store) : i \in (n + 1)..(n + Len(s)) => i - n \in 1..Len(s)
  OBVIOUS
<1>2. \A i \in 1..Len(s) : s[i] \in Cells
  BY ElementOfSeq
<1>3. \A i \in 1..Len(store) : store[i] \in Cells
  BY ElementOfSeq
<1>4. Overwrite(store, n, s) \in [1..Len(store) -> Cells]
  BY <1>1, <1>2, <1>3 DEF Overwrite
<1>5. ASSUME NEW i \in 1..Len(s), n + i <= Len(store)
      PROVE  Overwrite(store, n, s)[n + i] = s[i]
  <2>1. /\ n + i \in 1..Len(store) /\ n + i \in (n + 1)..(n + Len(s))
        /\ n + i - n = i
    BY <1>5
  <2>2. Overwrite(store, n, s)[n + i] = s[n + i - n]
    BY <2>1 DEF Overwrite
  <2> QED
    BY <2>1, <2>2
<1>6. ASSUME NEW i \in 1..n, i <= Len(store)
      PROVE  Overwrite(store, n, s)[i] = store[i]
  <2>1. i \in 1..Len(store) /\ i \notin (n + 1)..(n + Len(s))
    BY <1>6
  <2> QED
    BY <2>1 DEF Overwrite
<1> QED
  BY <1>4, <1>5, <1>6

LEMMA ResizeCells ==
  ASSUME NEW store \in Seq(Cells), NEW n \in Nat
  PROVE  /\ Resize(store, n) \in Seq(Cells)
         /\ Len(Resize(store, n)) = n
         /\ \A i \in 1..n : i <= Len(store) => Resize(store, n)[i] = store[i]
<1>1. \A i \in 1..Len(store) : store[i] \in Cells
  BY ElementOfSeq
<1>2. Resize(store, n) \in [1..n -> Cells]
  BY <1>1 DEF Resize, Cells
<1> QED
  BY <1>2 DEF Resize

(* What makes a sequence a concatenation, and what makes it a rest.        *)
LEMMA IsConcat ==
  ASSUME NEW x \in Seq(Cells), NEW y \in Seq(Cells), NEW z \in Seq(Cells),
         Len(z) = Len(x) + Len(y),
         \A i \in 1..Len(x) : z[i] = x[i],
         \A i \in 1..Len(y) : z[Len(x) + i] = y[i]
  PROVE  z = x \o y
<1>1. Len(x) \in Nat /\ Len(y) \in Nat
  BY LenProperties
<1>2. /\ x \o y \in Seq(Cells) /\ Len(x \o y) = Len(x) + Len(y)
      /\ \A i \in 1..(Len(x) + Len(y)) :
           (x \o y)[i] = IF i <= Len(x) THEN x[i] ELSE y[i - Len(x)]
  BY ConcatProperties
<1>3. ASSUME NEW i \in 1..(Len(x) + Len(y)) PROVE z[i] = (x \o y)[i]
  <2>1. CASE i <= Len(x)
    BY <1>1, <1>2, <2>1
  <2>2. CASE i > Len(x)
    <3>1. i - Len(x) \in 1..Len(y) /\ Len(x) + (i - Len(x)) = i
      BY <1>1, <2>2
    <3>2. z[Len(x) + (i - Len(x))] = y[i - Len(x)]
      BY <3>1, Zenon
    <3> QED
      BY <1>1, <1>2, <2>2, <3>1, <3>2
  <2> QED
    BY <1>1, <2>1, <2>2
<1> QED
  BY <1>2, <1>3, SeqEqual

LEMMA IsRest ==
  ASSUME NEW x \in Seq(Cells), NEW z \in Seq(Cells), NEW n \in Nat,
         n <= Len(x), Len(z) = Len(x) - n,
         \A i \in 1..(Len(x) - n) : z[i] = x[n + i]
  PROVE  z = SubSeq(x, n + 1, Len(x))
<1>1. Len(x) \in Nat
  BY LenProperties
<1> DEFINE t == SubSeq(x, n + 1, Len(x))
<1>2. \A i \in (n + 1)..Len(x) : x[i] \in Cells
  BY <1>1, ElementOfSeq
<1>3. /\ t \in Seq(Cells)
      /\ Len(t) = IF n + 1 <= Len(x) THEN Len(x) - (n + 1) + 1 ELSE 0
      /\ \A i \in 1..(Len(x) - (n + 1) + 1) : t[i] = x[n + 1 + i - 1]
  BY <1>1, <1>2, SubSeqProperties
<1> HIDE DEF t
<1>4. Len(x) - (n + 1) + 1 = Len(x) - n /\ Len(t) = Len(z)
  BY <1>1, <1>3
<1>5. ASSUME NEW i \in 1..(Len(x) - n) PROVE t[i] = z[i]
  <2>1. n + 1 + i - 1 = n + i
    BY <1>1
  <2>2. t[i] = x[n + 1 + i - 1]
    BY <1>3, <1>4, Zenon
  <2> QED
    BY <2>1, <2>2
<1>6. t = z
  BY <1>3, <1>4, <1>5, SeqEqual
<1> QED
  BY <1>6 DEF t

LEMMA SubCells ==
  ASSUME NEW store \in Seq(Cells), NEW r \in Nat, NEW w \in Nat,
         r <= w, w <= Len(store)
  PROVE  /\ SubSeq(store, r + 1, w) \in Seq(Cells)
         /\ Len(SubSeq(store, r + 1, w)) = w - r
         /\ \A i \in 1..(w - r) : SubSeq(store, r + 1, w)[i] = store[r + i]
<1> DEFINE t == SubSeq(store, r + 1, w)
<1>1. Len(store) \in Nat
  BY LenProperties
<1>2. \A i \in (r + 1)..w : store[i] \in Cells
  BY <1>1, ElementOfSeq
<1>3. /\ t \in Seq(Cells)
      /\ Len(t) = IF r + 1 <= w THEN w - (r + 1) + 1 ELSE 0
      /\ \A i \in 1..(w - (r + 1) + 1) : t[i] = store[r + 1 + i - 1]
  BY <1>2, SubSeqProperties
<1> HIDE DEF t
<1>4. w - (r + 1) + 1 = w - r
  OBVIOUS
<1>5. ASSUME NEW i \in 1..(w - r) PROVE t[i] = store[r + i]
  <2>1. r + 1 + i - 1 = r + i
    OBVIOUS
  <2>2. t[i] = store[r + 1 + i - 1]
    BY <1>3, <1>4, Zenon
  <2> QED
    BY <2>1, <2>2
<1>6. Len(t) = w - r
  BY <1>3
<1> QED
  BY <1>3, <1>5, <1>6 DEF t

(* What is readable, byte by byte.                                         *)
LEMMA ReadableCells ==
  ASSUME NEW b, Wellformed(b)
  PROVE  /\ b.store \in Seq(Cells) /\ b.r \in Nat /\ b.w \in Nat
         /\ Readable(b) \in Seq(Cells)
         /\ Len(Readable(b)) = b.w - b.r
         /\ \A i \in 1..(b.w - b.r) : Readable(b)[i] = b.store[b.r + i]
<1>1. b.store \in Seq(Cells) /\ b.r \in Nat /\ b.w \in Nat
  BY DEF Wellformed
<1>2. b.r <= b.w /\ b.w <= Len(b.store)
  BY DEF Wellformed
<1>3. /\ SubSeq(b.store, b.r + 1, b.w) \in Seq(Cells)
      /\ Len(SubSeq(b.store, b.r + 1, b.w)) = b.w - b.r
      /\ \A i \in 1..(b.w - b.r) :
           SubSeq(b.store, b.r + 1, b.w)[i] = b.store[b.r + i]
  BY <1>1, <1>2, SubCells
<1> QED
  BY <1>1, <1>3 DEF Readable

(* Two buffers whose readable bytes agree one by one.                      *)
LEMMA SameReadable ==
  ASSUME NEW b, Wellformed(b), NEW c, Wellformed(c), NEW n \in Int,
         b.w - b.r = n, c.w - c.r = n,
         \A i \in 1..n : b.store[b.r + i] = c.store[c.r + i]
  PROVE  Readable(b) = Readable(c)
<1>1. /\ Readable(b) \in Seq(Cells) /\ Len(Readable(b)) = n
      /\ \A i \in 1..n : Readable(b)[i] = b.store[b.r + i]
  BY ReadableCells
<1>2. /\ Readable(c) \in Seq(Cells) /\ Len(Readable(c)) = n
      /\ \A i \in 1..n : Readable(c)[i] = c.store[c.r + i]
  BY ReadableCells
<1>3. \A i \in 1..n : Readable(b)[i] = Readable(c)[i]
  BY <1>1, <1>2
<1> QED
  BY <1>1, <1>2, <1>3, SeqEqual

(* makeSpace neither loses nor repeats a byte, and there is room after it. *)
LEMMA MakeSpaceKeeps ==
  ASSUME NEW b, Wellformed(b), NEW len \in Nat
  PROVE  /\ Wellformed(MakeSpace(b, len))
         /\ Readable(MakeSpace(b, len)) = Readable(b)
         /\ WritableBytes(MakeSpace(b, len)) >= len
<1> DEFINE m == MakeSpace(b, len)
<1> HIDE DEF m
<1>1. /\ b.store \in Seq(Cells) /\ b.r \in Nat /\ b.w \in Nat
      /\ b = [store |-> b.store, r |-> b.r, w |-> b.w]
      /\ Prepend \in Nat /\ Prepend <= b.r /\ b.r <= b.w /\ b.w <= Len(b.store)
      /\ Len(b.store) \in Nat
  BY BufferAssumption, LenProperties DEF Wellformed
<1>2. CASE Len(b.store) - b.w + b.r < len + Prepend
  <2>1. /\ m.store = Resize(b.store, b.w + len) /\ m.r = b.r /\ m.w = b.w
        /\ m = [store |-> m.store, r |-> b.r, w |-> b.w]
    BY <1>1, <1>2 DEF m, MakeSpace, WritableBytes
  <2>2. /\ m.store \in Seq(Cells) /\ Len(m.store) = b.w + len
        /\ \A i \in 1..(b.w + len) : i <= Len(b.store) => m.store[i] = b.store[i]
    <3>1. b.store \in Seq(Cells) /\ b.w + len \in Nat
      BY <1>1
    <3>2. /\ Resize(b.store, b.w + len) \in Seq(Cells)
          /\ Len(Resize(b.store, b.w + len)) = b.w + len
          /\ \A i \in 1..(b.w + len) : i <= Len(b.store)
               => Resize(b.store, b.w + len)[i] = b.store[i]
      BY <3>1, ResizeCells
    <3> QED
      BY <2>1, <3>2
  <2>3. Wellformed(m)
    BY <1>1, <2>1, <2>2 DEF Wellformed
  <2>4. ASSUME NEW i \in 1..(b.w - b.r)
        PROVE  m.store[m.r + i] = b.store[b.r + i]
    <3>1. b.r + i \in 1..(b.w + len) /\ b.r + i <= Len(b.store)
      BY <1>1
    <3> QED
      BY <2>1, <2>2, <3>1
  <2>5. Readable(m) = Readable(b)
    <3>1. m.w - m.r = b.w - b.r /\ b.w - b.r \in Int
      BY <1>1, <2>1
    <3> QED
      BY <2>3, <2>4, <3>1, SameReadable
  <2>6. WritableBytes(m) >= len
    BY <1>1, <2>1, <2>2 DEF WritableBytes
  <2> QED
    BY <2>3, <2>5, <2>6 DEF m
<1>3. CASE ~(Len(b.store) - b.w + b.r < len + Prepend)
  <2>1. /\ m.store = Overwrite(b.store, Prepend, Readable(b))
        /\ m.r = Prepend /\ m.w = Prepend + (b.w - b.r)
        /\ m = [store |-> m.store, r |-> m.r, w |-> m.w]
    BY <1>1, <1>3 DEF m, MakeSpace, WritableBytes, ReadableBytes
  <2>2. /\ Readable(b) \in Seq(Cells) /\ Len(Readable(b)) = b.w - b.r
    BY ReadableCells
  <2>3. /\ m.store \in Seq(Cells) /\ Len(m.store) = Len(b.store)
        /\ \A i \in 1..(b.w - b.r) :
             Prepend + i <= Len(b.store) => m.store[Prepend + i] = Readable(b)[i]
    <3> DEFINE o == Overwrite(b.store, Prepend, Readable(b))
    <3>1. o \in Seq(Cells) /\ Len(o) = Len(b.store)
      BY <1>1, <2>2, OverwriteCells
    <3>2. \A i \in 1..Len(Readable(b)) :
            Prepend + i <= Len(b.store) => o[Prepend + i] = Readable(b)[i]
      BY <1>1, <2>2, OverwriteCells
    <3>3. m.store = o /\ Len(Readable(b)) = b.w - b.r
      BY <2>1, <2>2
    <3> HIDE DEF o
    <3> QED
      BY <3>1, <3>2, <3>3
  <2>4. Wellformed(m)
    BY <1>1, <2>1, <2>3 DEF Wellformed
  <2>5. ASSUME NEW i \in 1..(b.w - b.r)
        PROVE  m.store[m.r + i] = b.store[b.r + i]
    <3>1. Prepend + i <= Len(b.store)
      BY <1>1
    <3>2. m.store[Prepend + i] = Readable(b)[i]
      BY <2>3, <3>1
    <3>3. Readable(b)[i] = b.store[b.r + i]
      BY ReadableCells
    <3> QED
      BY <2>1, <3>2, <3>3
  <2>6. Readable(m) = Readable(b)
    <3>1. m.w - m.r = b.w - b.r /\ b.w - b.r \in Int
      BY <1>1, <2>1
    <3> QED
      BY <2>4, <2>5, <3>1, SameReadable
  <2>7. WritableBytes(m) >= len
    BY <1>1, <1>3, <2>1, <2>3 DEF WritableBytes
  <2> QED
    BY <2>4, <2>6, <2>7 DEF m
<1> QED
  BY <1>2, <1>3

(* Bytes that fit are added behind what is readable, and nothing else      *)
(* changes (beginWrite and hasWritten, as readToInbuf uses them).          *)
THEOREM WriteInPlaceAppends ==
  ASSUME NEW b, Wellformed(b), NEW s \in Seq(Cells), Len(s) <= WritableBytes(b)
  PROVE  /\ Wellformed(WriteInPlace(b, s))
         /\ Readable(WriteInPlace(b, s)) = Readable(b) \o s
<1> DEFINE m == WriteInPlace(b, s)
<1> HIDE DEF m
<1>1. /\ b.store \in Seq(Cells) /\ b.r \in Nat /\ b.w \in Nat
      /\ b = [store |-> b.store, r |-> b.r, w |-> b.w]
      /\ Prepend \in Nat /\ Prepend <= b.r /\ b.r <= b.w /\ b.w <= Len(b.store)
      /\ Len(b.store) \in Nat /\ Len(s) \in Nat /\ b.w + Len(s) <= Len(b.store)
  BY BufferAssumption, LenProperties DEF Wellformed, WritableBytes
<1>2. /\ m.store = Overwrite(b.store, b.w, s) /\ m.r = b.r /\ m.w = b.w + Len(s)
      /\ m = [store |-> m.store, r |-> m.r, w |-> m.w]
  <2> DEFINE o == Overwrite(b.store, b.w, s)
             n == b.w + Len(s)
  <2>1. m = [b EXCEPT !.store = o, !.w = n]
    BY DEF m, WriteInPlace
  <2> HIDE DEF o, n
  <2>2. m = [store |-> o, r |-> b.r, w |-> n]
    BY <1>1, <2>1
  <2>3. m.store = o /\ m.r = b.r /\ m.w = n
    BY <2>2
  <2> QED
    BY <2>2, <2>3 DEF o, n
<1>3. /\ m.store \in Seq(Cells) /\ Len(m.store) = Len(b.store)
      /\ \A i \in 1..Len(s) : b.w + i <= Len(b.store) => m.store[b.w + i] = s[i]
      /\ \A i \in 1..b.w : i <= Len(b.store) => m.store[i] = b.store[i]
  <2> DEFINE o == Overwrite(b.store, b.w, s)
  <2>1. o \in Seq(Cells) /\ Len(o) = Len(b.store)
    BY <1>1, OverwriteCells
  <2>2. \A i \in 1..Len(s) : b.w + i <= Len(b.store) => o[b.w + i] = s[i]
    BY <1>1, OverwriteCells
  <2>3. \A i \in 1..b.w : i <= Len(b.store) => o[i] = b.store[i]
    BY <1>1, OverwriteCells
  <2>4. m.store = o
    BY <1>2
  <2> HIDE DEF o
  <2> QED
    BY <2>1, <2>2, <2>3, <2>4
<1>4. Wellformed(m)
  BY <1>1, <1>2, <1>3 DEF Wellformed
<1>5. /\ Readable(b) \in Seq(Cells) /\ Len(Readable(b)) = b.w - b.r
      /\ \A i \in 1..(b.w - b.r) : Readable(b)[i] = b.store[b.r + i]
  BY ReadableCells
<1>6. /\ Readable(m) \in Seq(Cells) /\ Len(Readable(m)) = m.w - m.r
      /\ \A i \in 1..(m.w - m.r) : Readable(m)[i] = m.store[m.r + i]
  BY <1>4, ReadableCells
<1>7. m.r = b.r /\ m.w - m.r = b.w - b.r + Len(s)
  BY <1>1, <1>2
<1>8. ASSUME NEW i \in 1..(b.w - b.r) PROVE Readable(m)[i] = Readable(b)[i]
  <2>1. /\ i \in 1..(b.w - b.r + Len(s)) /\ b.r + i \in 1..b.w
        /\ b.r + i <= Len(b.store)
    BY <1>1
  <2>2. m.store[b.r + i] = b.store[b.r + i]
    BY <1>3, <2>1
  <2>3. Readable(m)[i] = m.store[b.r + i]
    BY <1>6, <1>7, <2>1
  <2> QED
    BY <1>5, <2>2, <2>3
<1>9. ASSUME NEW i \in 1..Len(s) PROVE Readable(m)[b.w - b.r + i] = s[i]
  <2>1. /\ b.w - b.r + i \in 1..(b.w - b.r + Len(s))
        /\ b.w + i <= Len(b.store)
        /\ b.r + (b.w - b.r + i) = b.w + i
    BY <1>1
  <2>2. m.store[b.w + i] = s[i]
    BY <1>3, <2>1
  <2>3. Readable(m)[b.w - b.r + i] = m.store[b.r + (b.w - b.r + i)]
    BY <1>6, <1>7, <2>1, Zenon
  <2> QED
    BY <2>1, <2>2, <2>3
<1>10. Readable(m) = Readable(b) \o s
  <2> DEFINE x == Readable(b)
             z == Readable(m)
  <2>1. x \in Seq(Cells) /\ z \in Seq(Cells) /\ Len(z) = Len(x) + Len(s)
    BY <1>5, <1>6, <1>7
  <2>2. \A i \in 1..Len(x) : z[i] = x[i]
    BY <1>5, <1>8
  <2>3. \A i \in 1..Len(s) : z[Len(x) + i] = s[i]
    BY <1>5, <1>9
  <2> HIDE DEF x, z
  <2>4. z = x \o s
    BY <2>1, <2>2, <2>3, IsConcat
  <2> QED
    BY <2>4 DEF x, z
<1> QED
  BY <1>4, <1>10 DEF m

(* append: whatever was readable is followed by what is appended, whether  *)
(* the vector had room, was compacted or grew.                             *)
THEOREM AppendAppends ==
  ASSUME NEW b, Wellformed(b), NEW s \in Seq(Cells)
  PROVE  /\ Wellformed(AppendTo(b, s))
         /\ Readable(AppendTo(b, s)) = Readable(b) \o s
<1> DEFINE e == EnsureWritable(b, Len(s))
<1>1. Len(s) \in Nat /\ Len(b.store) - b.w \in Int
  BY LenProperties DEF Wellformed
<1>2. Wellformed(e) /\ Readable(e) = Readable(b) /\ Len(s) <= WritableBytes(e)
  <2>1. CASE WritableBytes(b) < Len(s)
    <3>1. e = MakeSpace(b, Len(s))
      BY <2>1 DEF EnsureWritable
    <3>2. Wellformed(e) /\ Readable(e) = Readable(b) /\ WritableBytes(e) >= Len(s)
      BY <1>1, <3>1, MakeSpaceKeeps
    <3>3. WritableBytes(e) \in Int
      BY <3>2, LenProperties DEF Wellformed, WritableBytes
    <3> HIDE DEF e
    <3> QED
      BY <1>1, <3>2, <3>3
  <2>2. CASE ~(WritableBytes(b) < Len(s))
    BY <1>1, <2>2 DEF EnsureWritable, WritableBytes
  <2> QED
    BY <2>1, <2>2
<1>3. AppendTo(b, s) = WriteInPlace(e, s)
  BY DEF AppendTo
<1> HIDE DEF e
<1> QED
  BY <1>2, <1>3, WriteInPlaceAppends

(* retrieve: so many bytes go from the front of what is readable, all of   *)
(* it when there are no more, and the rest stays as it was.                *)
THEOREM RetrieveDropsFront ==
  ASSUME NEW b, Wellformed(b), NEW len \in Nat
  PROVE  /\ Wellformed(Retrieve(b, len))
         /\ Readable(Retrieve(b, len)) =
              IF len < ReadableBytes(b)
              THEN SubSeq(Readable(b), len + 1, Len(Readable(b)))
              ELSE <<>>
<1> DEFINE m == Retrieve(b, len)
<1> HIDE DEF m
<1>1. /\ b.store \in Seq(Cells) /\ b.r \in Nat /\ b.w \in Nat
      /\ b = [store |-> b.store, r |-> b.r, w |-> b.w]
      /\ Prepend \in Nat /\ Prepend <= b.r /\ b.r <= b.w /\ b.w <= Len(b.store)
      /\ Len(b.store) \in Nat
  BY BufferAssumption, LenProperties DEF Wellformed
<1>2. CASE len < b.w - b.r
  <2>1. /\ m.store = b.store /\ m.r = b.r + len /\ m.w = b.w
        /\ m = [store |-> m.store, r |-> m.r, w |-> m.w]
    BY <1>1, <1>2 DEF m, Retrieve, ReadableBytes
  <2>2. Wellformed(m)
    BY <1>1, <1>2, <2>1 DEF Wellformed
  <2>3. /\ Readable(b) \in Seq(Cells) /\ Len(Readable(b)) = b.w - b.r
        /\ \A i \in 1..(b.w - b.r) : Readable(b)[i] = b.store[b.r + i]
    BY ReadableCells
  <2>4. /\ Readable(m) \in Seq(Cells) /\ Len(Readable(m)) = b.w - (b.r + len)
        /\ \A i \in 1..(b.w - (b.r + len)) : Readable(m)[i] = b.store[b.r + len + i]
    <3>1. /\ Readable(m) \in Seq(Cells) /\ Len(Readable(m)) = m.w - m.r
          /\ \A i \in 1..(m.w - m.r) : Readable(m)[i] = m.store[m.r + i]
      BY <2>2, ReadableCells
    <3>2. m.r = b.r + len /\ m.w = b.w /\ m.store = b.store
      BY <2>1
    <3> QED
      BY ONLY <3>1, <3>2
  <2>5. /\ len <= Len(Readable(b)) /\ Len(Readable(m)) = Len(Readable(b)) - len
    BY <1>1, <1>2, <2>3, <2>4
  <2>6. ASSUME NEW i \in 1..(Len(Readable(b)) - len)
        PROVE  Readable(m)[i] = Readable(b)[len + i]
    <3>1. /\ i \in 1..(b.w - (b.r + len)) /\ len + i \in 1..(b.w - b.r)
          /\ b.r + (len + i) = b.r + len + i
      BY <1>1, <1>2, <2>3
    <3>2. Readable(b)[len + i] = b.store[b.r + (len + i)]
      BY <2>3, <3>1, Zenon
    <3>3. Readable(m)[i] = b.store[b.r + len + i]
      BY <2>4, <3>1, Zenon
    <3> QED
      BY <3>1, <3>2, <3>3
  <2>7. Readable(m) = SubSeq(Readable(b), len + 1, Len(Readable(b)))
    BY <2>3, <2>4, <2>5, <2>6, IsRest
  <2> QED
    BY <1>2, <2>2, <2>7 DEF m, ReadableBytes
<1>3. CASE ~(len < b.w - b.r)
  <2>1. /\ m.store = b.store /\ m.r = Prepend /\ m.w = Prepend
        /\ m = [store |-> m.store, r |-> m.r, w |-> m.w]
    BY <1>1, <1>3 DEF m, Retrieve, RetrieveAll, ReadableBytes
  <2>2. Wellformed(m)
    BY <1>1, <2>1 DEF Wellformed
  <2>3. Readable(m) \in Seq(Cells) /\ Len(Readable(m)) = 0
    BY <1>1, <2>1, <2>2, ReadableCells
  <2>4. Readable(m) = <<>>
    BY <2>3, EmptySeq
  <2> QED
    BY <1>3, <2>2, <2>4 DEF m, ReadableBytes
<1> QED
  BY <1>2, <1>3

-----------------------------------------------------------------------------
(* Sequences.  A set of numbers that is not empty has a least one: the     *)
(* form that induction takes here.                                         *)
LEMMA LeastNumber ==
  ASSUME NEW T, T \subseteq Nat, T # {}
  PROVE  \E n \in T : \A m \in T : n <= m
<1> DEFINE R == OpToRel(<, Nat)
<1>1. IsWellFoundedOn(R, Nat)
  BY NatLessThanWellFounded
<1> HIDE DEF R
<1>2. PICK n \in T : \A m \in T : ~(<<m, n>> \in R)
  BY <1>1, WFMin
<1>3. ASSUME NEW m \in T PROVE n <= m
  <2>1. <<m, n>> \notin R /\ m \in Nat /\ n \in Nat
    BY <1>2
  <2>2. ~(m < n)
    BY <2>1 DEF R, OpToRel
  <2> QED
    BY <2>1, <2>2
<1> QED
  BY <1>3

(* f lists what the first pieces of s make when they are joined.           *)
Joins(f, s, n) ==
  \A i \in 1..n : f[i] = IF i = 1 THEN s[i] ELSE f[i - 1] \o s[i]

(* Pieces can be joined.                                                   *)
LEMMA JoinsExist ==
  ASSUME NEW B, NEW s \in Seq(Seq(B)), NEW n \in 1..Len(s)
  PROVE  \E f \in [1..n -> Seq(B)] : Joins(f, s, n)
<1> DEFINE Bad == {k \in 1..Len(s) : ~ \E f \in [1..k -> Seq(B)] : Joins(f, s, k)}
<1>1. Len(s) \in Nat /\ \A i \in 1..Len(s) : s[i] \in Seq(B)
  BY LenProperties, ElementOfSeq
<1>2. SUFFICES ASSUME Bad # {} PROVE FALSE
  BY <1>1
<1>3. PICK k \in Bad : \A m \in Bad : k <= m
  <2>1. Bad \subseteq Nat
    BY <1>1
  <2> HIDE DEF Bad
  <2> QED
    BY <1>2, <2>1, LeastNumber
<1>4. CASE k = 1
  <2> DEFINE g == [i \in 1..1 |-> s[i]]
  <2>1. g \in [1..k -> Seq(B)] /\ Joins(g, s, k)
    BY <1>1, <1>3, <1>4 DEF Joins
  <2> QED
    BY <1>3, <2>1
<1>5. CASE k # 1
  <2>1. k - 1 \in 1..Len(s) /\ k - 1 \notin Bad /\ k \in 1..Len(s)
    <3>1. k \in 1..Len(s)
      BY <1>3
    <3>2. k - 1 \in 1..Len(s) /\ ~(k <= k - 1)
      BY <1>1, <1>5, <3>1
    <3>3. k - 1 \notin Bad
      BY <1>3, <3>2, Zenon
    <3> QED
      BY <3>1, <3>2, <3>3
  <2>2. PICK f \in [1..(k - 1) -> Seq(B)] : Joins(f, s, k - 1)
    BY <2>1
  <2> DEFINE g == [i \in 1..k |-> IF i = k THEN f[k - 1] \o s[k] ELSE f[i]]
  <2>3. f[k - 1] \o s[k] \in Seq(B)
    <3>1. f[k - 1] \in Seq(B) /\ s[k] \in Seq(B)
      BY <1>1, <2>1
    <3> QED
      BY <3>1, ConcatProperties
  <2>4. g \in [1..k -> Seq(B)]
    BY <2>1, <2>3
  <2>5. ASSUME NEW i \in 1..k
        PROVE  g[i] = IF i = 1 THEN s[i] ELSE g[i - 1] \o s[i]
    <3>1. CASE i = k
      <4>1. k \in 1..k /\ k - 1 \in 1..k /\ k - 1 # k
        BY <1>1, <1>5, <2>1
      <4>2. g[k] = f[k - 1] \o s[k] /\ g[k - 1] = f[k - 1]
        BY <4>1
      <4> QED
        BY <1>5, <3>1, <4>2
    <3>2. CASE i # k
      <4>1. i \in 1..(k - 1) /\ g[i] = f[i]
        BY <2>1, <3>2
      <4>2. i # 1 => g[i - 1] = f[i - 1]
        BY <2>1, <3>2
      <4>3. f[i] = IF i = 1 THEN s[i] ELSE f[i - 1] \o s[i]
        BY <2>2, <4>1 DEF Joins
      <4> HIDE DEF g
      <4> QED
        BY <4>1, <4>2, <4>3
    <3> QED
      BY <3>1, <3>2
  <2>6. Joins(g, s, k)
    BY <2>5 DEF Joins
  <2> HIDE DEF g
  <2> QED
    BY <1>3, <2>4, <2>6
<1> QED
  BY <1>4, <1>5

(* There is one way to join them.                                          *)
LEMMA JoinsUnique ==
  ASSUME NEW s, NEW n \in Nat \ {0}, NEW f, NEW g, Joins(f, s, n), Joins(g, s, n)
  PROVE  f[n] = g[n]
<1> DEFINE Bad == {i \in 1..n : f[i] # g[i]}
<1>1. SUFFICES ASSUME Bad # {} PROVE FALSE
  <2>1. n \in 1..n
    OBVIOUS
  <2> QED
    BY <2>1
<1>2. PICK k \in Bad : \A m \in Bad : k <= m
  <2>1. Bad \subseteq Nat
    OBVIOUS
  <2> HIDE DEF Bad
  <2> QED
    BY <1>1, <2>1, LeastNumber
<1>3. f[k] = (IF k = 1 THEN s[k] ELSE f[k - 1] \o s[k])
  BY <1>2 DEF Joins
<1>4. g[k] = (IF k = 1 THEN s[k] ELSE g[k - 1] \o s[k])
  BY <1>2 DEF Joins
<1>5. k # 1 => f[k - 1] = g[k - 1]
  BY <1>2
<1> QED
  BY <1>2, <1>3, <1>4, <1>5

(* FlattenSeq is the last of them.                                         *)
LEMMA FlattenJoins ==
  ASSUME NEW B, NEW s \in Seq(Seq(B)), Len(s) # 0
  PROVE  \E f \in [1..Len(s) -> Seq(B)] :
           Joins(f, s, Len(s)) /\ FlattenSeq(s) = f[Len(s)]
<1> DEFINE Is(h) == h = [i \in 1..Len(s) |-> IF i = 1 THEN s[i] ELSE h[i - 1] \o s[i]]
           g == CHOOSE h : Is(h)
<1>1. Len(s) \in 1..Len(s)
  BY LenProperties
<1>2. PICK f \in [1..Len(s) -> Seq(B)] : Joins(f, s, Len(s))
  BY <1>1, JoinsExist
<1>3. Is(f)
  BY <1>2 DEF Joins
<1>4. FlattenSeq(s) = g[Len(s)]
  BY DEF FlattenSeq
<1>5. Is(g)
  <2> HIDE DEF Is
  <2> QED
    BY <1>3
<1> HIDE DEF g
<1>6. Joins(g, s, Len(s))
  BY <1>5 DEF Joins
<1>7. g[Len(s)] = f[Len(s)]
  BY <1>1, <1>2, <1>6, JoinsUnique
<1> QED
  BY <1>2, <1>4, <1>7

(* Nothing joined is nothing; one more piece goes to the end.              *)
LEMMA FlattenNone ==
  ASSUME NEW s, s = <<>>
  PROVE  FlattenSeq(s) = <<>>
BY DEF FlattenSeq

LEMMA FlattenOneMore ==
  ASSUME NEW B, NEW s \in Seq(Seq(B)), NEW x \in Seq(B)
  PROVE  /\ FlattenSeq(Append(s, x)) = FlattenSeq(s) \o x
         /\ FlattenSeq(s) \in Seq(B)
<1> DEFINE t == Append(s, x)
           n == Len(s)
<1>1. /\ t \in Seq(Seq(B)) /\ Len(t) = n + 1 /\ t[n + 1] = x /\ n \in Nat
      /\ \A i \in 1..n : t[i] = s[i]
  BY AppendProperties, LenProperties
<1> HIDE DEF t, n
<1>2. n \in Nat
  BY <1>1
<1>3. PICK f \in [1..(n + 1) -> Seq(B)] :
         Joins(f, t, n + 1) /\ FlattenSeq(t) = f[n + 1]
  <2>1. t \in Seq(Seq(B)) /\ Len(t) # 0
    BY <1>1
  <2>2. \E f \in [1..Len(t) -> Seq(B)] :
           Joins(f, t, Len(t)) /\ FlattenSeq(t) = f[Len(t)]
    BY <2>1, FlattenJoins
  <2> QED
    BY <1>1, <2>2, Zenon
<1>4. f[n + 1] = IF n + 1 = 1 THEN x ELSE f[n] \o x
  <2>0. \A i \in 1..(n + 1) : f[i] = IF i = 1 THEN t[i] ELSE f[i - 1] \o t[i]
    BY <1>3 DEF Joins
  <2>1. ASSUME NEW j \in 1..(n + 1), j = n + 1
        PROVE  f[j] = IF j = 1 THEN x ELSE f[n] \o x
    <3>1. f[j] = IF j = 1 THEN t[j] ELSE f[j - 1] \o t[j]
      BY <2>0, Zenon
    <3>2. j - 1 = n /\ t[j] = x
      BY <1>1, <2>1
    <3> QED
      BY <3>1, <3>2
  <2>2. n + 1 \in 1..(n + 1)
    BY <1>2
  <2> QED
    BY <2>1, <2>2, Zenon
<1>5. CASE n = 0
  <2>1. s = <<>> /\ FlattenSeq(s) = <<>>
    BY <1>5, EmptySeq, FlattenNone DEF n
  <2>2. <<>> \o x = x /\ <<>> \in Seq(B)
    BY ConcatEmptySeq, EmptySeq
  <2>3. FlattenSeq(t) = x
    BY <1>3, <1>4, <1>5
  <2>4. FlattenSeq(s) = <<>> /\ FlattenSeq(t) = <<>> \o x
    BY <2>1, <2>2, <2>3
  <2> QED
    BY <2>2, <2>4, Zenon DEF t
<1>6. CASE n # 0
  <2>1. PICK g \in [1..n -> Seq(B)] : Joins(g, s, n) /\ FlattenSeq(s) = g[n]
    BY <1>6, FlattenJoins DEF n
  <2>2. Joins(f, s, n)
    <3>1. ASSUME NEW i \in 1..n
          PROVE  f[i] = IF i = 1 THEN s[i] ELSE f[i - 1] \o s[i]
      <4>1. i \in 1..(n + 1) /\ t[i] = s[i]
        BY <1>1
      <4>2. f[i] = IF i = 1 THEN t[i] ELSE f[i - 1] \o t[i]
        BY <1>3, <4>1, Zenon DEF Joins
      <4> QED
        BY <4>1, <4>2
    <3> QED
      BY <3>1 DEF Joins
  <2>3. f[n] = g[n]
    <3>1. n \in Nat \ {0} /\ Joins(f, s, n) /\ Joins(g, s, n)
      BY <1>2, <1>6, <2>1, <2>2
    <3> QED
      BY ONLY <3>1, JoinsUnique
  <2>4. g[n] \in Seq(B)
    BY <1>2, <1>6
  <2> QED
    BY <1>2, <1>3, <1>4, <1>6, <2>1, <2>3, <2>4 DEF t
<1> QED
  BY <1>5, <1>6

(* The first n pieces of p, joined.                                        *)
Made(p, n) == Joined(p, Numbers(n))

LEMMA MadeIs ==
  ASSUME NEW p, NEW n \in Nat
  PROVE  Made(p, n) = FlattenSeq([i \in 1..n |-> p[i]])
<1>1. DOMAIN Numbers(n) = 1..n /\ \A i \in 1..n : Numbers(n)[i] = i
  BY DEF Numbers
<1>2. [i \in DOMAIN Numbers(n) |-> p[Numbers(n)[i]]] = [i \in 1..n |-> p[i]]
  BY <1>1
<1> QED
  BY <1>2 DEF Made, Joined

(* Piece by piece to all of them.                                          *)
LEMMA MadeSteps ==
  ASSUME NEW B, NEW p \in Seq(Seq(B))
  PROVE  /\ Made(p, 0) = <<>>
         /\ \A n \in 0..Len(p) : Made(p, n) \in Seq(B)
         /\ \A n \in 0..(Len(p) - 1) : Made(p, n + 1) = Made(p, n) \o p[n + 1]
         /\ Made(p, Len(p)) = FlattenSeq(p)
<1> DEFINE Part(n) == [i \in 1..n |-> p[i]]
<1>1. /\ Len(p) \in Nat /\ p \in [1..Len(p) -> Seq(B)]
      /\ \A i \in 1..Len(p) : p[i] \in Seq(B)
  BY LenProperties, ElementOfSeq
<1>2. ASSUME NEW n \in 0..Len(p)
      PROVE  Part(n) \in Seq(Seq(B)) /\ Len(Part(n)) = n
  <2>1. n \in Nat /\ Part(n) \in [1..n -> Seq(B)]
    BY <1>1
  <2> QED
    BY <2>1
<1>3. \A n \in Nat : Made(p, n) = FlattenSeq(Part(n))
  BY MadeIs
<1>4. Made(p, 0) = <<>>
  <2>1. Part(0) \in Seq(Seq(B)) /\ Len(Part(0)) = 0
    BY <1>1, <1>2
  <2>2. Part(0) = <<>>
    BY <2>1, EmptySeq
  <2> QED
    BY <1>3, <2>2, FlattenNone
<1>5. ASSUME NEW n \in 0..Len(p) PROVE Made(p, n) \in Seq(B)
  <2>1. Part(n) \in Seq(Seq(B)) /\ n \in Nat
    BY <1>1, <1>2
  <2>2. <<>> \in Seq(B)
    BY EmptySeq
  <2>3. FlattenSeq(Part(n)) \in Seq(B)
    <3> HIDE DEF Part
    <3> QED
      BY <2>1, <2>2, FlattenOneMore
  <2> QED
    BY <1>3, <2>1, <2>3
<1>6. ASSUME NEW n \in 0..(Len(p) - 1)
      PROVE  Made(p, n + 1) = Made(p, n) \o p[n + 1]
  <2>1. /\ n \in 0..Len(p) /\ n + 1 \in 0..Len(p) /\ n \in Nat /\ n + 1 \in Nat
        /\ p[n + 1] \in Seq(B)
    BY <1>1
  <2>2. /\ Part(n) \in Seq(Seq(B)) /\ Len(Part(n)) = n
        /\ Part(n + 1) \in Seq(Seq(B)) /\ Len(Part(n + 1)) = n + 1
    BY <1>2, <2>1
  <2>3. /\ Append(Part(n), p[n + 1]) \in Seq(Seq(B))
        /\ Len(Append(Part(n), p[n + 1])) = n + 1
        /\ \A i \in 1..n : Append(Part(n), p[n + 1])[i] = Part(n)[i]
        /\ Append(Part(n), p[n + 1])[n + 1] = p[n + 1]
    <3> HIDE DEF Part
    <3> QED
      BY <2>1, <2>2, AppendProperties
  <2>4. ASSUME NEW i \in 1..(n + 1)
        PROVE  Part(n + 1)[i] = Append(Part(n), p[n + 1])[i]
    <3>1. Part(n + 1)[i] = p[i]
      OBVIOUS
    <3>2. CASE i = n + 1
      BY <2>3, <3>1, <3>2
    <3>3. CASE i # n + 1
      <4>1. i \in 1..n
        BY <2>1, <3>3
      <4>2. Part(n)[i] = p[i]
        BY <4>1
      <4> HIDE DEF Part
      <4> QED
        BY <2>3, <3>1, <4>1, <4>2
    <3> QED
      BY <3>2, <3>3
  <2>5. Part(n + 1) = Append(Part(n), p[n + 1])
    <3> HIDE DEF Part
    <3> QED
      BY <2>2, <2>3, <2>4, SeqEqual
  <2>6. FlattenSeq(Part(n + 1)) = FlattenSeq(Part(n)) \o p[n + 1]
    <3> HIDE DEF Part
    <3> QED
      BY <2>1, <2>2, <2>5, FlattenOneMore
  <2> QED
    BY <1>3, <2>1, <2>6
<1>7. Made(p, Len(p)) = FlattenSeq(p)
  <2>1. Part(Len(p)) = p
    BY <1>1
  <2> QED
    BY <1>1, <1>3, <2>1
<1> QED
  BY <1>4, <1>5, <1>6, <1>7

(* What the first n make is where what more of them make begins.           *)
LEMMA MadePrefix ==
  ASSUME NEW B, NEW p \in Seq(Seq(B)), NEW n \in 0..Len(p), NEW m \in n..Len(p)
  PROVE  \E rest \in Seq(B) : Made(p, m) = Made(p, n) \o rest
<1> DEFINE Begins(k) == \E rest \in Seq(B) : Made(p, k) = Made(p, n) \o rest
           Bad == {k \in n..Len(p) : ~Begins(k)}
<1>1. Len(p) \in Nat /\ \A i \in 1..Len(p) : p[i] \in Seq(B)
  BY LenProperties, ElementOfSeq
<1>2. SUFFICES ASSUME Bad # {} PROVE FALSE
  OBVIOUS
<1>3. PICK k \in Bad : \A j \in Bad : k <= j
  <2>1. Bad \subseteq Nat
    BY <1>1
  <2> HIDE DEF Bad
  <2> QED
    BY <1>2, <2>1, LeastNumber
<1>4. k \in n..Len(p) /\ ~Begins(k)
  BY <1>3
<1>5. CASE k = n
  <2>1. Made(p, n) \in Seq(B)
    BY MadeSteps
  <2>2. Made(p, n) = Made(p, n) \o <<>> /\ <<>> \in Seq(B)
    BY <2>1, ConcatEmptySeq, EmptySeq
  <2> QED
    BY <1>4, <1>5, <2>2
<1>6. CASE k # n
  <2>1. /\ k - 1 \in n..Len(p) /\ ~(k <= k - 1)
        /\ k - 1 \in 0..(Len(p) - 1) /\ k \in 1..Len(p) /\ k - 1 + 1 = k
    BY <1>1, <1>4, <1>6
  <2>2. Begins(k - 1)
    BY <1>3, <2>1
  <2>3. PICK rest \in Seq(B) : Made(p, k - 1) = Made(p, n) \o rest
    BY <2>2
  <2>4. Made(p, k) = Made(p, k - 1) \o p[k]
    <3>1. \A i \in 0..(Len(p) - 1) : Made(p, i + 1) = Made(p, i) \o p[i + 1]
      BY MadeSteps
    <3>2. Made(p, k - 1 + 1) = Made(p, k - 1) \o p[k - 1 + 1]
      BY <2>1, <3>1
    <3> QED
      BY <2>1, <3>2
  <2>5. p[k] \in Seq(B) /\ Made(p, n) \in Seq(B)
    BY <1>1, <2>1, MadeSteps
  <2>6. (Made(p, n) \o rest) \o p[k] = Made(p, n) \o (rest \o p[k])
    <3> DEFINE x == Made(p, n)
               y == p[k]
    <3>1. x \in Seq(B) /\ y \in Seq(B) /\ rest \in Seq(B)
      BY <2>5
    <3> HIDE DEF x, y
    <3>2. (x \o rest) \o y = x \o (rest \o y)
      BY ONLY <3>1, ConcatAssociative, SMTT(30)
    <3> QED
      BY <3>2 DEF x, y
  <2>7. rest \o p[k] \in Seq(B)
    BY <2>5, ConcatProperties
  <2> QED
    BY <1>4, <2>3, <2>4, <2>6, <2>7
<1> QED
  BY <1>5, <1>6

(* Least, of two numbers and of a set that is known.                       *)
LEMMA LeastOfTwo ==
  ASSUME NEW a \in Int, NEW b \in Int
  PROVE  Least({a, b}) = IF a <= b THEN a ELSE b
<1>1. \E n \in {a, b} : \A m \in {a, b} : n <= m
  BY DEF Least
<1>2. Least({a, b}) \in {a, b} /\ \A m \in {a, b} : Least({a, b}) <= m
  BY <1>1 DEF Least
<1> QED
  BY <1>2

LEMMA LeastIs ==
  ASSUME NEW S, S \subseteq Int, NEW n \in S, \A m \in S : n <= m
  PROVE  Least(S) = n
<1>1. Least(S) \in S /\ \A m \in S : Least(S) <= m
  BY DEF Least
<1>2. Least(S) <= n /\ n <= Least(S) /\ Least(S) \in Int /\ n \in Int
  <2> DEFINE l == Least(S)
  <2> HIDE DEF l
  <2>1. l \in S /\ \A m \in S : l <= m
    BY <1>1 DEF l
  <2>2. l <= n /\ n <= l /\ l \in Int /\ n \in Int
    BY <2>1
  <2> QED
    BY <2>2 DEF l
<1> QED
  BY <1>2

(* What follows a sequence of B's in a sequence of B's is one of B's.      *)
LEMMA TailOfConcat ==
  ASSUME NEW B, NEW C, NEW x \in Seq(B), NEW y \in Seq(C), B \subseteq C,
         x \o y \in Seq(B)
  PROVE  y \in Seq(B)
<1>1. x \in Seq(C)
  BY SeqMonotonic
<1>2. /\ Len(x) \in Nat /\ Len(y) \in Nat /\ Len(x \o y) = Len(x) + Len(y)
      /\ \A i \in 1..(Len(x) + Len(y)) :
           (x \o y)[i] = IF i <= Len(x) THEN x[i] ELSE y[i - Len(x)]
  BY <1>1, LenProperties, ConcatProperties
<1>3. ASSUME NEW i \in 1..Len(y) PROVE y[i] \in B
  <2>1. /\ Len(x) + i \in 1..(Len(x) + Len(y)) /\ ~(Len(x) + i <= Len(x))
        /\ Len(x) + i - Len(x) = i
    BY <1>2
  <2>2. (x \o y)[Len(x) + i] = y[i]
    BY <1>2, <2>1
  <2>3. (x \o y)[Len(x) + i] \in B
    BY <1>2, <2>1, ElementOfSeq
  <2> QED
    BY <2>2, <2>3
<1>4. y \in [1..Len(y) -> C]
  BY LenProperties
<1>5. y \in [1..Len(y) -> B]
  BY <1>3, <1>4
<1> QED
  BY <1>2, <1>5

(* A sequence cut after n.                                                 *)
LEMMA Cut ==
  ASSUME NEW B, NEW x \in Seq(B), NEW n \in 0..Len(x)
  PROVE  /\ SubSeq(x, 1, n) \in Seq(B) /\ Len(SubSeq(x, 1, n)) = n
         /\ SubSeq(x, n + 1, Len(x)) \in Seq(B)
         /\ Len(SubSeq(x, n + 1, Len(x))) = Len(x) - n
         /\ SubSeq(x, 1, n) \o SubSeq(x, n + 1, Len(x)) = x
<1>1. Len(x) \in Nat /\ \A i \in 1..Len(x) : x[i] \in B
  BY LenProperties, ElementOfSeq
<1>2. SubSeq(x, 1, n) \in Seq(B) /\ Len(SubSeq(x, 1, n)) = n
  <2>1. \A i \in 1..n : x[i] \in B
    BY <1>1
  <2>2. /\ SubSeq(x, 1, n) \in Seq(B)
        /\ Len(SubSeq(x, 1, n)) = IF 1 <= n THEN n - 1 + 1 ELSE 0
    BY <2>1, SubSeqProperties
  <2> QED
    BY <1>1, <2>2
<1>3. /\ SubSeq(x, n + 1, Len(x)) \in Seq(B)
      /\ Len(SubSeq(x, n + 1, Len(x))) = Len(x) - n
  <2> DEFINE L == Len(x)
  <2>1. \A i \in (n + 1)..L : x[i] \in B
    BY <1>1
  <2>2. n + 1 \in Int /\ L \in Int
    BY <1>1
  <2>3. /\ SubSeq(x, n + 1, L) \in Seq(B)
        /\ Len(SubSeq(x, n + 1, L)) = IF n + 1 <= L THEN L - (n + 1) + 1 ELSE 0
    BY <2>1, <2>2, SubSeqProperties
  <2> QED
    BY <1>1, <2>3
<1>4. SubSeq(x, 1, n) \o SubSeq(x, n + 1, Len(x)) = SubSeq(x, 1, Len(x))
  <2>1. 1 \in 1..(Len(x) + 1) /\ n \in (1 - 1)..Len(x) /\ Len(x) \in n..Len(x)
    BY <1>1
  <2> QED
    BY <2>1, ConcatAdjacentSubSeq
<1>5. SubSeq(x, 1, Len(x)) = x
  BY SubSeqFull
<1> QED
  BY <1>2, <1>3, <1>4, <1>5

LEMMA Slice ==
  ASSUME NEW B, NEW x \in Seq(B), NEW m \in Nat, NEW n \in Nat, m <= n, n <= Len(x)
  PROVE  SubSeq(x, m + 1, n) \in Seq(B) /\ Len(SubSeq(x, m + 1, n)) = n - m
<1>1. Len(x) \in Nat
  BY LenProperties
<1>2. \A i \in (m + 1)..n : x[i] \in B
  BY <1>1, ElementOfSeq
<1>3. /\ SubSeq(x, m + 1, n) \in Seq(B)
      /\ Len(SubSeq(x, m + 1, n)) = IF m + 1 <= n THEN n - (m + 1) + 1 ELSE 0
  BY <1>2, SubSeqProperties
<1> QED
  BY <1>3

LEMMA Regroup ==
  ASSUME NEW B, NEW x \in Seq(B), NEW y \in Seq(B), NEW z \in Seq(B),
         NEW yz, yz = y \o z
  PROVE  (x \o y) \o z = x \o yz
BY ConcatAssociative, SMTT(30)

LEMMA SmallMod ==
  ASSUME NEW m \in Nat \ {0}, NEW n \in 0..(m - 1)
  PROVE  n % m = n
OBVIOUS

-----------------------------------------------------------------------------
(* Where handle_io is says what epoll may report: nothing while it runs,   *)
(* and nothing ever again once an exception has left it, the connection    *)
(* being disarmed, or closed by a timer.  When it writes, the parser has   *)
(* given up on what is in inbuf.                                           *)
Spent == armed = "fired" \/ (armed = "closed" /\ timedOut)

RunInv ==
  /\ pc \in {"read", "parse", "write"} => Spent /\ ~threw
  /\ pc = "write" => ~RequestComplete
  /\ threw => Spent

ArmInv == RunInv /\ ArmedForRest

LEMMA ArmInit == CInit => ArmInv
<1> SUFFICES ASSUME CInit PROVE ArmInv
  OBVIOUS
<1>1. pc = "idle" /\ armed = "in" /\ threw = FALSE /\ timedOut = FALSE
  BY DEF CInit
<1>2. inbuf.r = inbuf.w /\ outbuf.r = outbuf.w /\ inbuf.w = Prepend /\ outbuf.w = Prepend
  BY DEF CInit, NewBuffer
<1>3. Prepend \in Nat
  BY BufferAssumption
<1>4. ReadableBytes(outbuf) = 0
  BY <1>2, <1>3 DEF ReadableBytes
<1>5. Input = <<>>
  BY <1>2, <1>3 DEF Input, Readable
<1>6. HeadEnds = {}
  BY <1>5 DEF HeadEnds
<1> QED
  BY <1>1, <1>4, <1>6 DEF ArmInv, RunInv, ArmedForRest, RequestComplete

(* Whether a request is complete depends on the script and on inbuf only.  *)
LEMMA SameInput ==
  ASSUME UNCHANGED <<script, inbuf>>
  PROVE  RequestComplete' = RequestComplete
<1>1. script' = script /\ inbuf' = inbuf
  OBVIOUS
<1>2. Input' = Input
  BY <1>1 DEF Input
<1>3. HeadEnds' = HeadEnds /\ First' = First
  BY <1>2 DEF HeadEnds, First
<1>4. HeaderLen' = HeaderLen /\ BodyLen' = BodyLen
  BY <1>1, <1>3 DEF HeaderLen, BodyLen
<1>5. NeededLen' = NeededLen
  BY <1>4 DEF NeededLen
<1> QED
  BY <1>1, <1>3, <1>5 DEF RequestComplete

LEMMA ArmStep ==
  ASSUME ArmInv, [CNext]_cvars
  PROVE  ArmInv'
<1> USE DEF ArmInv, RunInv, Spent, ArmedForRest
<1>1. CASE Event
  <2>1. UNCHANGED <<script, inbuf, outbuf, threw, timedOut>>
    BY <1>1 DEF Event, kernel, buffers, accidents
  <2>2. RequestComplete' = RequestComplete
    BY <2>1, SameInput
  <2> QED
    BY <1>1, <2>1, <2>2 DEF Event, Closing
<1>2. CASE Readv
  BY <1>2 DEF Readv, accidents
<1>3. CASE ReadEnd
  BY <1>3 DEF ReadEnd, Closing, kernel, buffers, accidents
<1>4. CASE Answer
  BY <1>4 DEF Answer, kernel, accidents
<1>5. CASE ParseThrows
  BY <1>5 DEF ParseThrows, kernel, buffers, accidents
<1>6. CASE ParseEnd
  <2>1. UNCHANGED <<script, inbuf, armed, threw, timedOut>>
    BY <1>6 DEF ParseEnd, kernel, buffers, accidents
  <2>2. RequestComplete' = RequestComplete
    BY <2>1, SameInput
  <2> QED
    BY <1>6, <2>1, <2>2 DEF ParseEnd
<1>7. CASE Send
  <2>1. UNCHANGED <<script, inbuf, armed, pc, threw, timedOut>> /\ pc = "write"
    BY <1>7 DEF Send, accidents, Broken
  <2>2. RequestComplete' = RequestComplete
    BY <2>1, SameInput
  <2> QED
    BY <2>1, <2>2
<1>8. CASE SendBroken
  BY <1>8 DEF SendBroken, Closing, kernel, buffers, accidents
<1>9. CASE Finish
  <2>1. UNCHANGED <<script, inbuf, outbuf, threw, timedOut>> /\ pc = "write" /\ pc' = "idle"
    BY <1>9 DEF Finish, Closing, RearmFor, kernel, buffers, accidents
  <2>2. RequestComplete' = RequestComplete
    BY <2>1, SameInput
  <2>3. \/ armed' = "closed"
        \/ armed' = IF ReadableBytes(outbuf) > 0 THEN "out" ELSE "in"
    BY <1>9 DEF Finish, Closing, RearmFor
  <2> QED
    BY <2>1, <2>2, <2>3
<1>10. CASE /\ UNCHANGED <<script, inbuf, outbuf, armed, pc, threw, timedOut>>
  <2>1. RequestComplete' = RequestComplete
    BY <1>10, SameInput
  <2> QED
    BY <1>10, <2>1
<1>11. CASE ClientSend \/ ClientRead \/ \E how \in {"fin", "reset"} : ClientLeave(how)
  BY <1>10, <1>11 DEF ClientSend, ClientRead, ClientLeave, buffers, accidents
<1>12. CASE UNCHANGED cvars
  BY <1>10, <1>12 DEF cvars
<1>13. CASE Timeout
  <2>1. /\ UNCHANGED <<script, inbuf, pc, threw>>
        /\ armed' = "closed" /\ timedOut'
    BY <1>13 DEF Timeout, kernel, buffers
  <2>2. RequestComplete' = RequestComplete
    BY <2>1, SameInput
  <2> QED
    BY <2>1, <2>2
<1> QED
  BY <1>1, <1>2, <1>3, <1>4, <1>5, <1>6, <1>7, <1>8, <1>9, <1>11, <1>12, <1>13
  DEF CNext, Server

(* Between two events a connection waits for what it needs, for output     *)
(* while some is left and else for input, and no complete request waits in *)
(* inbuf: no path of handle_io leaves a connection deaf but an exception   *)
(* of the parser.                                                          *)
THEOREM NeverDeaf == CSpec => []ArmedForRest
<1>1. ArmInv => ArmedForRest
  BY DEF ArmInv
<1> QED
  BY <1>1, ArmInit, ArmStep, PTL DEF CSpec

-----------------------------------------------------------------------------
(* What the connection is in between.                                      *)
DoneInv ==
  /\ wantClose => \E i \in DOMAIN parsed : ~script[parsed[i]].keep
  /\ ClosedWhenDone

ByteInv ==
  /\ CTypeOK
  /\ DoneInv
  /\ BytesConserved
  /\ AnswersInOrder

(* The requests of a script and the answers to them.                       *)
LEMMA ScriptBytes ==
  ASSUME script \in Scripts
  PROVE  /\ RequestsOf[script] \in Seq(Seq(Byte)) /\ AnswersOf[script] \in Seq(Seq(Byte))
         /\ Len(script) \in Nat /\ DOMAIN script = 1..Len(script)
         /\ Len(RequestsOf[script]) = Len(script) /\ Len(AnswersOf[script]) = Len(script)
         /\ \A i \in 1..Len(script) :
              /\ Len(RequestsOf[script][i]) = HeadLen + script[i].body
              /\ \A k \in 1..(HeadLen + script[i].body) : RequestsOf[script][i][k] = <<i, k>>
              /\ script[i].body \in Nat
              /\ script[i].declared \in 0..(SizeMod - 1)
              /\ script[i].keep \in BOOLEAN
              /\ AnswersOf[script][i] = HeadBytes(i) \o BodyBytes(i)
              /\ HeadBytes(i) \in Seq(Byte) /\ BodyBytes(i) \in Seq(Byte)
         /\ Stream = Made(RequestsOf[script], Len(script))
         /\ Stream \in Seq(Byte)
<1> DEFINE L == Len(script)
           R == RequestsOf[script]
           A == AnswersOf[script]
<1>1. /\ script \in Seq([body : Nat, declared : 0..(SizeMod - 1), keep : BOOLEAN])
      /\ HeadLen \in Nat /\ AnswerHead \in Nat /\ AnswerBody \in Nat
  BY ConnectionAssumption
<1>2. /\ L \in Nat /\ DOMAIN script = 1..L
      /\ \A i \in 1..L : script[i] \in [body : Nat, declared : 0..(SizeMod - 1), keep : BOOLEAN]
  BY <1>1, LenProperties, ElementOfSeq
<1> HIDE DEF L
<1>3. \A i \in 1..L : /\ script[i].body \in Nat /\ script[i].declared \in 0..(SizeMod - 1)
                      /\ script[i].keep \in BOOLEAN
  BY <1>2
<1>4. /\ \A i \in 1..L : \A k \in 1..(HeadLen + script[i].body) : <<i, k>> \in Byte
      /\ \A i \in 1..L : \A k \in 1..(AnswerHead + AnswerBody) : <<i, k>> \in Byte
  BY <1>2, ConnectionAssumption
<1>5. R = [i \in 1..L |-> [k \in 1..(HeadLen + script[i].body) |-> <<i, k>>]]
  BY <1>2 DEF RequestsOf
<1>6. A = [i \in 1..L |-> [k \in 1..(AnswerHead + AnswerBody) |-> <<i, k>>]]
  BY <1>2 DEF AnswersOf
<1> HIDE DEF R, A
<1>7. ASSUME NEW i \in 1..L
      PROVE  /\ R[i] \in Seq(Byte) /\ Len(R[i]) = HeadLen + script[i].body
             /\ \A k \in 1..(HeadLen + script[i].body) : R[i][k] = <<i, k>>
  <2> DEFINE n == HeadLen + script[i].body
  <2>1. n \in Nat /\ R[i] = [k \in 1..n |-> <<i, k>>]
    BY <1>1, <1>3, <1>5
  <2>2. \A k \in 1..n : <<i, k>> \in Byte
    BY <1>4
  <2> HIDE DEF n
  <2>3. R[i] \in [1..n -> Byte]
    BY <2>1, <2>2
  <2>4. R[i] \in Seq(Byte) /\ Len(R[i]) = n /\ \A k \in 1..n : R[i][k] = <<i, k>>
    BY <2>1, <2>3
  <2> QED
    BY <2>4 DEF n
<1>8. ASSUME NEW i \in 1..L
      PROVE  /\ A[i] \in Seq(Byte)
             /\ HeadBytes(i) \in Seq(Byte) /\ BodyBytes(i) \in Seq(Byte)
             /\ A[i] = HeadBytes(i) \o BodyBytes(i)
  <2>1. A[i] = [k \in 1..(AnswerHead + AnswerBody) |-> <<i, k>>]
    BY <1>6
  <2>2. \A k \in 1..(AnswerHead + AnswerBody) : <<i, k>> \in Byte
    BY <1>4
  <2>3. AnswerHead + AnswerBody \in Nat
    BY <1>1
  <2>4. /\ A[i] \in Seq(Byte) /\ Len(A[i]) = AnswerHead + AnswerBody
        /\ \A k \in 1..(AnswerHead + AnswerBody) : A[i][k] = <<i, k>>
    BY <2>1, <2>2, <2>3
  <2>5. /\ HeadBytes(i) \in Seq(Byte) /\ Len(HeadBytes(i)) = AnswerHead
        /\ \A k \in 1..AnswerHead : HeadBytes(i)[k] = <<i, k>>
    <3>1. \A k \in 1..AnswerHead : <<i, k>> \in Byte
      BY <1>1, <2>2
    <3> QED
      BY <1>1, <3>1 DEF HeadBytes
  <2>6. /\ BodyBytes(i) \in Seq(Byte) /\ Len(BodyBytes(i)) = AnswerBody
        /\ \A k \in 1..AnswerBody : BodyBytes(i)[k] = <<i, AnswerHead + k>>
    <3>1. \A k \in 1..AnswerBody : <<i, AnswerHead + k>> \in Byte
      BY <1>1, <2>2
    <3> QED
      BY <1>1, <3>1 DEF BodyBytes
  <2>7. \A k \in 1..AnswerHead : A[i][k] = HeadBytes(i)[k]
    <3>1. \A k \in 1..AnswerHead : k \in 1..(AnswerHead + AnswerBody)
      BY <1>1
    <3> QED
      BY <2>4, <2>5, <3>1
  <2>8. \A k \in 1..AnswerBody : A[i][AnswerHead + k] = BodyBytes(i)[k]
    <3>1. \A k \in 1..AnswerBody : AnswerHead + k \in 1..(AnswerHead + AnswerBody)
      BY <1>1
    <3> QED
      BY <2>4, <2>6, <3>1
  <2>9. A[i] \in Seq(Cells) /\ HeadBytes(i) \in Seq(Cells) /\ BodyBytes(i) \in Seq(Cells)
    BY <2>4, <2>5, <2>6, SeqMonotonic DEF Cells
  <2>10. A[i] = HeadBytes(i) \o BodyBytes(i)
    BY <2>4, <2>5, <2>6, <2>7, <2>8, <2>9, IsConcat
  <2> QED
    BY <2>4, <2>5, <2>6, <2>10
<1>9. R \in Seq(Seq(Byte)) /\ Len(R) = L /\ A \in Seq(Seq(Byte)) /\ Len(A) = L
  <2>1. R \in [1..L -> Seq(Byte)] /\ A \in [1..L -> Seq(Byte)]
    BY <1>5, <1>6, <1>7, <1>8
  <2> QED
    BY <1>2, <2>1
<1>10. Stream = FlattenSeq(R)
  BY DEF Stream, StreamOf, R
<1>11. Stream = Made(R, L) /\ Made(R, L) \in Seq(Byte)
  <2>1. L \in 0..L
    BY <1>2
  <2>2. Made(R, Len(R)) = FlattenSeq(R) /\ \A n \in 0..Len(R) : Made(R, n) \in Seq(Byte)
    BY <1>9, MadeSteps
  <2> QED
    BY <1>9, <1>10, <2>1, <2>2
<1> QED
  BY <1>2, <1>3, <1>7, <1>8, <1>9, <1>11 DEF L, R, A

(* Where the parser is in the script.                                      *)
LEMMA ParsedSoFar ==
  ASSUME script \in Scripts, parsed \in Seq(DOMAIN script), parsed = Numbers(Len(parsed))
  PROVE  /\ Len(parsed) \in 0..Len(script)
         /\ Joined(RequestsOf[script], parsed) = Made(RequestsOf[script], Len(parsed))
         /\ Joined(AnswersOf[script], parsed) = Made(AnswersOf[script], Len(parsed))
         /\ Joined(RequestsOf[script], parsed) \in Seq(Byte)
         /\ Joined(AnswersOf[script], parsed) \in Seq(Byte)
<1> DEFINE n == Len(parsed)
<1>1. n \in Nat /\ Len(script) \in Nat /\ DOMAIN script = 1..Len(script)
  BY LenProperties, ScriptBytes
<1>2. n \in 0..Len(script)
  <2>1. CASE n = 0
    BY <1>1, <2>1
  <2>2. CASE n # 0
    <3>1. n \in 1..n
      BY <1>1, <2>2
    <3>2. Numbers(n)[n] = n
      BY <3>1 DEF Numbers
    <3>3. parsed[n] \in DOMAIN script
      BY <3>1, ElementOfSeq
    <3> HIDE DEF n
    <3>4. parsed[n] = n
      BY <3>2 DEF n
    <3> QED
      BY <1>1, <3>3, <3>4
  <2> QED
    BY <2>1, <2>2
<1>3. /\ Joined(RequestsOf[script], parsed) = Made(RequestsOf[script], n)
      /\ Joined(AnswersOf[script], parsed) = Made(AnswersOf[script], n)
  BY DEF Made
<1>4. \A i \in 0..Len(script) :
        Made(RequestsOf[script], i) \in Seq(Byte) /\ Made(AnswersOf[script], i) \in Seq(Byte)
  <2>1. /\ RequestsOf[script] \in Seq(Seq(Byte)) /\ AnswersOf[script] \in Seq(Seq(Byte))
        /\ Len(RequestsOf[script]) = Len(script) /\ Len(AnswersOf[script]) = Len(script)
    BY ScriptBytes
  <2>2. \A i \in 0..Len(RequestsOf[script]) : Made(RequestsOf[script], i) \in Seq(Byte)
    BY <2>1, MadeSteps
  <2>3. \A i \in 0..Len(AnswersOf[script]) : Made(AnswersOf[script], i) \in Seq(Byte)
    BY <2>1, MadeSteps
  <2> QED
    BY <2>1, <2>2, <2>3
<1> HIDE DEF n
<1>5. n \in 0..Len(script) => /\ Made(RequestsOf[script], n) \in Seq(Byte)
                              /\ Made(AnswersOf[script], n) \in Seq(Byte)
  BY <1>4
<1> QED
  BY <1>2, <1>3, <1>5 DEF n

(* What waits in inbuf begins where the parsed requests end.               *)
LEMMA InputIs ==
  ASSUME CTypeOK, BytesConserved
  PROVE  /\ Input \in Seq(Byte) /\ Len(Input) = ReadableBytes(inbuf)
         /\ Len(Input) \in Nat
         /\ Len(Joined(RequestsOf[script], parsed)) + Len(Input) = read
         /\ \A i \in 1..Len(Input) :
              Input[i] = Stream[Len(Joined(RequestsOf[script], parsed)) + i]
<1> DEFINE J == Joined(RequestsOf[script], parsed)
<1>1. J \in Seq(Byte) /\ Stream \in Seq(Byte)
  BY ParsedSoFar, ScriptBytes DEF CTypeOK, BytesConserved
<1>2. Input \in Seq(Cells) /\ Len(Input) = ReadableBytes(inbuf)
  BY ReadableCells DEF CTypeOK, Input, ReadableBytes
<1>3. /\ Len(Stream) \in Nat /\ read \in 0..Len(Stream)
      /\ J \o Input = SubSeq(Stream, 1, read)
  BY <1>1, LenProperties DEF CTypeOK, BytesConserved
<1> HIDE DEF J
<1>4. SubSeq(Stream, 1, read) \in Seq(Byte) /\ Len(SubSeq(Stream, 1, read)) = read
  BY <1>1, <1>3, Cut
<1>5. Input \in Seq(Byte)
  <2>1. Byte \subseteq Cells /\ J \o Input \in Seq(Byte)
    BY <1>3, <1>4 DEF Cells
  <2> QED
    BY <1>1, <1>2, <2>1, TailOfConcat
<1>6. /\ Len(J) \in Nat /\ Len(Input) \in Nat /\ Len(J) + Len(Input) = read
      /\ \A i \in 1..(Len(J) + Len(Input)) :
           (J \o Input)[i] = IF i <= Len(J) THEN J[i] ELSE Input[i - Len(J)]
  <2>1. Len(J) \in Nat /\ Len(Input) \in Nat
    BY <1>1, <1>5, LenProperties
  <2>2. /\ Len(J \o Input) = Len(J) + Len(Input)
        /\ \A i \in 1..(Len(J) + Len(Input)) :
             (J \o Input)[i] = IF i <= Len(J) THEN J[i] ELSE Input[i - Len(J)]
    BY <1>1, <1>5, ConcatProperties
  <2> QED
    BY <1>3, <1>4, <2>1, <2>2
<1>7. ASSUME NEW i \in 1..Len(Input) PROVE Input[i] = Stream[Len(J) + i]
  <2>1. /\ Len(J) + i \in 1..(Len(J) + Len(Input)) /\ ~(Len(J) + i <= Len(J))
        /\ Len(J) + i - Len(J) = i /\ Len(J) + i \in 1..read
    BY <1>6
  <2>2. (J \o Input)[Len(J) + i] = Input[i]
    BY <1>6, <2>1
  <2>3. SubSeq(Stream, 1, read)[Len(J) + i] = Stream[Len(J) + i]
    <3>1. \A k \in 1..read : Stream[k] \in Byte
      BY <1>1, <1>3, ElementOfSeq
    <3>2. \A k \in 1..(read - 1 + 1) : SubSeq(Stream, 1, read)[k] = Stream[1 + k - 1]
      BY <1>3, <3>1, SubSeqProperties
    <3>3. read - 1 + 1 = read /\ \A k \in 1..read : 1 + k - 1 = k
      BY <1>3
    <3> QED
      BY <2>1, <3>2, <3>3
  <2> QED
    BY <1>3, <2>2, <2>3
<1> QED
  BY <1>2, <1>5, <1>6, <1>7 DEF J

(* A complete request is the next of the script, and the sum of the two    *)
(* lengths is its length; what is behind it stays.                         *)
LEMMA NextRequest ==
  ASSUME CTypeOK, BytesConserved, RequestComplete, BodyLen <= MaxString
  PROVE  /\ Len(parsed) + 1 \in 1..Len(script) /\ First = Len(parsed) + 1
         /\ NeededLen \in 1..Len(Input)
         /\ SubSeq(Input, 1, NeededLen) = RequestsOf[script][Len(parsed) + 1]
<1> DEFINE n == Len(parsed) + 1
           R == RequestsOf[script]
           J == Joined(R, parsed)
           L == Len(script)
           body == script[n].body
           declared == script[n].declared
<1>1. /\ R \in Seq(Seq(Byte)) /\ Len(R) = L /\ L \in Nat
      /\ \A i \in 1..L :
           /\ Len(R[i]) = HeadLen + script[i].body
           /\ \A k \in 1..(HeadLen + script[i].body) : R[i][k] = <<i, k>>
           /\ script[i].body \in Nat
           /\ script[i].declared \in 0..(SizeMod - 1)
      /\ Stream = Made(R, L) /\ Stream \in Seq(Byte)
  BY ScriptBytes DEF CTypeOK
<1>2. n - 1 \in 0..L /\ n \in Nat /\ J = Made(R, n - 1) /\ J \in Seq(Byte)
  <2>1. /\ Len(parsed) \in 0..L /\ J = Made(R, Len(parsed)) /\ J \in Seq(Byte)
    BY ParsedSoFar DEF CTypeOK, BytesConserved
  <2>2. n - 1 = Len(parsed) /\ n \in Nat
    BY <1>1, <2>1
  <2> QED
    BY <2>1, <2>2
<1>3. /\ Input \in Seq(Byte) /\ Len(Input) = ReadableBytes(inbuf) /\ Len(Input) \in Nat
      /\ Len(J) + Len(Input) = read
      /\ \A i \in 1..Len(Input) : Input[i] = Stream[Len(J) + i]
  BY InputIs
<1>4. read <= Len(Stream) /\ Len(Stream) \in Nat /\ Len(J) \in Nat
  BY <1>1, <1>2, LenProperties DEF CTypeOK
<1>5. PICK e \in DOMAIN Input : Input[e][2] = HeadLen
  BY DEF RequestComplete, HeadEnds
<1>6. e \in 1..Len(Input)
  BY <1>3, <1>5, LenProperties
<1> HIDE DEF J, L, R, n
<1>7. n \in 1..L
  <2>1. SUFFICES ASSUME n - 1 = L PROVE FALSE
    BY <1>1, <1>2
  <2>2. J = Stream
    BY <1>1, <1>2, <2>1
  <2> QED
    BY <1>3, <1>4, <1>6, <2>2
<1> DEFINE M == R[n]
<1>8. M \in Seq(Byte) /\ Len(M) = HeadLen + body /\ body \in Nat
      /\ declared \in 0..(SizeMod - 1) /\ HeadLen \in Nat \ {0}
      /\ \A k \in 1..(HeadLen + body) : M[k] = <<n, k>>
  BY <1>1, <1>7, ElementOfSeq, ConnectionAssumption
<1>9. HeadLen \in Nat \ {0} /\ Len(M) \in Nat /\ HeadLen <= Len(M)
  BY <1>8
<1>10. Made(R, n) = J \o M /\ Made(R, n) \in Seq(Byte)
  <2>1. n - 1 \in 0..(Len(R) - 1) /\ n - 1 + 1 = n /\ n \in 0..Len(R)
    BY <1>1, <1>2, <1>7
  <2>2. /\ \A i \in 0..(Len(R) - 1) : Made(R, i + 1) = Made(R, i) \o R[i + 1]
        /\ \A i \in 0..Len(R) : Made(R, i) \in Seq(Byte)
    BY <1>1, MadeSteps
  <2>3. Made(R, n - 1 + 1) = Made(R, n - 1) \o R[n - 1 + 1]
    BY <2>1, <2>2
  <2> QED
    BY <1>2, <2>1, <2>2, <2>3
<1>11. PICK rest \in Seq(Byte) : Stream = Made(R, n) \o rest
  <2>1. n \in 0..Len(R) /\ L \in n..Len(R)
    BY <1>1, <1>7
  <2>2. \E rest \in Seq(Byte) : Made(R, L) = Made(R, n) \o rest
    BY <1>1, <2>1, MadePrefix
  <2> QED
    BY <1>1, <2>2
<1>12. n = L => Len(Stream) = Len(J) + Len(M)
  <2>1. Len(J \o M) = Len(J) + Len(M)
    BY <1>2, <1>8, ConcatProperties
  <2> QED
    BY <1>1, <1>10, <2>1
<1> HIDE DEF M
<1>13. ASSUME NEW k \in 1..Len(Input), k <= Len(M) PROVE Input[k] = <<n, k>>
  <2>1. Len(M) \in Nat /\ Len(rest) \in Nat
    BY <1>8, LenProperties
  <2>2. /\ Len(J \o M) = Len(J) + Len(M) /\ J \o M \in Seq(Byte)
        /\ (J \o M)[Len(J) + k] = M[k]
    <3>1. /\ J \o M \in Seq(Byte) /\ Len(J \o M) = Len(J) + Len(M)
          /\ \A i \in 1..(Len(J) + Len(M)) :
               (J \o M)[i] = IF i <= Len(J) THEN J[i] ELSE M[i - Len(J)]
      <4>1. J \in Seq(Byte) /\ M \in Seq(Byte)
        BY <1>2, <1>8
      <4> QED
        BY ONLY <4>1, ConcatProperties
    <3>2. /\ Len(J) + k \in 1..(Len(J) + Len(M)) /\ ~(Len(J) + k <= Len(J))
          /\ Len(J) + k - Len(J) = k
      BY <1>3, <1>4, <1>13, <2>1
    <3> QED
      BY <3>1, <3>2
  <2> DEFINE P == J \o M
  <2>3. Stream[Len(J) + k] = P[Len(J) + k]
    <3>1. \A i \in 1..(Len(P) + Len(rest)) :
            (P \o rest)[i] = IF i <= Len(P) THEN P[i] ELSE rest[i - Len(P)]
      BY <2>2, ConcatProperties
    <3>2. Len(J) + k \in 1..(Len(P) + Len(rest)) /\ Len(J) + k <= Len(P)
      BY <1>3, <1>4, <1>13, <2>1, <2>2
    <3> QED
      BY <1>10, <1>11, <3>1, <3>2
  <2>4. M[k] = <<n, k>>
    BY <1>3, <1>8, <1>13
  <2> QED
    BY <1>3, <2>2, <2>3, <2>4
<1>14. First = n
  <2>1. 1 \in 1..Len(Input) /\ 1 <= Len(M)
    BY <1>3, <1>6, <1>9
  <2>2. Input[1] = <<n, 1>>
    BY <1>13, <2>1
  <2> QED
    BY <2>2 DEF First
<1>15. HeaderLen = HeadLen /\ HeadLen <= Len(Input)
  <2>1. DOMAIN Input = 1..Len(Input)
    BY <1>3, LenProperties
  <2>2. ASSUME NEW k \in HeadEnds PROVE HeadLen <= k
    <3>1. k \in 1..Len(Input) /\ Input[k][2] = HeadLen
      BY <2>1 DEF HeadEnds
    <3>2. SUFFICES ASSUME k < HeadLen PROVE FALSE
      BY <1>3, <1>9, <3>1
    <3>3. k <= Len(M)
      BY <1>3, <1>9, <3>1, <3>2
    <3>4. Input[k] = <<n, k>>
      BY <1>13, <3>1, <3>3
    <3>5. Input[k][2] = k
      BY <3>4
    <3>6. k = HeadLen
      BY <3>1, <3>5
    <3> QED
      BY <1>9, <3>2, <3>6
  <2>3. HeadLen <= Len(Input)
    <3>1. e \in HeadEnds
      BY <1>5 DEF HeadEnds
    <3>2. HeadLen <= e
      BY <2>2, <3>1
    <3> QED
      BY <1>3, <1>6, <1>9, <3>2
  <2>4. HeadLen \in HeadEnds
    <3>1. HeadLen \in 1..Len(Input) /\ HeadLen <= Len(M)
      BY <1>3, <1>9, <2>3
    <3>2. Input[HeadLen] = <<n, HeadLen>>
      BY <1>13, <3>1
    <3> QED
      BY <2>1, <3>1, <3>2 DEF HeadEnds
  <2>5. HeadEnds \subseteq Int
    BY <2>1 DEF HeadEnds
  <2>6. Least(HeadEnds) = HeadLen
    BY <2>2, <2>4, <2>5, LeastIs
  <2> QED
    BY <2>3, <2>6 DEF HeaderLen
<1>16. NeededLen = HeadLen + declared /\ NeededLen <= Len(Input)
  <2>1. BodyLen = declared /\ declared <= MaxString
    BY <1>14 DEF BodyLen
  <2>2. SizeMod \in Nat /\ HeadLen <= MaxString
    BY ConnectionAssumption
  <2>3. MaxString = SizeMod \div 2 - 1
    BY DEF MaxString
  <2> DEFINE m == SizeMod
             d == declared
  <2>4. d \in 0..(m - 1) /\ d <= m \div 2 - 1 /\ m \in Nat /\ HeadLen <= m \div 2 - 1
    BY <1>8, <2>1, <2>2, <2>3
  <2> HIDE DEF m, d
  <2>5. HeadLen + d \in 0..(m - 1) /\ m \in Nat \ {0}
    BY <1>8, <2>4
  <2>6. (HeadLen + d) % m = HeadLen + d
    BY <2>5, SmallMod
  <2> QED
    BY <1>3, <1>15, <2>1, <2>6 DEF NeededLen, RequestComplete, m, d
<1>17. body = declared
  <2>1. SUFFICES ASSUME body # declared PROVE FALSE
    OBVIOUS
  <2>2. body < declared /\ n = L
    <3>1. script \in Scripts /\ n \in DOMAIN script
      BY <1>7, ScriptBytes DEF CTypeOK, L
    <3> QED
      BY <2>1, <3>1, ConnectionAssumption DEF L
  <2> HIDE DEF body, declared
  <2>3. Len(Stream) = Len(J) + Len(M) /\ Len(M) = HeadLen + body
    BY <1>8, <1>12, <2>2
  <2>4. Len(Input) <= Len(M) /\ Len(M) < HeadLen + declared
    BY <1>3, <1>4, <1>8, <2>2, <2>3
  <2>5. HeadLen + declared <= Len(Input)
    BY <1>16
  <2> QED
    BY <1>3, <1>8, <2>4, <2>5
<1>18. NeededLen = Len(M) /\ NeededLen \in 1..Len(Input)
  BY <1>3, <1>8, <1>16, <1>17
<1>19. SubSeq(Input, 1, NeededLen) = M
  <2>1. \A i \in 1..NeededLen : Input[i] \in Byte
    BY <1>3, <1>18, ElementOfSeq
  <2> DEFINE N == NeededLen
  <2>2. N \in Nat /\ N - 1 + 1 = N /\ 1 <= N
    BY <1>3, <1>18
  <2>3. /\ SubSeq(Input, 1, N) \in Seq(Byte)
        /\ Len(SubSeq(Input, 1, N)) = N
        /\ \A i \in 1..N : SubSeq(Input, 1, N)[i] = Input[1 + i - 1]
    BY <2>1, <2>2, SubSeqProperties
  <2>4. ASSUME NEW i \in 1..N PROVE SubSeq(Input, 1, N)[i] = M[i]
    <3>1. i \in 1..Len(Input) /\ i <= Len(M) /\ 1 + i - 1 = i /\ i \in 1..(HeadLen + body)
      <4>1. N \in 1..Len(Input) /\ N = Len(M) /\ N = HeadLen + body
        BY <1>8, <1>18
      <4> HIDE DEF N
      <4> QED
        BY <1>3, <2>2, <4>1
    <3>2. Input[i] = <<n, i>> /\ M[i] = <<n, i>>
      BY <1>8, <1>13, <3>1
    <3> QED
      BY <2>3, <3>1, <3>2
  <2> QED
    BY <1>8, <1>18, <2>3, <2>4, SeqEqual
<1> QED
  BY <1>7, <1>14, <1>18, <1>19 DEF n, M, R, L

LEMMA ByteInit == CInit => ByteInv
<1> SUFFICES ASSUME CInit PROVE ByteInv
  OBVIOUS
<1>1. /\ script \in Scripts /\ sent = 0 /\ read = 0 /\ peer = "there"
      /\ inbuf = NewBuffer(InitialSize) /\ outbuf = NewBuffer(InitialSize)
      /\ wantClose = FALSE /\ room = Room /\ delivered = <<>> /\ parsed = <<>>
      /\ armed = "in" /\ pc = "idle" /\ threw = FALSE /\ timedOut = FALSE
  BY DEF CInit
<1>2. Prepend \in Nat /\ InitialSize \in Nat /\ Room \in Nat
  BY BufferAssumption, ConnectionAssumption
<1>3. Wellformed(NewBuffer(InitialSize)) /\ Readable(NewBuffer(InitialSize)) = <<>>
  <2> DEFINE b == NewBuffer(InitialSize)
  <2>1. /\ b = [store |-> b.store, r |-> b.r, w |-> b.w]
        /\ b.r = Prepend /\ b.w = Prepend
        /\ b.store = [i \in 1..(Prepend + InitialSize) |-> Blank]
    BY DEF NewBuffer
  <2>2. b.store \in Seq(Cells) /\ Len(b.store) = Prepend + InitialSize
    <3>1. b.store \in [1..(Prepend + InitialSize) -> Cells]
      BY <2>1 DEF Cells
    <3>2. Prepend + InitialSize \in Nat
      BY <1>2
    <3> HIDE DEF b
    <3> QED
      BY <3>1, <3>2
  <2> HIDE DEF b
  <2>3. Wellformed(b)
    <3>1. b \in [store : Seq(Cells), r : Nat, w : Nat]
      BY <1>2, <2>1, <2>2
    <3>2. Prepend <= b.r /\ b.r <= b.w /\ b.w <= Len(b.store)
      BY <1>2, <2>1, <2>2
    <3> QED
      BY <3>1, <3>2 DEF Wellformed
  <2>4. Readable(b) = <<>>
    BY <1>2, <2>1, SubSeqEmpty DEF Readable
  <2> QED
    BY <2>3, <2>4 DEF b
<1>4. Stream \in Seq(Byte) /\ Len(Stream) \in Nat
  BY <1>1, ScriptBytes, LenProperties
<1>5. CTypeOK
  <2>1. <<>> \in Seq(Byte) /\ <<>> \in Seq(DOMAIN script)
    BY EmptySeq
  <2>2. sent \in 0..Len(Stream) /\ read \in 0..sent /\ room \in 0..Room
    BY <1>1, <1>2, <1>4
  <2> QED
    BY <1>1, <1>3, <2>1, <2>2 DEF CTypeOK
<1>6. DoneInv
  BY <1>1 DEF DoneInv, ClosedWhenDone
<1>7. Len(parsed) = 0 /\ parsed = Numbers(Len(parsed))
  BY <1>1 DEF Numbers
<1>8. Joined(RequestsOf[script], parsed) = <<>> /\ Joined(AnswersOf[script], parsed) = <<>>
  <2>1. RequestsOf[script] \in Seq(Seq(Byte)) /\ AnswersOf[script] \in Seq(Seq(Byte))
    BY <1>1, ScriptBytes
  <2>2. Made(RequestsOf[script], 0) = <<>> /\ Made(AnswersOf[script], 0) = <<>>
    BY <2>1, MadeSteps
  <2> QED
    BY <1>7, <2>2 DEF Made
<1>9. <<>> \o <<>> = <<>>
  BY ConcatEmptySeq, EmptySeq
<1>10. BytesConserved
  <2>1. Input = <<>>
    BY <1>1, <1>3 DEF Input
  <2>2. SubSeq(Stream, 1, read) = <<>>
    BY <1>1, SubSeqEmpty
  <2> QED
    BY <1>7, <1>8, <1>9, <2>1, <2>2 DEF BytesConserved
<1>11. AnswersInOrder
  BY <1>1, <1>3, <1>8, <1>9 DEF AnswersInOrder
<1> QED
  BY <1>5, <1>6, <1>10, <1>11 DEF ByteInv

(* The steps that move no byte.                                            *)
LEMMA SameBytes ==
  ASSUME BytesConserved, AnswersInOrder,
         UNCHANGED <<script, read, inbuf, outbuf, delivered, parsed>>
  PROVE  BytesConserved' /\ AnswersInOrder' /\ Stream' = Stream
<1>1. Stream' = Stream /\ Input' = Input
  BY DEF Stream, Input
<1> QED
  BY <1>1 DEF BytesConserved, AnswersInOrder

(* The steps that move bytes, one by one.                                  *)
LEMMA ReadvBytes ==
  ASSUME ArmInv, ByteInv, Readv
  PROVE  ByteInv'
<1>1. /\ CTypeOK /\ DoneInv /\ BytesConserved /\ AnswersInOrder
      /\ pc = "read" /\ sent > read
      /\ UNCHANGED <<script, sent, peer, room, delivered, outbuf, wantClose, parsed,
                     armed, pc, threw, timedOut>>
  BY DEF ByteInv, Readv, accidents
<1>2. Stream' = Stream /\ Stream \in Seq(Byte) /\ Len(Stream) \in Nat
  BY <1>1, ScriptBytes, LenProperties DEF Stream, CTypeOK
<1>3. /\ sent \in 0..Len(Stream) /\ read \in 0..sent
      /\ Wellformed(inbuf) /\ Extra \in Nat \ {0}
  BY <1>1, ConnectionAssumption DEF CTypeOK
<1> DEFINE writable == WritableBytes(inbuf)
           space == IF writable < Extra THEN writable + Extra ELSE writable
           n == Least({sent - read, space})
           data == SubSeq(Stream, read + 1, read + n)
           fits == Least({n, writable})
           front == SubSeq(data, 1, fits)
           back == SubSeq(data, fits + 1, n)
           mid == WriteInPlace(inbuf, front)
<1>4. read' = read + n /\ inbuf' = AppendTo(mid, back)
  BY DEF Readv, accidents
<1>5. writable \in Nat
  BY <1>3, LenProperties DEF Wellformed, WritableBytes
<1> HIDE DEF writable
<1>6. space \in Nat \ {0}
  BY <1>3, <1>5
<1> HIDE DEF space
<1>7. n \in Nat \ {0} /\ read + n <= sent
  <2>1. sent - read \in Nat \ {0}
    BY <1>1, <1>2, <1>3
  <2>2. n = IF sent - read <= space THEN sent - read ELSE space
    BY <1>6, <2>1, LeastOfTwo
  <2> HIDE DEF n
  <2> QED
    BY <1>2, <1>3, <1>6, <2>1, <2>2
<1> HIDE DEF n
<1>8. fits \in 0..n /\ fits <= writable
  <2>1. fits = IF n <= writable THEN n ELSE writable
    BY <1>5, <1>7, LeastOfTwo
  <2> HIDE DEF fits
  <2> QED
    BY <1>5, <1>7, <2>1
<1> HIDE DEF fits
<1>9. data \in Seq(Byte) /\ Len(data) = n
  <2> DEFINE last == read + n
  <2>1. /\ read \in Nat /\ last \in Nat /\ read <= last /\ last <= Len(Stream)
        /\ last - read = n
    BY <1>2, <1>3, <1>7
  <2>2. Stream \in Seq(Byte)
    BY <1>2
  <2>3. data = SubSeq(Stream, read + 1, last)
    OBVIOUS
  <2> HIDE DEF data, last
  <2>4. /\ SubSeq(Stream, read + 1, last) \in Seq(Byte)
        /\ Len(SubSeq(Stream, read + 1, last)) = last - read
    BY ONLY <2>1, <2>2, Slice
  <2> QED
    BY <2>1, <2>3, <2>4
<1>10. SubSeq(Stream, 1, read) \o data = SubSeq(Stream, 1, read + n)
  <2>1. /\ 1 \in 1..(Len(Stream) + 1) /\ read \in (1 - 1)..Len(Stream)
        /\ read + n \in read..Len(Stream)
    BY <1>2, <1>3, <1>7
  <2> QED
    BY <1>2, <2>1, ConcatAdjacentSubSeq
<1> HIDE DEF data
<1>11. /\ front \in Seq(Byte) /\ Len(front) = fits /\ back \in Seq(Byte)
       /\ front \o back = data
  BY <1>8, <1>9, Cut
<1>12. front \in Seq(Cells) /\ back \in Seq(Cells)
  BY <1>11, SeqMonotonic DEF Cells
<1> HIDE DEF front, back
<1>13. Wellformed(mid) /\ Readable(mid) = Readable(inbuf) \o front
  <2>1. Len(front) <= WritableBytes(inbuf)
    BY <1>8, <1>11 DEF writable
  <2> QED
    BY <1>3, <1>12, <2>1, WriteInPlaceAppends
<1> HIDE DEF mid
<1>14. Wellformed(inbuf') /\ Readable(inbuf') = (Readable(inbuf) \o front) \o back
  BY <1>4, <1>12, <1>13, AppendAppends
<1>15. Input \in Seq(Byte) /\ Input' = Input \o data
  <2>1. Input \in Seq(Byte)
    BY <1>1, InputIs
  <2>2. front \in Seq(Byte) /\ back \in Seq(Byte) /\ data = front \o back
    BY <1>11
  <2>3. (Input \o front) \o back = Input \o data
    BY <2>1, <2>2, Regroup, SMTT(30)
  <2> QED
    BY <1>14, <2>1, <2>3 DEF Input
<1>16. BytesConserved'
  <2> DEFINE J == Joined(RequestsOf[script], parsed)
  <2>1. J \in Seq(Byte) /\ J \o Input = SubSeq(Stream, 1, read)
    BY <1>1, ParsedSoFar DEF CTypeOK, BytesConserved
  <2> HIDE DEF J
  <2>2. J \o (Input \o data) = (J \o Input) \o data
    <3>1. J \in Seq(Byte) /\ Input \in Seq(Byte)
      BY <1>15, <2>1
    <3>2. data \in Seq(Byte)
      BY <1>9
    <3> QED
      BY ONLY <3>1, <3>2, ConcatAssociative, SMTT(30)
  <2>3. J \o Input' = SubSeq(Stream', 1, read')
    BY <1>2, <1>4, <1>10, <1>15, <2>1, <2>2
  <2>4. parsed' = Numbers(Len(parsed')) /\ J' = J
    BY <1>1 DEF BytesConserved, J
  <2>5. Joined(RequestsOf[script], parsed)' = J
    BY <1>1 DEF J
  <2> QED
    BY <2>3, <2>4, <2>5 DEF BytesConserved
<1>17. AnswersInOrder'
  BY <1>1 DEF AnswersInOrder
<1>18. CTypeOK'
  BY <1>1, <1>2, <1>3, <1>4, <1>7, <1>14 DEF CTypeOK
<1>19. DoneInv'
  BY <1>1 DEF DoneInv, ClosedWhenDone
<1> QED
  BY <1>16, <1>17, <1>18, <1>19 DEF ByteInv

(* retrieve leaves what is behind the bytes it takes.                      *)
LEMMA RetrieveRest ==
  ASSUME NEW b, Wellformed(b), NEW n \in 0..Len(Readable(b))
  PROVE  /\ Wellformed(Retrieve(b, n))
         /\ Readable(Retrieve(b, n)) = SubSeq(Readable(b), n + 1, Len(Readable(b)))
<1> DEFINE x == Readable(b)
<1>1. x \in Seq(Cells) /\ Len(x) = ReadableBytes(b) /\ Len(x) \in Nat
  BY ReadableCells, LenProperties DEF ReadableBytes
<1>2. /\ Wellformed(Retrieve(b, n))
      /\ Readable(Retrieve(b, n)) =
           IF n < ReadableBytes(b) THEN SubSeq(x, n + 1, Len(x)) ELSE <<>>
  <2>1. n \in Nat
    BY <1>1
  <2> QED
    BY ONLY <2>1, Wellformed(b), RetrieveDropsFront
<1>3. ~(n < Len(x)) => SubSeq(x, n + 1, Len(x)) = <<>>
  BY <1>1, SubSeqEmpty
<1> QED
  BY <1>1, <1>2, <1>3

LEMMA AnswerBytes ==
  ASSUME ArmInv, ByteInv, Answer
  PROVE  ByteInv'
<1> DEFINE n == Len(parsed) + 1
           R == RequestsOf[script]
           A == AnswersOf[script]
           J == Joined(R, parsed)
           K == Joined(A, parsed)
<1>1. /\ CTypeOK /\ DoneInv /\ BytesConserved /\ AnswersInOrder /\ RunInv
      /\ pc = "parse" /\ RequestComplete /\ BodyLen <= MaxString
      /\ UNCHANGED <<script, sent, peer, read, room, delivered, armed, pc, threw, timedOut>>
  BY DEF ByteInv, ArmInv, Answer, kernel, accidents
<1>2. /\ n \in 1..Len(script) /\ First = n /\ NeededLen \in 1..Len(Input)
      /\ SubSeq(Input, 1, NeededLen) = R[n]
  BY <1>1, NextRequest
<1>3. /\ parsed' = Append(parsed, n)
      /\ inbuf' = Retrieve(inbuf, NeededLen)
      /\ wantClose' = (wantClose \/ ~script[n].keep)
      /\ outbuf' = AppendTo(AppendTo(outbuf, HeadBytes(n)), BodyBytes(n))
  BY <1>2 DEF Answer
<1>4. /\ R \in Seq(Seq(Byte)) /\ A \in Seq(Seq(Byte))
      /\ Len(script) \in Nat /\ DOMAIN script = 1..Len(script)
      /\ Len(R) = Len(script) /\ Len(A) = Len(script)
      /\ A[n] = HeadBytes(n) \o BodyBytes(n)
      /\ HeadBytes(n) \in Seq(Byte) /\ BodyBytes(n) \in Seq(Byte)
  BY <1>1, <1>2, ScriptBytes DEF CTypeOK
<1>5. /\ parsed \in Seq(1..Len(script)) /\ parsed = Numbers(Len(parsed))
      /\ Len(parsed) \in Nat
  BY <1>1, <1>4, LenProperties DEF CTypeOK, BytesConserved
<1>6. /\ parsed' \in Seq(1..Len(script)) /\ Len(parsed') = n
      /\ \A i \in 1..Len(parsed) : parsed'[i] = parsed[i]
      /\ parsed'[n] = n
  BY <1>2, <1>3, <1>5, AppendProperties
<1>7. parsed' = Numbers(Len(parsed'))
  <2>1. Numbers(n) \in Seq(1..Len(script)) /\ Len(Numbers(n)) = n
    <3>1. n \in Nat /\ \A i \in 1..n : i \in 1..Len(script)
      <4>1. n \in 1..Len(script) /\ Len(script) \in Nat
        BY <1>2, <1>4
      <4> QED
        BY ONLY <4>1
    <3>2. Numbers(n) = [i \in 1..n |-> i]
      BY DEF Numbers
    <3> HIDE DEF n
    <3>3. Numbers(n) \in [1..n -> 1..Len(script)]
      BY <3>1, <3>2
    <3> QED
      BY <3>1, <3>3
  <2>2. ASSUME NEW i \in 1..n PROVE parsed'[i] = Numbers(n)[i]
    <3>1. Numbers(n)[i] = i
      BY DEF Numbers
    <3>2. CASE i = n
      BY <1>6, <3>1, <3>2
    <3>3. CASE i # n
      <4>1. i \in 1..Len(parsed)
        BY <1>5, <3>3
      <4>2. Numbers(Len(parsed))[i] = i
        BY <4>1 DEF Numbers
      <4> QED
        BY <1>5, <1>6, <3>1, <4>1, <4>2
    <3> QED
      BY <3>2, <3>3
  <2> HIDE DEF n
  <2>3. parsed' = Numbers(n)
    BY <1>6, <2>1, <2>2, SeqEqual
  <2> QED
    BY <1>6, <2>3
<1>8. /\ J \in Seq(Byte) /\ K \in Seq(Byte)
      /\ J = Made(R, Len(parsed)) /\ K = Made(A, Len(parsed))
  BY <1>1, ParsedSoFar DEF CTypeOK, BytesConserved
<1>9. /\ Joined(R, parsed') = J \o R[n] /\ Joined(A, parsed') = K \o A[n]
      /\ R[n] \in Seq(Byte) /\ A[n] \in Seq(Byte)
  <2>1. Joined(R, parsed') = Made(R, n) /\ Joined(A, parsed') = Made(A, n)
    BY <1>6, <1>7 DEF Made
  <2>2. Len(parsed) \in 0..(Len(R) - 1) /\ Len(parsed) \in 0..(Len(A) - 1)
    BY <1>2, <1>4, <1>5
  <2>3. Made(R, n) = Made(R, Len(parsed)) \o R[n]
    BY <1>4, <2>2, MadeSteps
  <2>4. Made(A, n) = Made(A, Len(parsed)) \o A[n]
    BY <1>4, <2>2, MadeSteps
  <2>5. R[n] \in Seq(Byte) /\ A[n] \in Seq(Byte)
    BY <1>2, <1>4, ElementOfSeq
  <2> QED
    BY <1>8, <2>1, <2>3, <2>4, <2>5
<1>10. Input \in Seq(Byte) /\ Len(Input) \in Nat
  BY <1>1, InputIs
<1>11. /\ Wellformed(inbuf')
       /\ Input' = SubSeq(Input, NeededLen + 1, Len(Input))
  <2>1. Wellformed(inbuf) /\ NeededLen \in 0..Len(Readable(inbuf))
    BY <1>1, <1>2, <1>10 DEF CTypeOK, Input
  <2>2. /\ Wellformed(Retrieve(inbuf, NeededLen))
        /\ Readable(Retrieve(inbuf, NeededLen)) =
             SubSeq(Readable(inbuf), NeededLen + 1, Len(Readable(inbuf)))
    BY <2>1, RetrieveRest
  <2> QED
    BY <1>3, <2>2 DEF Input
<1>12. Input' \in Seq(Byte) /\ Input = R[n] \o Input'
  <2>1. NeededLen \in 0..Len(Input)
    BY <1>2, <1>10
  <2>2. /\ SubSeq(Input, NeededLen + 1, Len(Input)) \in Seq(Byte)
        /\ SubSeq(Input, 1, NeededLen) \o SubSeq(Input, NeededLen + 1, Len(Input)) = Input
    BY <1>10, <2>1, Cut
  <2> QED
    BY <1>2, <1>11, <2>2
<1>13. Stream' = Stream
  BY <1>1 DEF Stream
<1>14. BytesConserved'
  <2> DEFINE M == R[n]
  <2>1. J \in Seq(Byte) /\ M \in Seq(Byte) /\ Input' \in Seq(Byte)
    BY <1>8, <1>9, <1>12
  <2> HIDE DEF J, M
  <2>2. (J \o M) \o Input' = J \o (M \o Input')
    BY ONLY <2>1, ConcatAssociative, SMTT(30)
  <2>3. J \o Input = SubSeq(Stream, 1, read)
    BY <1>1 DEF BytesConserved, J
  <2>4. Joined(R, parsed') \o Input' = SubSeq(Stream', 1, read')
    BY <1>1, <1>9, <1>12, <1>13, <2>2, <2>3 DEF M
  <2>5. Joined(RequestsOf[script], parsed)' = Joined(R, parsed')
    BY <1>1 DEF Joined
  <2> QED
    BY <1>7, <2>4, <2>5 DEF BytesConserved
<1>15. /\ Wellformed(outbuf')
       /\ Readable(outbuf') = (Readable(outbuf) \o HeadBytes(n)) \o BodyBytes(n)
  <2> DEFINE b == AppendTo(outbuf, HeadBytes(n))
  <2>1. HeadBytes(n) \in Seq(Cells) /\ BodyBytes(n) \in Seq(Cells)
    BY <1>4, SeqMonotonic DEF Cells
  <2>2. Wellformed(b) /\ Readable(b) = Readable(outbuf) \o HeadBytes(n)
    BY <1>1, <2>1, AppendAppends DEF CTypeOK
  <2>3. outbuf' = AppendTo(b, BodyBytes(n))
    BY <1>3
  <2> HIDE DEF b
  <2>4. /\ Wellformed(AppendTo(b, BodyBytes(n)))
        /\ Readable(AppendTo(b, BodyBytes(n))) = Readable(b) \o BodyBytes(n)
    BY <2>1, <2>2, AppendAppends
  <2> QED
    BY <2>2, <2>3, <2>4
<1>16. AnswersInOrder'
  <2> DEFINE O == Readable(outbuf)
             H == HeadBytes(n)
             B == BodyBytes(n)
             a == A[n]
  <2>1. /\ delivered \in Seq(Byte) /\ O \in Seq(Cells)
        /\ delivered \o O = K
    BY <1>1, ReadableCells DEF CTypeOK, AnswersInOrder
  <2>2. /\ K \in Seq(Byte) /\ H \in Seq(Byte) /\ B \in Seq(Byte) /\ a = H \o B
    BY <1>4, <1>8
  <2>3. /\ Readable(outbuf') = (O \o H) \o B
        /\ Joined(A, parsed') = K \o a
    BY <1>9, <1>15
  <2> HIDE DEF O, H, B, K, a
  <2>4. O \in Seq(Byte)
    <3>1. Byte \subseteq Cells /\ delivered \o O \in Seq(Byte)
      BY <2>1, <2>2 DEF Cells
    <3> QED
      BY <2>1, <3>1, TailOfConcat
  <2>5. (O \o H) \o B = O \o (H \o B) /\ H \o B \in Seq(Byte)
    <3>1. O \in Seq(Byte) /\ H \in Seq(Byte) /\ B \in Seq(Byte)
      BY <2>2, <2>4
    <3> QED
      BY ONLY <3>1, ConcatAssociative, ConcatProperties, SMTT(30)
  <2>6. delivered \o (O \o (H \o B)) = (delivered \o O) \o (H \o B)
    <3> DEFINE y == H \o B
    <3>1. delivered \in Seq(Byte) /\ O \in Seq(Byte) /\ y \in Seq(Byte)
      BY <2>1, <2>4, <2>5
    <3> HIDE DEF y
    <3>2. delivered \o (O \o y) = (delivered \o O) \o y
      BY ONLY <3>1, ConcatAssociative, SMTT(30)
    <3> QED
      BY <3>2 DEF y
  <2>7. delivered \o Readable(outbuf') = Joined(A, parsed')
    BY <2>1, <2>2, <2>3, <2>5, <2>6
  <2>8. /\ delivered' = delivered
        /\ Joined(AnswersOf[script], parsed)' = Joined(A, parsed')
        /\ Readable(outbuf)' = Readable(outbuf')
    BY <1>1 DEF Joined, Readable
  <2> QED
    BY <2>7, <2>8 DEF AnswersInOrder
<1>17. CTypeOK'
  <2>1. wantClose' \in BOOLEAN
    BY <1>3
  <2>2. parsed' \in Seq(DOMAIN script')
    BY <1>1, <1>4, <1>6
  <2> QED
    BY <1>1, <1>11, <1>13, <1>15, <2>1, <2>2 DEF CTypeOK
<1>18. DoneInv'
  <2>1. armed' # "closed" \/ timedOut'
    BY <1>1 DEF RunInv, Spent
  <2>2. ASSUME wantClose' PROVE \E i \in DOMAIN parsed' : ~script'[parsed'[i]].keep
    <3>1. DOMAIN parsed' = 1..n /\ DOMAIN parsed = 1..Len(parsed)
      BY <1>5, <1>6, LenProperties
    <3>2. CASE wantClose
      <4>1. PICK i \in DOMAIN parsed : ~script[parsed[i]].keep
        BY <1>1, <3>2 DEF DoneInv
      <4>2. i \in 1..Len(parsed) /\ i \in 1..n
        BY <1>5, <3>1, <4>1
      <4> QED
        BY <1>1, <1>6, <3>1, <4>1, <4>2
    <3>3. CASE ~script[n].keep
      <4>1. n \in 1..n
        BY <1>5
      <4> QED
        BY <1>1, <1>6, <3>1, <3>3, <4>1
    <3> QED
      BY <1>3, <2>2, <3>2, <3>3
  <2> QED
    BY <2>1, <2>2 DEF DoneInv, ClosedWhenDone
<1> QED
  BY <1>14, <1>16, <1>17, <1>18 DEF ByteInv

LEMMA SendBytes ==
  ASSUME ArmInv, ByteInv, Send
  PROVE  ByteInv'
<1> DEFINE O == Readable(outbuf)
           n == Least({room, ReadableBytes(outbuf)})
           taken == SubSeq(O, 1, n)
           left == SubSeq(O, n + 1, Len(O))
           K == Joined(AnswersOf[script], parsed)
<1>1. /\ CTypeOK /\ DoneInv /\ BytesConserved /\ AnswersInOrder /\ RunInv
      /\ pc = "write" /\ ReadableBytes(outbuf) > 0 /\ room > 0
      /\ delivered' = delivered \o taken /\ room' = room - n
      /\ outbuf' = Retrieve(outbuf, n)
      /\ UNCHANGED <<script, sent, peer, read, inbuf, wantClose, parsed, armed, pc, threw, timedOut>>
  BY DEF ByteInv, ArmInv, Send, accidents, Broken
<1>2. /\ room \in 0..Room /\ Room \in Nat /\ Wellformed(outbuf)
      /\ delivered \in Seq(Byte)
  BY <1>1, ConnectionAssumption DEF CTypeOK
<1>3. O \in Seq(Cells) /\ Len(O) = ReadableBytes(outbuf) /\ Len(O) \in Nat
  BY <1>2, ReadableCells, LenProperties DEF ReadableBytes
<1>4. n \in 0..Len(O) /\ n \in 0..room
  <2>1. n = IF room <= Len(O) THEN room ELSE Len(O)
    BY <1>2, <1>3, LeastOfTwo
  <2> HIDE DEF n
  <2> QED
    BY <1>2, <1>3, <2>1
<1> HIDE DEF n
<1>5. K \in Seq(Byte) /\ delivered \o O = K
  BY <1>1, ParsedSoFar DEF CTypeOK, BytesConserved, AnswersInOrder
<1> HIDE DEF O, K
<1>6. O \in Seq(Byte)
  <2>1. Byte \subseteq Cells /\ delivered \o O \in Seq(Byte)
    BY <1>5 DEF Cells
  <2> QED
    BY <1>2, <1>3, <2>1, TailOfConcat
<1>7. taken \in Seq(Byte) /\ left \in Seq(Byte) /\ O = taken \o left
  BY <1>4, <1>6, Cut
<1>8. Wellformed(outbuf') /\ Readable(outbuf') = left
  BY <1>1, <1>2, <1>4, RetrieveRest DEF O
<1> HIDE DEF taken, left
<1>9. AnswersInOrder'
  <2>1. delivered \in Seq(Byte) /\ taken \in Seq(Byte) /\ left \in Seq(Byte)
    BY <1>2, <1>7
  <2>2. (delivered \o taken) \o left = delivered \o (taken \o left)
    BY ONLY <2>1, ConcatAssociative, SMTT(30)
  <2>3. delivered' \o Readable(outbuf') = K
    BY <1>1, <1>5, <1>7, <1>8, <2>2
  <2>4. Joined(AnswersOf[script], parsed)' = K /\ Readable(outbuf)' = Readable(outbuf')
    BY <1>1 DEF K, Joined, Readable
  <2> QED
    BY <2>3, <2>4 DEF AnswersInOrder
<1>10. BytesConserved'
  <2>1. Stream' = Stream /\ Input' = Input
    BY <1>1 DEF Stream, Input
  <2> QED
    BY <1>1, <2>1 DEF BytesConserved
<1>11. CTypeOK'
  <2>1. delivered' \in Seq(Byte)
    BY <1>1, <1>2, <1>7, ConcatProperties
  <2>2. room' \in 0..Room
    BY <1>1, <1>2, <1>4
  <2>3. Stream' = Stream
    BY <1>1 DEF Stream
  <2> QED
    BY <1>1, <1>8, <2>1, <2>2, <2>3 DEF CTypeOK
<1>12. DoneInv'
  <2>1. armed' # "closed" \/ timedOut'
    BY <1>1 DEF RunInv, Spent
  <2> QED
    BY <1>1, <2>1 DEF DoneInv, ClosedWhenDone
<1> QED
  BY <1>9, <1>10, <1>11, <1>12 DEF ByteInv

(* Only a close after the last answer, or a timer's before, ends a         *)
(* connection whose client stays.                                          *)
LEMMA FinishDone ==
  ASSUME ArmInv, ByteInv, Finish
  PROVE  DoneInv'
<1>1. /\ DoneInv /\ AnswersInOrder /\ CTypeOK /\ BytesConserved /\ RunInv
      /\ pc = "write"
      /\ UNCHANGED <<script, peer, outbuf, wantClose, delivered, parsed, timedOut>>
  BY DEF ByteInv, ArmInv, Finish, kernel, buffers, accidents
<1>2. CASE wantClose /\ ReadableBytes(outbuf) = 0
  <2>1. Readable(outbuf) = <<>>
    <3>1. Readable(outbuf) \in Seq(Cells) /\ Len(Readable(outbuf)) = 0
      BY <1>1, <1>2, ReadableCells DEF CTypeOK, ReadableBytes
    <3> QED
      BY <3>1, EmptySeq
  <2>2. delivered = Joined(AnswersOf[script], parsed)
    <3>1. delivered \in Seq(Byte)
      BY <1>1 DEF CTypeOK
    <3>2. delivered \o <<>> = delivered
      BY <3>1, ConcatEmptySeq
    <3> QED
      BY <1>1, <2>1, <3>2 DEF AnswersInOrder
  <2> QED
    BY <1>1, <1>2, <2>2 DEF DoneInv, ClosedWhenDone
<1>3. CASE ~(wantClose /\ ReadableBytes(outbuf) = 0)
  <2>1. armed' # "closed" \/ timedOut'
    BY <1>1, <1>3 DEF Finish, RearmFor, RunInv, Spent
  <2> QED
    BY <1>1, <2>1 DEF DoneInv, ClosedWhenDone
<1> QED
  BY <1>2, <1>3

LEMMA ByteStep ==
  ASSUME ArmInv, ByteInv, [CNext]_cvars
  PROVE  ByteInv'
<1>1. CTypeOK /\ DoneInv /\ BytesConserved /\ AnswersInOrder /\ RunInv
  BY DEF ByteInv, ArmInv
<1>2. Stream \in Seq(Byte) /\ Len(Stream) \in Nat
  BY <1>1, ScriptBytes, LenProperties DEF CTypeOK
<1>3. ASSUME UNCHANGED <<script, read, inbuf, outbuf, delivered, parsed>>
      PROVE  BytesConserved' /\ AnswersInOrder' /\ Stream' = Stream
  BY <1>1, <1>3, SameBytes
<1>4. CASE Event
  <2>1. /\ UNCHANGED <<script, sent, peer, read, room, delivered, inbuf, outbuf,
                       wantClose, parsed, threw, timedOut>>
        /\ armed' = "fired" \/ (armed' = "closed" /\ peer = "reset")
        /\ pc' \in {"idle", "read", "write"}
    BY <1>4 DEF Event, Closing, kernel, buffers, accidents
  <2>2. CTypeOK'
    BY <1>1, <1>3, <2>1 DEF CTypeOK
  <2>3. DoneInv'
    BY <1>1, <2>1 DEF DoneInv, ClosedWhenDone
  <2> QED
    BY <1>3, <2>1, <2>2, <2>3 DEF ByteInv
<1>5. CASE ReadEnd
  <2>1. /\ UNCHANGED <<script, sent, peer, read, room, delivered, inbuf, outbuf,
                       wantClose, parsed, threw, timedOut>>
        /\ \/ armed' = armed /\ pc' = "parse"
           \/ armed' = "closed" /\ pc' = "idle" /\ (peer # "there" \/ timedOut)
    BY <1>1, <1>5 DEF ReadEnd, Closing, Broken, RunInv, Spent, kernel, buffers, accidents
  <2>2. CTypeOK'
    BY <1>1, <1>3, <2>1 DEF CTypeOK
  <2>3. DoneInv'
    BY <1>1, <2>1 DEF DoneInv, ClosedWhenDone
  <2> QED
    BY <1>3, <2>1, <2>2, <2>3 DEF ByteInv
<1>6. CASE ParseThrows \/ ParseEnd
  <2>1. /\ UNCHANGED <<script, sent, peer, read, room, delivered, inbuf, outbuf,
                       wantClose, parsed, armed, timedOut>>
        /\ threw' \in BOOLEAN /\ pc' \in {"idle", "write"}
    BY <1>1, <1>6 DEF ParseThrows, ParseEnd, kernel, buffers, accidents, CTypeOK
  <2>2. CTypeOK'
    BY <1>1, <1>3, <2>1 DEF CTypeOK
  <2>3. DoneInv'
    BY <1>1, <2>1 DEF DoneInv, ClosedWhenDone
  <2> QED
    BY <1>3, <2>1, <2>2, <2>3 DEF ByteInv
<1>7. CASE SendBroken
  <2>1. /\ UNCHANGED <<script, sent, peer, read, room, delivered, inbuf, outbuf,
                       wantClose, parsed, threw, timedOut>>
        /\ peer = "reset" \/ timedOut
        /\ armed' \in {armed, "closed"} /\ pc' \in {"idle", "killed"}
    BY <1>1, <1>7 DEF SendBroken, Closing, Broken, RunInv, Spent, kernel, buffers, accidents
  <2>2. CTypeOK'
    BY <1>1, <1>3, <2>1 DEF CTypeOK
  <2>3. DoneInv'
    BY <1>1, <2>1 DEF DoneInv, ClosedWhenDone
  <2> QED
    BY <1>3, <2>1, <2>2, <2>3 DEF ByteInv
<1>8. CASE Finish
  <2>1. /\ UNCHANGED <<script, sent, peer, read, room, delivered, inbuf, outbuf,
                       wantClose, parsed, threw, timedOut>>
        /\ armed' \in {"in", "out", "closed"} /\ pc' = "idle"
    BY <1>8 DEF Finish, Closing, RearmFor, kernel, buffers, accidents
  <2>2. CTypeOK'
    BY <1>1, <1>3, <2>1 DEF CTypeOK
  <2>3. DoneInv'
    BY <1>8, FinishDone
  <2> QED
    BY <1>3, <2>1, <2>2, <2>3 DEF ByteInv
<1>9. CASE ClientSend
  <2>1. /\ UNCHANGED <<script, peer, read, room, delivered, inbuf, outbuf,
                       wantClose, parsed, armed, pc, threw, timedOut>>
        /\ \E n \in 1..Piece : sent + n <= Len(Stream) /\ sent' = sent + n
    BY <1>9 DEF ClientSend, buffers, accidents
  <2>2. CTypeOK'
    <3>1. sent' \in 0..Len(Stream) /\ read \in 0..sent'
      BY <1>1, <1>2, <2>1, ConnectionAssumption DEF CTypeOK
    <3> QED
      BY <1>1, <1>3, <2>1, <3>1 DEF CTypeOK
  <2>3. DoneInv'
    BY <1>1, <2>1 DEF DoneInv, ClosedWhenDone
  <2> QED
    BY <1>3, <2>1, <2>2, <2>3 DEF ByteInv
<1>10. CASE ClientRead
  <2>1. /\ UNCHANGED <<script, sent, peer, read, delivered, inbuf, outbuf,
                       wantClose, parsed, armed, pc, threw, timedOut>>
        /\ room' = Room
    BY <1>10 DEF ClientRead, buffers, accidents
  <2>2. CTypeOK'
    <3>1. room' \in 0..Room
      BY <2>1, ConnectionAssumption
    <3> QED
      BY <1>1, <1>3, <2>1, <3>1 DEF CTypeOK
  <2>3. DoneInv'
    BY <1>1, <2>1 DEF DoneInv, ClosedWhenDone
  <2> QED
    BY <1>3, <2>1, <2>2, <2>3 DEF ByteInv
<1>11. CASE \E how \in {"fin", "reset"} : ClientLeave(how)
  <2>1. /\ UNCHANGED <<script, sent, read, room, delivered, inbuf, outbuf,
                       wantClose, parsed, armed, pc, threw, timedOut>>
        /\ peer' \in {"fin", "reset"}
    BY <1>11 DEF ClientLeave, buffers, accidents
  <2>2. CTypeOK'
    BY <1>1, <1>3, <2>1 DEF CTypeOK
  <2>3. DoneInv'
    BY <1>1, <2>1 DEF DoneInv, ClosedWhenDone
  <2> QED
    BY <1>3, <2>1, <2>2, <2>3 DEF ByteInv
<1>12. CASE UNCHANGED cvars
  <2>1. UNCHANGED <<script, sent, peer, read, room, delivered, inbuf, outbuf,
                    wantClose, parsed, armed, pc, threw, timedOut>>
    BY <1>12 DEF cvars
  <2>2. CTypeOK'
    BY <1>1, <1>3, <2>1 DEF CTypeOK
  <2>3. DoneInv'
    BY <1>1, <2>1 DEF DoneInv, ClosedWhenDone
  <2> QED
    BY <1>3, <2>1, <2>2, <2>3 DEF ByteInv
<1>13. CASE Timeout
  <2>1. /\ UNCHANGED <<script, sent, peer, read, room, delivered, inbuf, outbuf,
                       wantClose, parsed, pc, threw>>
        /\ armed' = "closed" /\ timedOut' = TRUE
    BY <1>13 DEF Timeout, kernel, buffers
  <2>2. CTypeOK'
    BY <1>1, <1>3, <2>1 DEF CTypeOK
  <2>3. DoneInv'
    BY <1>1, <2>1 DEF DoneInv, ClosedWhenDone
  <2> QED
    BY <1>3, <2>1, <2>2, <2>3 DEF ByteInv
<1> QED
  BY <1>4, <1>5, <1>6, <1>7, <1>8, <1>9, <1>10, <1>11, <1>12, <1>13,
     ReadvBytes, AnswerBytes, SendBytes DEF CNext, Server

LEMMA Kept == CSpec => [](ArmInv /\ ByteInv)
<1>1. CInit => ArmInv /\ ByteInv
  BY ArmInit, ByteInit
<1>2. ArmInv /\ ByteInv /\ [CNext]_cvars => (ArmInv /\ ByteInv)'
  BY ArmStep, ByteStep
<1> QED
  BY <1>1, <1>2, PTL DEF CSpec

(* The variables keep to their values and both buffers to their class      *)
(* invariant: no path of handle_io writes outside a vector.                *)
THEOREM ConnectionTypes == CSpec => []CTypeOK
<1>1. ByteInv => CTypeOK
  BY DEF ByteInv
<1> QED
  BY <1>1, Kept, PTL

(* Cut as the client's bytes may be, the parser takes its requests apart   *)
(* where they end, and inbuf holds what it has not parsed.                 *)
THEOREM RequestsTakenApart == CSpec => []BytesConserved
<1>1. ByteInv => BytesConserved
  BY DEF ByteInv
<1> QED
  BY <1>1, Kept, PTL

(* What was sent and what outbuf holds are the answers to the parsed       *)
(* requests, whole, once and in order.                                     *)
THEOREM Answers == CSpec => []AnswersInOrder
<1>1. ByteInv => AnswersInOrder
  BY DEF ByteInv
<1> QED
  BY <1>1, Kept, PTL

(* A connection whose client stays and that no timer has closed is closed  *)
(* after a request that was its last, and after all answers.               *)
THEOREM Closed == CSpec => []ClosedWhenDone
<1>1. ByteInv => ClosedWhenDone
  BY DEF ByteInv, DoneInv
<1> QED
  BY <1>1, Kept, PTL
=============================================================================

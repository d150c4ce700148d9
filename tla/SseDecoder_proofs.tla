------------------------- MODULE SseDecoder_proofs --------------------------
(***************************************************************************)
(* The decoder implements SseStream, for every set of streams: how the     *)
(* network splits a stream into reads does not show in its items.          *)
(*                                                                         *)
(* The invariant is that the buffer holds the bytes read and not yet       *)
(* drained.  The argument is that the first separator in the buffer is the *)
(* first in the rest of the stream: an earlier one would have to reach     *)
(* past the buffer, and so overlap the one that was found, which their     *)
(* bytes exclude.                                                          *)
(***************************************************************************)
EXTENDS SseDecoder, SequenceLemmas

BufferInv == buf = SubSeq(wire, cut + 1, fed)

IInv == TypeOK /\ BufferInv

\* A slice of a stream, byte by byte.
LEMMA Slice ==
    ASSUME NEW w \in Seq(Byte), NEW m \in 1..(Len(w) + 1), NEW n \in (m - 1)..Len(w)
    PROVE  /\ SubSeq(w, m, n) \in Seq(Byte)
           /\ Len(SubSeq(w, m, n)) = n - m + 1
           /\ \A i \in 1..(n - m + 1) : SubSeq(w, m, n)[i] = w[m + i - 1]
<1>0. Len(w) \in Nat /\ \A i \in 1..Len(w) : w[i] \in Byte
    BY ElementOfSeq, LenProperties
<1>1. \A i \in m..n : w[i] \in Byte
    BY <1>0
<1>2. QED
    BY <1>0, <1>1, SubSeqProperties

\* A slice of a slice is a slice.
LEMMA SliceOfSlice ==
    ASSUME NEW w \in Seq(Byte),
           NEW m \in 1..(Len(w) + 1), NEW n \in (m - 1)..Len(w),
           NEW i \in 1..(n - m + 2), NEW j \in (i - 1)..(n - m + 1)
    PROVE  SubSeq(SubSeq(w, m, n), i, j) = SubSeq(w, m + i - 1, m + j - 1)
<1>0. Len(w) \in Nat
    BY LenProperties
<1> DEFINE s == SubSeq(w, m, n)
<1>1. s \in Seq(Byte) /\ Len(s) = n - m + 1 /\ \A k \in 1..(n - m + 1) : s[k] = w[m + k - 1]
    BY <1>0, Slice
<1>2. /\ SubSeq(s, i, j) \in Seq(Byte) /\ Len(SubSeq(s, i, j)) = j - i + 1
      /\ \A k \in 1..(j - i + 1) : SubSeq(s, i, j)[k] = s[i + k - 1]
    <2>1. i \in 1..(Len(s) + 1) /\ j \in (i - 1)..Len(s)
        BY <1>0, <1>1
    <2> HIDE DEF s
    <2>2. QED
        BY <2>1, <1>1, Slice
<1> DEFINE t == SubSeq(w, m + i - 1, m + j - 1)
<1>3. /\ t \in Seq(Byte) /\ Len(t) = j - i + 1
      /\ \A k \in 1..(j - i + 1) : t[k] = w[m + i - 1 + k - 1]
    <2>1. m + i - 1 \in 1..(Len(w) + 1) /\ m + j - 1 \in (m + i - 1 - 1)..Len(w)
        BY <1>0
    <2>2. (m + j - 1) - (m + i - 1) + 1 = j - i + 1
        BY <1>0
    <2>3. QED
        BY <2>1, <2>2, Slice
<1> HIDE DEF s, t
<1>4. \A k \in 1..(j - i + 1) : SubSeq(s, i, j)[k] = t[k]
    <2> SUFFICES ASSUME NEW k \in 1..(j - i + 1) PROVE SubSeq(s, i, j)[k] = t[k]
        OBVIOUS
    <2>1. i + k - 1 \in 1..(n - m + 1) /\ m + (i + k - 1) - 1 = m + i - 1 + k - 1
        BY <1>0
    <2>2. QED
        BY <2>1, <1>1, <1>2, <1>3
<1>5. QED
    BY <1>2, <1>3, <1>4, SeqEqual DEF s, t

\* What has been read of a stream, and then some more.
LEMMA Reading ==
    ASSUME IInv, NEW n \in 1..(Len(wire) - fed)
    PROVE  Extended(n) = SubSeq(wire, cut + 1, fed + n)
<1>1. wire \in Seq(Byte) /\ Len(wire) \in Nat /\ fed \in 0..Len(wire) /\ cut \in 0..fed
    BY LenProperties DEF IInv, TypeOK
<1>2. cut + 1 \in 1..(Len(wire) + 1) /\ fed \in (cut + 1 - 1)..Len(wire) /\ fed + n \in fed..Len(wire)
    BY <1>1
<1>3. SubSeq(wire, cut + 1, fed) \o SubSeq(wire, fed + 1, fed + n) = SubSeq(wire, cut + 1, fed + n)
    BY <1>1, <1>2, ConcatAdjacentSubSeq
<1>4. QED
    BY <1>3 DEF Extended, IInv, BufferInv

\* The bytes of the buffer are those of the stream.
LEMMA InBuffer ==
    ASSUME IInv
    PROVE  /\ wire \in Seq(Byte) /\ Len(wire) \in Nat /\ fed \in Nat /\ cut \in Nat
           /\ cut <= fed /\ fed <= Len(wire)
           /\ buf \in Seq(Byte) /\ Len(buf) = fed - cut
           /\ \A i \in 1..(fed - cut) : buf[i] = wire[cut + i]
<1>1. /\ wire \in Seq(Byte) /\ Len(wire) \in Nat
      /\ fed \in 0..Len(wire) /\ cut \in 0..fed /\ buf \in Seq(Byte)
    BY LenProperties DEF IInv, TypeOK
<1>2. cut + 1 \in 1..(Len(wire) + 1) /\ fed \in (cut + 1 - 1)..Len(wire)
    BY <1>1
<1>3. /\ Len(buf) = fed - (cut + 1) + 1
      /\ \A i \in 1..(fed - (cut + 1) + 1) : buf[i] = wire[cut + 1 + i - 1]
    BY <1>1, <1>2, Slice DEF IInv, BufferInv
<1>4. QED
    BY <1>1, <1>3

\* A separator, spelled out.
LEMMA Separators ==
    ASSUME NEW p \in Nat \ {0}, wire \in Seq(Byte), Len(wire) \in Nat
    PROVE  /\ Stream!At(p, <<LF, LF>>) <=>
                p + 1 <= Len(wire) /\ wire[p] = LF /\ wire[p + 1] = LF
           /\ Stream!At(p, <<CR, LF, CR, LF>>) <=>
                /\ p + 3 <= Len(wire) /\ wire[p] = CR /\ wire[p + 1] = LF
                /\ wire[p + 2] = CR /\ wire[p + 3] = LF
<1>1. Len(<<LF, LF>>) = 2 /\ <<LF, LF>>[1] = LF /\ <<LF, LF>>[2] = LF
    OBVIOUS
<1>2. /\ Len(<<CR, LF, CR, LF>>) = 4
      /\ <<CR, LF, CR, LF>>[1] = CR /\ <<CR, LF, CR, LF>>[2] = LF
      /\ <<CR, LF, CR, LF>>[3] = CR /\ <<CR, LF, CR, LF>>[4] = LF
    OBVIOUS
<1>3. 1..2 = {1, 2} /\ 1..4 = {1, 2, 3, 4}
    OBVIOUS
<1>4. p + 1 - 1 = p /\ p + 2 - 1 = p + 1 /\ p + 3 - 1 = p + 2 /\ p + 4 - 1 = p + 3
    OBVIOUS
<1>5. Stream!At(p, <<LF, LF>>) <=>
        p + 1 <= Len(wire) /\ wire[p] = LF /\ wire[p + 1] = LF
    BY <1>1, <1>3, <1>4 DEF Stream!At
<1>6. Stream!At(p, <<CR, LF, CR, LF>>) <=>
        /\ p + 3 <= Len(wire) /\ wire[p] = CR /\ wire[p + 1] = LF
        /\ wire[p + 2] = CR /\ wire[p + 3] = LF
    BY <1>2, <1>3, <1>4 DEF Stream!At
<1>7. QED
    BY <1>5, <1>6

\* A separator in the buffer is one of the stream, of the same width.
LEMMA FoundIsThere ==
    ASSUME IInv, NEW i \in 1..Len(buf), SeparatorLen(buf, i) > 0
    PROVE  /\ cut + i \in (cut + 1)..Len(wire)
           /\ cut + i + SeparatorLen(buf, i) - 1 <= fed
           /\ \/ Stream!At(cut + i, <<LF, LF>>) /\ SeparatorLen(buf, i) = 2
              \/ Stream!At(cut + i, <<CR, LF, CR, LF>>) /\ SeparatorLen(buf, i) = 4
<1>0. /\ wire \in Seq(Byte) /\ Len(wire) \in Nat /\ fed \in Nat /\ cut \in Nat
      /\ cut <= fed /\ fed <= Len(wire) /\ Len(buf) = fed - cut
      /\ \A j \in 1..(fed - cut) : buf[j] = wire[cut + j]
    BY InBuffer
<1>1. i \in Nat \ {0} /\ cut + i \in Nat \ {0} /\ i <= fed - cut
    BY <1>0
<1>2. CASE i + 1 <= Len(buf) /\ buf[i] = LF /\ buf[i + 1] = LF
    <2>1. wire[cut + i] = LF /\ wire[cut + i + 1] = LF /\ cut + i + 1 <= Len(wire)
        <3>1. i + 1 \in 1..(fed - cut) /\ cut + (i + 1) = cut + i + 1
            BY <1>0, <1>1, <1>2
        <3>2. QED
            BY <3>1, <1>0, <1>1, <1>2
    <2>2. SeparatorLen(buf, i) = 2
        BY <1>2 DEF SeparatorLen
    <2>3. Stream!At(cut + i, <<LF, LF>>)
        BY <2>1, <1>0, <1>1, Separators
    <2>4. QED
        BY <2>2, <2>3, <1>0, <1>1, <1>2
<1>3. CASE ~(i + 1 <= Len(buf) /\ buf[i] = LF /\ buf[i + 1] = LF)
    <2>1. /\ i + 3 <= Len(buf) /\ buf[i] = CR /\ buf[i + 1] = LF
          /\ buf[i + 2] = CR /\ buf[i + 3] = LF /\ SeparatorLen(buf, i) = 4
        BY <1>3 DEF SeparatorLen
    <2>2. /\ wire[cut + i] = CR /\ wire[cut + i + 1] = LF /\ wire[cut + i + 2] = CR
          /\ wire[cut + i + 3] = LF /\ cut + i + 3 <= Len(wire)
        <3>0. i + 3 <= fed - cut
            BY <1>0, <2>1
        <3>1. /\ i + 1 \in 1..(fed - cut) /\ cut + (i + 1) = cut + i + 1
              /\ i + 2 \in 1..(fed - cut) /\ cut + (i + 2) = cut + i + 2
              /\ i + 3 \in 1..(fed - cut) /\ cut + (i + 3) = cut + i + 3
            BY <3>0, <1>0, <1>1
        <3>2. /\ buf[i] = wire[cut + i] /\ buf[i + 1] = wire[cut + i + 1]
              /\ buf[i + 2] = wire[cut + i + 2] /\ buf[i + 3] = wire[cut + i + 3]
            BY <3>1, <1>0, <1>1
        <3>3. cut + i + 3 <= Len(wire)
            BY <3>0, <1>0, <1>1
        <3>4. QED
            BY <3>2, <3>3, <2>1
    <2>3. Stream!At(cut + i, <<CR, LF, CR, LF>>)
        BY <2>2, <1>0, <1>1, Separators
    <2>4. QED
        BY <2>1, <2>3, <1>0, <1>1
<1>4. QED
    BY <1>2, <1>3

\* A separator of the stream that lies in the buffer is found there.
LEMMA ThereIsFound ==
    ASSUME IInv, NEW q \in (cut + 1)..Len(wire), NEW separator \in Stream!Separator,
           Stream!At(q, separator), q + Len(separator) - 1 <= fed
    PROVE  SeparatorLen(buf, q - cut) > 0
<1>0. /\ wire \in Seq(Byte) /\ Len(wire) \in Nat /\ fed \in Nat /\ cut \in Nat
      /\ cut <= fed /\ fed <= Len(wire) /\ Len(buf) = fed - cut
      /\ \A j \in 1..(fed - cut) : buf[j] = wire[cut + j]
    BY InBuffer
<1>1. q \in Nat \ {0}
    BY <1>0
<1>2. CASE separator = <<LF, LF>>
    <2>1. Len(separator) = 2
        BY <1>2
    <2>2. wire[q] = LF /\ wire[q + 1] = LF
        BY <1>0, <1>1, <1>2, Separators
    <2>3. /\ q - cut \in 1..(fed - cut) /\ cut + (q - cut) = q
          /\ q - cut + 1 \in 1..(fed - cut) /\ cut + (q - cut + 1) = q + 1
        BY <1>0, <1>1, <2>1
    <2>4. buf[q - cut] = LF /\ buf[q - cut + 1] = LF
        BY <2>2, <2>3, <1>0
    <2>5. q - cut + 1 <= Len(buf)
        BY <2>3, <1>0
    <2>6. QED
        BY <2>4, <2>5 DEF SeparatorLen
<1>3. CASE separator = <<CR, LF, CR, LF>>
    <2>1. Len(separator) = 4
        BY <1>3
    <2>2. wire[q] = CR /\ wire[q + 1] = LF /\ wire[q + 2] = CR /\ wire[q + 3] = LF
        BY <1>0, <1>1, <1>3, Separators
    <2>3. /\ q - cut \in 1..(fed - cut) /\ cut + (q - cut) = q
          /\ q - cut + 1 \in 1..(fed - cut) /\ cut + (q - cut + 1) = q + 1
          /\ q - cut + 2 \in 1..(fed - cut) /\ cut + (q - cut + 2) = q + 2
          /\ q - cut + 3 \in 1..(fed - cut) /\ cut + (q - cut + 3) = q + 3
        BY <1>0, <1>1, <2>1
    <2>4. /\ buf[q - cut] = CR /\ buf[q - cut + 1] = LF
          /\ buf[q - cut + 2] = CR /\ buf[q - cut + 3] = LF
        BY <2>2, <2>3, <1>0
    <2>5. q - cut + 3 <= Len(buf)
        BY <2>3, <1>0
    <2>6. QED
        BY <2>4, <2>5 DEF SeparatorLen
<1>4. QED
    BY <1>2, <1>3 DEF Stream!Separator

\* The first separator of the buffer is the first of what is left of the stream.
LEMMA FirstIsFirst ==
    ASSUME IInv, NEW i \in 1..Len(buf), FirstSeparator(buf, i),
           NEW q \in (cut + 1)..(cut + i - 1), NEW separator \in Stream!Separator
    PROVE  ~Stream!At(q, separator)
<1> SUFFICES ASSUME Stream!At(q, separator) PROVE FALSE
    OBVIOUS
<1>0. /\ wire \in Seq(Byte) /\ Len(wire) \in Nat /\ fed \in Nat /\ cut \in Nat
      /\ cut <= fed /\ fed <= Len(wire) /\ Len(buf) = fed - cut
    BY InBuffer
<1>1. /\ cut + i \in (cut + 1)..Len(wire)
      /\ cut + i + SeparatorLen(buf, i) - 1 <= fed
      /\ \/ Stream!At(cut + i, <<LF, LF>>) /\ SeparatorLen(buf, i) = 2
         \/ Stream!At(cut + i, <<CR, LF, CR, LF>>) /\ SeparatorLen(buf, i) = 4
    BY FoundIsThere DEF FirstSeparator
<1>2. q \in (cut + 1)..Len(wire) /\ q \in Nat \ {0} /\ cut + i \in Nat \ {0}
    BY <1>0, <1>1
<1>3. q + Len(separator) - 1 > fed
    <2> SUFFICES ASSUME q + Len(separator) - 1 <= fed PROVE FALSE
        <3>1. Len(separator) \in {2, 4}
            BY DEF Stream!Separator
        <3>2. QED
            BY <3>1, <1>0, <1>2
    <2>1. SeparatorLen(buf, q - cut) > 0
        BY <1>2, ThereIsFound
    <2>2. q - cut \in 1..(i - 1)
        BY <1>0, <1>2
    <2>3. SeparatorLen(buf, q - cut) = 0
        BY <2>2 DEF FirstSeparator
    <2>4. QED
        BY <2>1, <2>3
\* Only the longer separator, one byte before the shorter that was found.
<1>4. separator = <<CR, LF, CR, LF>> /\ q = cut + i - 1 /\ SeparatorLen(buf, i) = 2
    <2>1. CASE separator = <<LF, LF>>
        <3>1. Len(separator) = 2
            BY <2>1
        <3>2. QED
            BY <3>1, <1>0, <1>1, <1>3
    <2>2. CASE separator = <<CR, LF, CR, LF>>
        <3>1. Len(separator) = 4
            BY <2>2
        <3>2. QED
            BY <3>1, <2>2, <1>0, <1>1, <1>3
    <2>3. QED
        BY <2>1, <2>2 DEF Stream!Separator
<1>5. wire[q + 2] = CR
    BY <1>0, <1>2, <1>4, Separators
<1>6. wire[cut + i + 1] = LF
    BY <1>0, <1>1, <1>2, <1>4, Separators
<1>7. q + 2 = cut + i + 1
    BY <1>0, <1>4
<1>8. QED
    BY <1>5, <1>6, <1>7 DEF CR, LF

-----------------------------------------------------------------------------
LEMMA InitHolds ==
    ASSUME Init
    PROVE  IInv
<1>1. wire \in Seq(Byte) /\ fed = 0 /\ cut = 0 /\ buf = <<>>
    BY WiresAssumption DEF Init
<1>2. Len(wire) \in Nat
    BY <1>1, LenProperties
<1>3. buf = SubSeq(wire, cut + 1, fed)
    BY <1>1, SubSeqEmpty
<1>4. QED
    BY <1>1, <1>2, <1>3 DEF IInv, TypeOK, BufferInv

\* A read appends to the buffer what it takes from the stream.
LEMMA ReadKeeps ==
    ASSUME IInv, Read
    PROVE  IInv'
<1>1. PICK n \in 1..(Len(wire) - fed) : buf' = Extended(n) /\ fed' = fed + n
    BY DEF Read
<1>2. wire' = wire /\ cut' = cut
    BY DEF Read
<1>3. wire \in Seq(Byte) /\ Len(wire) \in Nat /\ fed \in 0..Len(wire) /\ cut \in 0..fed
    BY LenProperties DEF IInv, TypeOK
<1>4. buf' = SubSeq(wire, cut + 1, fed + n)
    BY <1>1, Reading
<1>5. fed + n \in 0..Len(wire) /\ cut \in 0..(fed + n)
    BY <1>3
<1>6. SubSeq(wire, cut + 1, fed + n) \in Seq(Byte)
    <2>1. cut + 1 \in 1..(Len(wire) + 1) /\ fed + n \in (cut + 1 - 1)..Len(wire)
        BY <1>3, <1>5
    <2>2. QED
        BY <2>1, <1>3, Slice
<1>7. TypeOK'
    BY <1>1, <1>2, <1>3, <1>4, <1>5, <1>6 DEF TypeOK
<1>8. BufferInv'
    BY <1>1, <1>2, <1>4 DEF BufferInv
<1>9. QED
    BY <1>7, <1>8 DEF IInv

\* What is cut off and what stays are both slices of the stream.
LEMMA Cutting ==
    ASSUME IInv, NEW i \in 1..Len(buf), SeparatorLen(buf, i) > 0
    PROVE  /\ SubSeq(buf, 1, i - 1) = SubSeq(wire, cut + 1, cut + i - 1)
           /\ SubSeq(buf, i + SeparatorLen(buf, i), Len(buf))
                = SubSeq(wire, cut + i + SeparatorLen(buf, i), fed)
           /\ SubSeq(buf, i + SeparatorLen(buf, i), Len(buf)) \in Seq(Byte)
           /\ cut + i + SeparatorLen(buf, i) - 1 \in 0..fed
<1>0. /\ wire \in Seq(Byte) /\ Len(wire) \in Nat /\ fed \in Nat /\ cut \in Nat
      /\ cut <= fed /\ fed <= Len(wire) /\ Len(buf) = fed - cut /\ buf \in Seq(Byte)
    BY InBuffer
<1>1. buf = SubSeq(wire, cut + 1, fed)
    BY DEF IInv, BufferInv
<1>2. SeparatorLen(buf, i) \in {2, 4} /\ cut + i + SeparatorLen(buf, i) - 1 <= fed
    BY FoundIsThere
<1> DEFINE l == SeparatorLen(buf, i)
<1>3. l \in {2, 4} /\ cut + i + l - 1 <= fed /\ i + l - 1 <= Len(buf)
    BY <1>0, <1>2
<1> HIDE DEF l
<1>4. cut + 1 \in 1..(Len(wire) + 1) /\ fed \in (cut + 1 - 1)..Len(wire)
    BY <1>0
<1>5. SubSeq(buf, 1, i - 1) = SubSeq(wire, cut + 1, cut + i - 1)
    <2>1. 1 \in 1..(fed - (cut + 1) + 2) /\ i - 1 \in (1 - 1)..(fed - (cut + 1) + 1)
        BY <1>0
    <2>2. SubSeq(SubSeq(wire, cut + 1, fed), 1, i - 1)
            = SubSeq(wire, cut + 1 + 1 - 1, cut + 1 + (i - 1) - 1)
        BY <1>0, <1>4, <2>1, SliceOfSlice
    <2>3. cut + 1 + 1 - 1 = cut + 1 /\ cut + 1 + (i - 1) - 1 = cut + i - 1
        BY <1>0
    <2>4. QED
        BY <1>1, <2>2, <2>3
<1>6. SubSeq(buf, i + l, Len(buf)) = SubSeq(wire, cut + i + l, fed)
    <2>1. /\ i + l \in 1..(fed - (cut + 1) + 2)
          /\ fed - cut \in (i + l - 1)..(fed - (cut + 1) + 1)
        BY <1>0, <1>3
    <2>2. SubSeq(SubSeq(wire, cut + 1, fed), i + l, fed - cut)
            = SubSeq(wire, cut + 1 + (i + l) - 1, cut + 1 + (fed - cut) - 1)
        BY <1>0, <1>3, <1>4, <2>1, SliceOfSlice
    <2>3. cut + 1 + (i + l) - 1 = cut + i + l /\ cut + 1 + (fed - cut) - 1 = fed
        BY <1>0, <1>3
    <2>4. QED
        BY <1>0, <1>1, <2>2, <2>3
<1>7. SubSeq(buf, i + l, Len(buf)) \in Seq(Byte)
    <2>1. i + l \in 1..(Len(buf) + 1) /\ Len(buf) \in (i + l - 1)..Len(buf)
        BY <1>0, <1>3
    <2>2. QED
        BY <2>1, <1>0, Slice
<1>8. cut + i + l - 1 \in 0..fed
    BY <1>0, <1>3
<1>9. QED
    BY <1>5, <1>6, <1>7, <1>8 DEF l

LEMMA CutKeeps ==
    ASSUME IInv, CutEvent
    PROVE  IInv'
<1>1. PICK i \in 1..Len(buf) :
        /\ FirstSeparator(buf, i)
        /\ buf' = SubSeq(buf, i + SeparatorLen(buf, i), Len(buf))
        /\ cut' = cut + i + SeparatorLen(buf, i) - 1
        /\ UNCHANGED <<wire, fed>>
    BY DEF CutEvent
<1>2. SeparatorLen(buf, i) > 0
    BY <1>1 DEF FirstSeparator
<1>3. /\ buf' = SubSeq(wire, cut + i + SeparatorLen(buf, i), fed)
      /\ buf' \in Seq(Byte) /\ cut' \in 0..fed
    BY <1>1, <1>2, Cutting
<1>4. cut + i + SeparatorLen(buf, i) = cut' + 1
    <2>1. cut \in Nat /\ i \in Nat /\ SeparatorLen(buf, i) \in {2, 4}
        BY <1>2, InBuffer, FoundIsThere
    <2>2. QED
        BY <2>1, <1>1
<1>5. TypeOK'
    BY <1>1, <1>3 DEF IInv, TypeOK
<1>6. BufferInv'
    BY <1>1, <1>3, <1>4 DEF BufferInv
<1>7. QED
    BY <1>5, <1>6 DEF IInv

LEMMA StepKeeps ==
    ASSUME IInv, [Next]_vars
    PROVE  IInv'
<1>1. CASE Read
    BY <1>1, ReadKeeps
<1>2. CASE CutEvent
    BY <1>2, CutKeeps
<1>3. CASE UNCHANGED vars
    BY <1>3 DEF vars, IInv, TypeOK, BufferInv
<1>4. QED
    BY <1>1, <1>2, <1>3 DEF Next

\* The buffer holds, at every moment, exactly the bytes read and not yet
\* decoded, whatever the streams and the reads.
THEOREM BufferIsWhatIsLeft == Spec => []IInv
<1>1. Init => IInv
    BY InitHolds
<1>2. IInv /\ [Next]_vars => IInv'
    BY StepKeeps
<1>3. QED
    BY <1>1, <1>2, PTL DEF Spec

\* The state of the decoder has its type.
THEOREM TypeCorrect == Spec => []TypeOK
<1>1. IInv => TypeOK
    BY DEF IInv
<1>2. QED
    BY <1>1, BufferIsWhatIsLeft, PTL

-----------------------------------------------------------------------------
\* Cutting an event off the buffer decodes the next event of the stream.
LEMMA CutDecodes ==
    ASSUME IInv, CutEvent
    PROVE  Stream!Decode
<1>1. PICK i \in 1..Len(buf) :
        /\ FirstSeparator(buf, i)
        /\ items' = items \o ParseEventBlock(SubSeq(buf, 1, i - 1))
        /\ cut' = cut + i + SeparatorLen(buf, i) - 1
        /\ wire' = wire
    BY DEF CutEvent
<1>0. cut \in Nat /\ i \in Nat \ {0}
    BY InBuffer
<1>2. SeparatorLen(buf, i) > 0
    BY <1>1 DEF FirstSeparator
<1>3. /\ cut + i \in (cut + 1)..Len(wire)
      /\ \E separator \in Stream!Separator :
            Stream!At(cut + i, separator) /\ SeparatorLen(buf, i) = Len(separator)
    <2>1. /\ cut + i \in (cut + 1)..Len(wire)
          /\ \/ Stream!At(cut + i, <<LF, LF>>) /\ SeparatorLen(buf, i) = 2
             \/ Stream!At(cut + i, <<CR, LF, CR, LF>>) /\ SeparatorLen(buf, i) = 4
        BY <1>2, FoundIsThere
    <2>2. Len(<<LF, LF>>) = 2 /\ Len(<<CR, LF, CR, LF>>) = 4
        OBVIOUS
    <2>3. <<LF, LF>> \in Stream!Separator /\ <<CR, LF, CR, LF>> \in Stream!Separator
        BY DEF Stream!Separator
    <2>4. QED
        BY <2>1, <2>2, <2>3
<1>4. PICK separator \in Stream!Separator :
        Stream!At(cut + i, separator) /\ SeparatorLen(buf, i) = Len(separator)
    BY <1>3
<1>5. \A q \in (cut + 1)..(cut + i - 1), other \in Stream!Separator : ~Stream!At(q, other)
    BY <1>1, FirstIsFirst
<1>6. items' = items \o ParseEventBlock(SubSeq(wire, cut + 1, cut + i - 1))
    BY <1>1, <1>2, Cutting
<1>7. cut' = cut + i + Len(separator) - 1
    BY <1>1, <1>4
<1> DEFINE p == cut + i
<1>8. /\ p \in (cut + 1)..Len(wire) /\ Stream!At(p, separator)
      /\ \A q \in (cut + 1)..(p - 1), other \in Stream!Separator : ~Stream!At(q, other)
      /\ items' = items \o ParseEventBlock(SubSeq(wire, cut + 1, p - 1))
      /\ cut' = p + Len(separator) - 1 /\ UNCHANGED wire
    <2>0. p - 1 = cut + i - 1 /\ p + Len(separator) - 1 = cut + i + Len(separator) - 1
        BY <1>0, <1>4
    <2>1. p \in (cut + 1)..Len(wire)
        BY <1>3
    <2>2. Stream!At(p, separator)
        BY <1>4
    <2>3. \A q \in (cut + 1)..(p - 1), other \in Stream!Separator : ~Stream!At(q, other)
        BY <1>5, <2>0
    <2>4. items' = items \o ParseEventBlock(SubSeq(wire, cut + 1, p - 1))
        BY <1>6, <2>0
    <2>5. cut' = p + Len(separator) - 1 /\ UNCHANGED wire
        BY <1>1, <1>7, <2>0
    <2>6. QED
        BY <2>1, <2>2, <2>3, <2>4, <2>5
<1> HIDE DEF p
<1>9. QED
    BY <1>8 DEF Stream!Decode

\* The decoder implements SseStream: its items are those of the whole stream's
\* events, in order, however the network splits the stream into reads.
THEOREM DecoderImplementsStream == Spec => ImplementsSseStream
<1>1. Init => Stream!Init
    BY DEF Init, Stream!Init
<1>2. IInv /\ [Next]_vars => [Stream!Decode]_(Stream!vars)
    <2> SUFFICES ASSUME IInv, [Next]_vars PROVE [Stream!Decode]_(Stream!vars)
        OBVIOUS
    <2>1. CASE Read
        BY <2>1 DEF Read, Stream!vars
    <2>2. CASE CutEvent
        BY <2>2, CutDecodes
    <2>3. CASE UNCHANGED vars
        BY <2>3 DEF vars, Stream!vars
    <2>4. QED
        BY <2>1, <2>2, <2>3 DEF Next
<1>3. QED
    BY <1>1, <1>2, BufferIsWhatIsLeft, PTL DEF Spec, ImplementsSseStream, Stream!Spec

-----------------------------------------------------------------------------
(* Characters.  An event begins behind a line feed and ends before a        *)
(* separator, so no character reaches over its ends.                        *)

WholeItem == [done : {TRUE}] \cup [done : {FALSE}, data : Seq(Byte)]

CutsAtLines == cut > 0 => wire[cut] = LF
ItemsAreWhole == Whole(wire) => items \in Seq(WholeItem)
TextInv == CutsAtLines /\ ItemsAreWhole

\* Decoding bytes that hold whole characters only loses none.
LEMMA LossyKeepsWhole ==
    ASSUME NEW s \in Seq(Byte), Whole(s)
    PROVE  Lossy(s) \in Seq(Byte)
<1> DEFINE part(i) == IF Trails(s, i) THEN <<>>
                      ELSE IF s[i] \in {LEAD, TRAIL} /\ ~Leads(s, i) THEN <<LOST>>
                      ELSE <<s[i]>>
           ss == [i \in 1..Len(s) |-> part(i)]
<1>1. ASSUME NEW i \in 1..Len(s) PROVE part(i) \in Seq(Byte)
    <2>1. s[i] \in Byte
        BY ElementOfSeq
    <2>2. s[i] \in {LEAD, TRAIL} => Leads(s, i) \/ Trails(s, i)
        BY DEF Whole
    <2>3. <<>> \in Seq(Byte) /\ <<s[i]>> \in Seq(Byte)
        BY <2>1
    <2>4. part(i) = <<>> \/ part(i) = <<s[i]>>
        BY <2>2
    <2> HIDE DEF part
    <2>5. QED
        BY <2>3, <2>4
<1>2. Lossy(s) = FlattenSeq(ss)
    BY DEF Lossy
<1> HIDE DEF part
<1>3. ss \in Seq(Seq(Byte))
    BY <1>1, LenProperties
<1> HIDE DEF ss
<1>4. QED
    BY <1>2, <1>3, FlattenTyped

\* The data of a block is made of the block's bytes and of line feeds.
LEMMA DataTyped ==
    ASSUME NEW s \in Seq(Byte)
    PROVE  DataOf(s) \in Seq(Byte)
<1> DEFINE part(i) == IF IsPayload(s, i) THEN <<s[i]>>
                      ELSE IF /\ InDataLine(s, i) /\ Begins(s, i)
                              /\ \E j \in 1..i : IsPayload(s, j)
                           THEN <<LF>>
                      ELSE <<>>
           ss == [i \in 1..Len(s) |-> part(i)]
<1>1. ASSUME NEW i \in 1..Len(s) PROVE part(i) \in Seq(Byte)
    <2>1. s[i] \in Byte /\ LF \in Byte
        BY ElementOfSeq DEF Byte
    <2>2. <<>> \in Seq(Byte) /\ <<s[i]>> \in Seq(Byte) /\ <<LF>> \in Seq(Byte)
        BY <2>1
    <2>3. part(i) = <<>> \/ part(i) = <<s[i]>> \/ part(i) = <<LF>>
        OBVIOUS
    <2> HIDE DEF part
    <2>4. QED
        BY <2>2, <2>3
<1>2. DataOf(s) = FlattenSeq(ss)
    BY DEF DataOf
<1> HIDE DEF part
<1>3. ss \in Seq(Seq(Byte))
    BY <1>1, LenProperties
<1> HIDE DEF ss
<1>4. QED
    BY <1>2, <1>3, FlattenTyped

LEMMA ParsedIsWhole ==
    ASSUME NEW s \in Seq(Byte), Whole(s)
    PROVE  ParseEventBlock(s) \in Seq(WholeItem)
<1> DEFINE data == DataOf(Lossy(s))
<1>1. data \in Seq(Byte)
    BY LossyKeepsWhole, DataTyped
<1>2. \/ ParseEventBlock(s) = <<>>
      \/ ParseEventBlock(s) = <<[done |-> TRUE]>>
      \/ ParseEventBlock(s) = <<[done |-> FALSE, data |-> data]>>
    BY DEF ParseEventBlock
<1> HIDE DEF data
<1>3. [done |-> TRUE] \in WholeItem /\ [done |-> FALSE, data |-> data] \in WholeItem
    BY <1>1 DEF WholeItem
<1>4. CASE ParseEventBlock(s) = <<>>
    BY <1>4, EmptySeq
<1>5. CASE ParseEventBlock(s) = <<[done |-> TRUE]>>
    <2> DEFINE item == [done |-> TRUE]
    <2>1. item \in WholeItem /\ ParseEventBlock(s) = <<item>>
        BY <1>3, <1>5
    <2> HIDE DEF item
    <2>2. QED
        BY <2>1
<1>6. CASE ParseEventBlock(s) = <<[done |-> FALSE, data |-> data]>>
    <2> DEFINE item == [done |-> FALSE, data |-> data]
    <2>1. item \in WholeItem /\ ParseEventBlock(s) = <<item>>
        BY <1>3, <1>6
    <2> HIDE DEF item
    <2>2. QED
        BY <2>1
<1>7. QED
    BY <1>2, <1>4, <1>5, <1>6

\* A trailing byte stands right behind its leading byte.
LEMMA TrailingByte ==
    ASSUME NEW w, NEW k \in Nat, Trails(w, k)
    PROVE  k > 1 /\ w[k - 1] = LEAD /\ w[k] = TRAIL
<1>1. k > 1 /\ Leads(w, k - 1)
    BY DEF Trails
<1>2. w[k - 1] = LEAD /\ w[k - 1 + 1] = TRAIL
    BY <1>1 DEF Leads
<1>3. k - 1 + 1 = k
    OBVIOUS
<1>4. QED
    BY <1>1, <1>2, <1>3

\* No character of a whole stream reaches over the ends of an event.
LEMMA BlockIsWhole ==
    ASSUME IInv, CutsAtLines, Whole(wire), NEW i \in 1..Len(buf), SeparatorLen(buf, i) > 0
    PROVE  SubSeq(buf, 1, i - 1) \in Seq(Byte) /\ Whole(SubSeq(buf, 1, i - 1))
<1> DEFINE b == SubSeq(buf, 1, i - 1)
<1>0. /\ wire \in Seq(Byte) /\ Len(wire) \in Nat /\ cut \in Nat /\ i \in Nat /\ i >= 1
      /\ cut + i <= Len(wire)
    BY InBuffer
<1>1. b = SubSeq(wire, cut + 1, cut + i - 1)
    BY Cutting
<1>2. b \in Seq(Byte) /\ Len(b) = i - 1 /\ \A k \in 1..(i - 1) : b[k] = wire[cut + k]
    <2>1. /\ cut + 1 \in 1..(Len(wire) + 1) /\ cut + i - 1 \in ((cut + 1) - 1)..Len(wire)
          /\ (cut + i - 1) - (cut + 1) + 1 = i - 1
          /\ \A k \in 1..(i - 1) : (cut + 1) + k - 1 = cut + k
        BY <1>0
    <2> HIDE DEF b
    <2>2. QED
        BY <1>0, <1>1, <2>1, Slice
<1>3. wire[cut + i] \in {LF, CR}
    <2>1. cut + i \in Nat \ {0}
        BY <1>0
    <2>2. QED
        BY <1>0, <2>1, FoundIsThere, Separators
<1> HIDE DEF b
<1>4. ASSUME NEW k \in 1..Len(b), b[k] \in {LEAD, TRAIL}
      PROVE  Leads(b, k) \/ Trails(b, k)
    <2>1. /\ k \in 1..(i - 1) /\ cut + k \in 1..Len(wire)
          /\ b[k] = wire[cut + k] /\ wire[cut + k] \in {LEAD, TRAIL}
        BY <1>0, <1>2, <1>4
    <2>2. CASE Leads(wire, cut + k)
        <3>1. wire[cut + k] = LEAD /\ wire[cut + k + 1] = TRAIL
            BY <2>2 DEF Leads
        <3>2. k # i - 1
            <4>1. k = i - 1 => cut + k + 1 = cut + i
                BY <1>0
            <4>2. TRAIL \notin {LF, CR}
                BY DEF TRAIL, LF, CR
            <4>3. QED
                BY <1>3, <3>1, <4>1, <4>2
        <3>3. k + 1 \in 1..(i - 1) /\ cut + (k + 1) = cut + k + 1
            BY <1>0, <2>1, <3>2
        <3>4. b[k + 1] = TRAIL /\ b[k] = LEAD /\ k + 1 <= Len(b)
            BY <1>0, <1>2, <2>1, <3>1, <3>3
        <3>5. QED
            BY <3>4 DEF Leads
    <2>3. CASE Trails(wire, cut + k)
        <3>1. cut + k > 1 /\ wire[cut + k - 1] = LEAD /\ wire[cut + k] = TRAIL
            <4>1. cut + k \in Nat /\ (cut + k) - 1 = cut + k - 1
                BY <1>0, <2>1
            <4>2. QED
                BY <2>3, <4>1, TrailingByte
        <3>3. k # 1
            <4>1. k = 1 => cut > 0 /\ cut + k - 1 = cut
                BY <1>0, <3>1
            <4>2. LEAD # LF
                BY DEF LEAD, LF
            <4>3. QED
                BY <3>1, <4>1, <4>2 DEF CutsAtLines
        <3>4. k - 1 \in 1..(i - 1) /\ cut + (k - 1) = cut + k - 1 /\ (k - 1) + 1 = k /\ k > 1
            BY <1>0, <2>1, <3>3
        <3>5. b[k - 1] = LEAD /\ b[k] = TRAIL /\ (k - 1) + 1 <= Len(b)
            BY <1>2, <1>4, <2>1, <3>1, <3>4
        <3>6. QED
            BY <3>4, <3>5 DEF Trails, Leads
    <2>4. QED
        BY <2>1, <2>2, <2>3 DEF Whole
<1>5. QED
    BY <1>2, <1>4 DEF Whole, b

LEMMA CutKeepsText ==
    ASSUME IInv, TextInv, CutEvent
    PROVE  TextInv'
<1>1. PICK i \in 1..Len(buf) :
        /\ FirstSeparator(buf, i)
        /\ items' = items \o ParseEventBlock(SubSeq(buf, 1, i - 1))
        /\ cut' = cut + i + SeparatorLen(buf, i) - 1
        /\ wire' = wire
    BY DEF CutEvent
<1>2. SeparatorLen(buf, i) > 0
    BY <1>1 DEF FirstSeparator
<1>3. CutsAtLines'
    <2>1. wire \in Seq(Byte) /\ Len(wire) \in Nat /\ cut \in Nat /\ i \in Nat \ {0}
        BY InBuffer
    <2>2. /\ cut + i \in Nat \ {0}
          /\ \/ Stream!At(cut + i, <<LF, LF>>) /\ SeparatorLen(buf, i) = 2
             \/ Stream!At(cut + i, <<CR, LF, CR, LF>>) /\ SeparatorLen(buf, i) = 4
        BY <1>2, <2>1, FoundIsThere
    <2>3. CASE Stream!At(cut + i, <<LF, LF>>) /\ SeparatorLen(buf, i) = 2
        <3>1. wire[cut + i + 1] = LF
            BY <2>1, <2>2, <2>3, Separators
        <3>2. cut' = cut + i + 1
            BY <1>1, <2>1, <2>3
        <3>3. QED
            BY <1>1, <3>1, <3>2 DEF CutsAtLines
    <2>4. CASE Stream!At(cut + i, <<CR, LF, CR, LF>>) /\ SeparatorLen(buf, i) = 4
        <3>1. wire[cut + i + 3] = LF
            BY <2>1, <2>2, <2>4, Separators
        <3>2. cut' = cut + i + 3
            BY <1>1, <2>1, <2>4
        <3>3. QED
            BY <1>1, <3>1, <3>2 DEF CutsAtLines
    <2>5. QED
        BY <2>2, <2>3, <2>4
<1>4. ItemsAreWhole'
    <2> SUFFICES ASSUME Whole(wire) PROVE items' \in Seq(WholeItem)
        BY <1>1 DEF ItemsAreWhole
    <2>1. ParseEventBlock(SubSeq(buf, 1, i - 1)) \in Seq(WholeItem)
        BY <1>2, BlockIsWhole, ParsedIsWhole DEF TextInv
    <2>2. items \in Seq(WholeItem)
        BY DEF TextInv, ItemsAreWhole
    <2>3. QED
        BY <1>1, <2>1, <2>2, ConcatProperties
<1>5. QED
    BY <1>3, <1>4 DEF TextInv

\* A character that the upstream sent whole is never torn, wherever the reads
\* end and whatever the stream says.
THEOREM CharactersStayWhole == Spec => []NoTornCharacter
<1>1. Init => TextInv
    BY EmptySeq DEF Init, TextInv, CutsAtLines, ItemsAreWhole
<1>2. IInv /\ TextInv /\ [Next]_vars => TextInv'
    <2> SUFFICES ASSUME IInv, TextInv, [Next]_vars PROVE TextInv'
        OBVIOUS
    <2>1. CASE UNCHANGED <<wire, cut, items>>
        BY <2>1 DEF TextInv, CutsAtLines, ItemsAreWhole
    <2>2. QED
        BY <2>1, CutKeepsText DEF Next, Read, vars
<1>3. TextInv => NoTornCharacter
    <2> SUFFICES ASSUME TextInv, Whole(wire), NEW k \in 1..Len(items), ~items[k].done,
                        NEW i \in 1..Len(items[k].data)
                 PROVE  items[k].data[i] # LOST
        BY DEF NoTornCharacter
    <2>1. items \in Seq(WholeItem)
        BY DEF TextInv, ItemsAreWhole
    <2>2. items[k] \in WholeItem
        BY <2>1, ElementOfSeq
    <2>3. items[k].data \in Seq(Byte)
        BY <2>2 DEF WholeItem
    <2>4. items[k].data[i] \in Byte
        BY <2>3, ElementOfSeq
    <2>5. LOST \notin Byte
        BY DEF Byte, LOST, LF, CR, DATA, DONE, LEAD, TRAIL
    <2>6. QED
        BY <2>4, <2>5
<1>4. QED
    BY <1>1, <1>2, <1>3, BufferIsWhatIsLeft, PTL DEF Spec
=============================================================================

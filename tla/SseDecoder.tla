----------------------------- MODULE SseDecoder -----------------------------
(***************************************************************************)
(* SseDecoder (src/sse.rs), as run_stream (src/server.rs) drives it: every *)
(* read from the upstream is pushed into a buffer, and complete events are *)
(* cut off its front before the next read.  A read ends anywhere: inside a *)
(* separator, inside a character.                                          *)
(***************************************************************************)
EXTENDS SseBlock

CONSTANTS
    Wires  \* the streams that upstreams send, up to where they stop

ASSUME WiresAssumption == Wires \subseteq Seq(Byte)

VARIABLES
    wire,   \* the bytes of the stream
    fed,    \* how many of them were read
    cut,    \* how many of those were drained from the buffer
    buf,    \* the decoder's buffer
    items   \* what push returned so far

vars == <<wire, fed, cut, buf, items>>

TypeOK ==
    /\ wire \in Seq(Byte)
    /\ fed \in 0..Len(wire)
    /\ cut \in 0..fed
    /\ buf \in Seq(Byte)

Init ==
    /\ wire \in Wires
    /\ fed = 0 /\ cut = 0
    /\ buf = <<>> /\ items = <<>>

-----------------------------------------------------------------------------
\* Mutant of SeparatorLen: the longer separator is only seen with a byte after it.
SeparatorLenOffByOne(bytes, i) ==
    IF i + 1 <= Len(bytes) /\ bytes[i] = LF /\ bytes[i + 1] = LF THEN 2
    ELSE IF /\ i + 4 <= Len(bytes)
            /\ bytes[i] = CR /\ bytes[i + 1] = LF
            /\ bytes[i + 2] = CR /\ bytes[i + 3] = LF THEN 4
    ELSE 0

\* The length of the separator at i, 0 if there is none.
SeparatorLen(bytes, i) ==
    IF i + 1 <= Len(bytes) /\ bytes[i] = LF /\ bytes[i + 1] = LF THEN 2
    ELSE IF /\ i + 3 <= Len(bytes)
            /\ bytes[i] = CR /\ bytes[i + 1] = LF
            /\ bytes[i + 2] = CR /\ bytes[i + 3] = LF THEN 4
    ELSE 0

FirstSeparator(bytes, i) ==
    /\ SeparatorLen(bytes, i) > 0
    /\ \A j \in 1..(i - 1) : SeparatorLen(bytes, j) = 0

Complete(bytes) == \E i \in 1..Len(bytes) : SeparatorLen(bytes, i) > 0

\* Mutant of Extended: the buffer holds text, each read decoded by itself.
ExtendedAsText(n) == buf \o Lossy(SubSeq(wire, fed + 1, fed + n))

Extended(n) == buf \o SubSeq(wire, fed + 1, fed + n)

\* push returns before the next read: no complete event is in the buffer.
Read ==
    /\ ~Complete(buf)
    /\ \E n \in 1..(Len(wire) - fed) :
        /\ buf' = Extended(n)
        /\ fed' = fed + n
    /\ UNCHANGED <<wire, cut, items>>

\* Mutant of CutEvent: a separator is taken for two bytes, whichever it is.
CutEventShort ==
    \E i \in 1..Len(buf) :
        /\ FirstSeparator(buf, i)
        /\ items' = items \o ParseEventBlock(SubSeq(buf, 1, i - 1))
        /\ buf' = SubSeq(buf, i + 2, Len(buf))
        /\ cut' = cut + i + 1
        /\ UNCHANGED <<wire, fed>>

\* One turn of push's loop.
CutEvent ==
    \E i \in 1..Len(buf) :
        /\ FirstSeparator(buf, i)
        /\ items' = items \o ParseEventBlock(SubSeq(buf, 1, i - 1))
        /\ buf' = SubSeq(buf, i + SeparatorLen(buf, i), Len(buf))
        /\ cut' = cut + i + SeparatorLen(buf, i) - 1
        /\ UNCHANGED <<wire, fed>>

Next == Read \/ CutEvent

Spec == Init /\ [][Next]_vars /\ WF_vars(Next)

-----------------------------------------------------------------------------
Stream == INSTANCE SseStream WITH from <- cut

\* However the network splits the stream, the items are those of the whole
\* stream's events, in order: none is lost, none is made of two, and no
\* separator is missed because a read ended inside it.
ImplementsSseStream == Stream!Spec

\* A stream is read to its end and then every event in it has been decoded.
EveryEventDecoded == <>[](fed = Len(wire) /\ Stream!AllDecoded)

Whole(bytes) ==
    \A i \in 1..Len(bytes) : bytes[i] \in {LEAD, TRAIL} => Leads(bytes, i) \/ Trails(bytes, i)

\* A character that the upstream sent whole is never torn, wherever the reads
\* end (the promise of the module comment in sse.rs).
NoTornCharacter ==
    Whole(wire) => \A k \in 1..Len(items) :
        ~items[k].done => \A i \in 1..Len(items[k].data) : items[k].data[i] # LOST
=============================================================================

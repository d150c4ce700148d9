------------------------------ MODULE SseBlock ------------------------------
(***************************************************************************)
(* parse_event_block (src/sse.rs): what one event block of an upstream     *)
(* stream says.  A byte that no rule tells apart from others is one member *)
(* of Byte; "data:" with its optional space and "[DONE]" are one each.     *)
(***************************************************************************)
EXTENDS Naturals, Sequences, SequencesExt

LF == "lf"
CR == "cr"
DATA == "data:"
DONE == "[DONE]"
LEAD == "lead"     \* the first byte of a two-byte character
TRAIL == "trail"   \* its second byte
LOST == "lost"     \* U+FFFD, what from_utf8_lossy makes of half a character

Byte == {LF, CR, DATA, DONE, LEAD, TRAIL}

Leads(s, i) == i + 1 <= Len(s) /\ s[i] = LEAD /\ s[i + 1] = TRAIL
Trails(s, i) == i > 1 /\ Leads(s, i - 1)

\* A whole character is its first byte; a half is lost.
Lossy(s) ==
    FlattenSeq([i \in 1..Len(s) |->
        IF Trails(s, i) THEN <<>>
        ELSE IF s[i] \in {LEAD, TRAIL} /\ ~Leads(s, i) THEN <<LOST>>
        ELSE <<s[i]>>])

Begins(block, i) == i = 1 \/ block[i - 1] = LF
Ended(block, i) == i = Len(block) \/ block[i + 1] = LF

InDataLine(block, i) ==
    \E b \in 1..i : /\ Begins(block, b) /\ block[b] = DATA
                    /\ \A k \in b..i : block[k] # LF

\* Of a data line what follows its name, without the CR that may end it.
IsPayload(block, i) ==
    /\ InDataLine(block, i)
    /\ ~Begins(block, i)
    /\ ~(block[i] = CR /\ Ended(block, i))

\* Data lines are joined by line feeds; an empty beginning leaves no trace.
DataOf(block) ==
    FlattenSeq([i \in 1..Len(block) |->
        IF IsPayload(block, i) THEN <<block[i]>>
        ELSE IF /\ InDataLine(block, i) /\ Begins(block, i)
                /\ \E j \in 1..i : IsPayload(block, j)
             THEN <<LF>>
        ELSE <<>>])

Trimmed(data) == SelectSeq(data, LAMBDA b : b \notin {LF, CR})

\* No item or one.
ParseEventBlock(block) ==
    LET data == DataOf(Lossy(block))
    IN  IF data = <<>> THEN <<>>
        ELSE IF Trimmed(data) = <<DONE>> THEN <<[done |-> TRUE]>>
        ELSE <<[done |-> FALSE, data |-> data]>>
=============================================================================

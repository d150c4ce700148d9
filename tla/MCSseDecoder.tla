---------------------------- MODULE MCSseDecoder ----------------------------
EXTENDS SseDecoder

MaxShort == 5  \* the length of the streams that are tried whatever they say
MaxLines == 4  \* the lines of the longer ones

Line == {<<>>, <<DATA>>, <<DATA, LEAD, TRAIL>>, <<DATA, DONE>>}
LineEnd == {<<LF>>, <<CR, LF>>}

\* Streams of whole lines, every line of a stream ended the same way.
Composed ==
    UNION {{FlattenSeq([i \in 1..n |-> lines[i] \o end]) : lines \in [1..n -> Line], end \in LineEnd} :
           n \in 1..MaxLines}

MCWires ==
    UNION {[1..n -> {LF, CR, DATA, LEAD, TRAIL}] : n \in 0..MaxShort} \cup Composed
=============================================================================

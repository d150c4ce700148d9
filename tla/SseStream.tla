----------------------------- MODULE SseStream ------------------------------
(***************************************************************************)
(* What decoding an upstream's stream promises: the items of its events,   *)
(* in order, each cut out of the whole stream.  Reads do not occur here:   *)
(* how the network splits the bytes makes no difference.                   *)
(***************************************************************************)
EXTENDS Naturals, Sequences

CONSTANTS
    Wires,              \* the streams that upstreams send, up to where they stop
    LF, CR,
    ParseEventBlock(_)  \* what a block says: no item or one

VARIABLES
    wire,   \* the bytes of the stream
    from,   \* how many of them the events decoded so far take up
    items   \* what was decoded

vars == <<wire, from, items>>

Separator == {<<LF, LF>>, <<CR, LF, CR, LF>>}

At(p, bytes) ==
    /\ p + Len(bytes) - 1 <= Len(wire)
    /\ \A k \in 1..Len(bytes) : wire[p + k - 1] = bytes[k]

Init ==
    /\ wire \in Wires
    /\ from = 0
    /\ items = <<>>

\* The next event ends at the first separator there is.
Decode ==
    \E p \in (from + 1)..Len(wire), separator \in Separator :
        /\ At(p, separator)
        /\ \A q \in (from + 1)..(p - 1), other \in Separator : ~At(q, other)
        /\ items' = items \o ParseEventBlock(SubSeq(wire, from + 1, p - 1))
        /\ from' = p + Len(separator) - 1
        /\ UNCHANGED wire

Spec == Init /\ [][Decode]_vars

\* Nothing is left but the beginning of an event.
AllDecoded ==
    \A p \in (from + 1)..Len(wire), separator \in Separator : ~At(p, separator)
=============================================================================

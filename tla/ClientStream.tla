---------------------------- MODULE ClientStream ----------------------------
(***************************************************************************)
(* What a client of a streamed answer may rely on, in either dialect: the  *)
(* abstract specification that the stream pump with its two emitters       *)
(* implements (src/server.rs run_stream).                                  *)
(*                                                                         *)
(* Blocks are numbered from zero without gaps, every fragment belongs to   *)
(* an open block of its kind, reasoning and text are open one at a time    *)
(* and never when a tool call opens, an answer ends with every block       *)
(* closed, and nothing follows a failure.  An answer may end before it     *)
(* began: an upstream that sends nothing is reported as a complete, empty  *)
(* answer.                                                                 *)
(*                                                                         *)
(* With usage tracking on the pump reads on after the end, and may then    *)
(* end or fail the answer again; with tracking off it may not.             *)
(***************************************************************************)
EXTENDS ClientView

VARIABLE track

Init == NothingHeard /\ track \in BOOLEAN

IsOpen(kind) == \E b \in open : b.kind = kind

Begin == phase = "before" /\ HearPhase("within")

\* Opening text ends the reasoning; opening a tool call ends both.
Open(kind) ==
    /\ phase = "within"
    /\ ~IsOpen("reasoning")
    /\ kind # "reasoning" => ~IsOpen("text")
    /\ HearOpen(Len(kinds), kind)

Part(b) == phase = "within" /\ HearPart(b.index, b.kind)

Close(b) == phase = "within" /\ HearClose(b.index)

\* Nothing has been said of the end yet, or what follows it is tolerated.
Unfinished == phase \in {"before", "within"} \/ (track /\ phase = "ended")

\* The stop reason and the usage of an Anthropic message.
Sum == Unfinished /\ open = {} /\ HearPhase("summed")

End == (Unfinished \/ phase = "summed") /\ open = {} /\ HearPhase("ended")

Fail == Unfinished /\ HearPhase("failed")

Next ==
    /\ UNCHANGED track
    /\ \/ Begin
       \/ \E kind \in BlockKind : Open(kind)
       \/ \E b \in open : Part(b) \/ Close(b)
       \/ Sum \/ End \/ Fail

Spec == Init /\ [][Next]_<<view, track>>
=============================================================================

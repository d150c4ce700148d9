--------------------------- MODULE MCConversation ---------------------------
(***************************************************************************)
(* Any history of up to MaxRecalled utterances of a small vocabulary, then *)
(* a conversation over it.                                                 *)
(***************************************************************************)
EXTENDS Conversation

CONSTANTS MaxRecalled, a, b

Text(form) == [m |-> 1, kind |-> "text", id |-> None, form |-> form, empty |-> FALSE]
Empty(piece) == [piece EXCEPT !.empty = TRUE]
Thought(name) == [m |-> 2, kind |-> "reasoning", id |-> None, form |-> name, empty |-> FALSE]
Asks(id) == [m |-> 3, kind |-> "call", id |-> id, form |-> "json", empty |-> FALSE]
Unknown == [m |-> 5, kind |-> "other", id |-> None, form |-> "string", empty |-> FALSE]
Yields(id) == [m |-> 4, kind |-> "output", id |-> id, form |-> "string", empty |-> FALSE]

\* The i-th utterance, of a role and some forms of pieces.
Numbered(i, role, forms) ==
    Message(role, [n \in 1..Len(forms) |->
        Piece(forms[n].kind, forms[n].id,
              IF forms[n].empty THEN <<>> ELSE <<Fragment(i, n)>>, forms[n].form)])

Vocabulary ==
    [responses |->
        {<<"user", <<Text("parts")>>>>, <<"system", <<Text("string")>>>>,
         <<"assistant", <<Text("parts")>>>>,
         <<"assistant", <<Thought("summary")>>>>, <<"assistant", <<Empty(Thought("summary"))>>>>,
         <<"assistant", <<Asks(a)>>>>, <<"assistant", <<Asks(b)>>>>, <<"assistant", <<Asks(NoId)>>>>,
         <<"assistant", <<Unknown>>>>,
         <<"tool", <<Yields(a)>>>>, <<"tool", <<Yields(NoId)>>>>},
     anthropic |->
        {<<"user", <<Text("string")>>>>, <<"user", <<Empty(Text("string"))>>>>,
         <<"user", <<Yields(a), Yields(b), Text("parts")>>>>, <<"user", <<Yields(NoId)>>>>,
         <<"assistant", <<Thought("summary")>>>>,
         <<"assistant", <<Thought("summary"), Text("parts"), Asks(a)>>>>,
         <<"assistant", <<Text("parts"), Thought("summary"), Empty(Thought("summary")), Asks(b), Asks(NoId)>>>>,
         <<"system", <<Text("string")>>>>},
     chat |->
        {<<"user", <<Text("string")>>>>, <<"user", <<Text("parts")>>>>,
         <<"system", <<Text("string")>>>>,
         <<"tool", <<Yields(a)>>>>, <<"tool", <<Yields(NoId)>>>>,
         <<"tool", <<[Yields(b) EXCEPT !.form = "parts"]>>>>,
         <<"assistant", <<Thought("reasoning_content"), Text("string")>>>>,
         <<"assistant", <<Thought("reasoning"), Empty(Text("string")), Asks(a), Asks(b)>>>>,
         <<"assistant", <<Empty(Thought("reasoning_content")), Asks(NoId)>>>>}]

MCHistories ==
    [d \in Dialect |->
        UNION {{[i \in 1..n |-> Numbered(i, h[i][1], h[i][2])] : h \in [1..n -> Vocabulary[d]]} :
               n \in 0..MaxRecalled}]

Shape(reasoning, key, text, calls) ==
    [reasoning |-> reasoning, key |-> key, text |-> text, calls |-> calls]
Call(id, form) == [id |-> id, form |-> form]

MCShapes ==
    {Shape(TRUE, "reasoning_content", TRUE, <<>>),
     Shape(TRUE, "reasoning_content", FALSE, <<>>),
     Shape(TRUE, "reasoning", FALSE, <<Call(a, "json"), Call(b, "broken")>>),
     Shape(TRUE, "hidden", TRUE, <<Call(b, "json")>>),
     Shape(FALSE, "reasoning_content", FALSE, <<Call(a, "json")>>),
     Shape(TRUE, "reasoning_content", TRUE, <<Call(b, "json")>>),
     Shape(FALSE, "reasoning_content", TRUE, <<Call(NoId, "broken")>>)}
=============================================================================

---------------------------- MODULE Conversation ----------------------------
(***************************************************************************)
(* A client and the bridge, turn by turn.  The bridge keeps nothing of a   *)
(* conversation: every request brings the whole history, in the client's   *)
(* dialect, and the bridge makes of it the messages of a Chat Completions  *)
(* request (parse_request, then build_request).  What the upstream answers *)
(* goes back in the client's dialect, and comes again with the next        *)
(* request.                                                                *)
(*                                                                         *)
(* The client may bring any history it has from elsewhere.  It sends when  *)
(* it has said something or has results of the calls it was asked for.     *)
(* Every utterance has a number, and its fragments are numbered after it.  *)
(***************************************************************************)
EXTENDS Completion, FiniteSets

CONSTANTS
    Histories,     \* dialect -> the histories that its clients may bring
    Shapes,        \* what answers look like
    MaxUtterances, \* bound on the length of a conversation
    Stride         \* how many numbers an utterance has for its fragments

Dialect == {"responses", "anthropic", "chat"}

\* What a message of each dialect can hold: a Responses item is one piece, an
\* Anthropic result is a user's, and a Chat result is a message of its own.
Utterable(d) ==
    {m \in HistoryMessage :
        /\ \A i \in 1..Len(m.pieces) : m.pieces[i].kind \in {"call", "output"} => m.pieces[i].id \in CallId
        /\ d = "responses" =>
              /\ Len(m.pieces) = 1
              /\ m.role = "tool" <=> m.pieces[1].kind = "output"
              /\ m.pieces[1].kind \in {"call", "reasoning", "other"} => m.role = "assistant"
        /\ d = "anthropic" => m.role # "tool"
        /\ d = "chat" /\ m.role = "tool" => Len(m.pieces) = 1 /\ m.pieces[1].kind = "output"}

ASSUME ConversationAssumption ==
    /\ \A d \in Dialect : Histories[d] \subseteq Seq(Utterable(d))
    /\ Shapes \subseteq [reasoning : BOOLEAN, key : ReasoningKey, text : BOOLEAN,
                         calls : Seq([id : CallId, form : {"json", "broken"}])]
    /\ MaxUtterances \in Nat
    /\ Stride \in Nat

VARIABLES
    \* The client.
    dialect,
    repeats,   \* it sends the calls again that its results belong to
    history,
    clock,     \* utterances so far
    recalled,  \* the number of those that it brought along
    owed,      \* calls whose results it owes
    \* The bridge, within one request.
    pc, at,
    system, messages, pending_reasoning,
    out, announced,
    \* The upstream.
    seen,      \* the messages of the last request
    answers    \* what it answered

Responses == INSTANCE ResponsesRequest
Anthropic == INSTANCE AnthropicRequest
Chat == INSTANCE ChatRequest
Parents == INSTANCE ToolParents

given == <<dialect, repeats, recalled>>
client == <<history, clock, owed>>
parser == <<system, messages, pending_reasoning>>
vars == <<given, client, pc, at, parser, out, announced, seen, answers>>

Init ==
    /\ dialect \in Dialect
    /\ repeats \in (IF dialect = "responses" THEN BOOLEAN ELSE {TRUE})
    /\ history \in Histories[dialect]
    /\ clock = Len(history) /\ recalled = Len(history)
    /\ owed = <<>>
    /\ pc = "client" /\ at = 1
    /\ system = None /\ messages = <<>> /\ pending_reasoning = None
    /\ out = <<>> /\ announced = {}
    /\ seen = <<>> /\ answers = <<>>

-----------------------------------------------------------------------------
Fragment(utterance, n) == Stride * utterance + n
Utterance(fragment) == fragment \div Stride

\* No two places in the pieces hold the same fragment.
NoneRepeats(pieces) ==
    \A i, j \in 1..Len(pieces) :
        /\ OnlyOnce(pieces[i].text)
        /\ i # j => ToSet(pieces[i].text) \cap ToSet(pieces[j].text) = {}

\* Calls are an assistant's, results come where the dialect has them.
InPlace(d, message) ==
    \A i \in 1..Len(message.pieces) :
        /\ message.pieces[i].kind = "call" => message.role = "assistant"
        /\ message.pieces[i].kind = "output" => message.role = (IF d = "anthropic" THEN "user" ELSE "tool")

\* What clients bring is numbered as what is said here, and there are numbers
\* enough for an answer: its reasoning is 1, its text 2, its calls go on from 3.
\* Only what is said of single fragments needs this.
ASSUME NumberingAssumption ==
    /\ None \notin Seq(Nat)
    /\ \A d \in Dialect : \A h \in Histories[d] : \A i \in 1..Len(h) :
          /\ InPlace(d, h[i]) /\ NoneRepeats(h[i].pieces)
          /\ \A p \in ToSet(h[i].pieces) : \A f \in ToSet(p.text) : Utterance(f) = i
    /\ Stride > 2 /\ \A shape \in Shapes : Len(shape.calls) + 2 < Stride

Message(role, pieces) == [role |-> role, pieces |-> pieces]

\* The model is to speak next.
Awaiting == history # <<>> /\ Last(history).role \in {"user", "tool"}

Say ==
    /\ pc = "client" /\ owed = <<>> /\ ~Awaiting
    /\ history' = Append(history,
            Message("user", <<Piece("text", None, <<Fragment(clock + 1, 1)>>, "string")>>))
    /\ clock' = clock + 1
    /\ UNCHANGED <<given, owed, pc, at, parser, out, announced, seen, answers>>

Result(i) == Piece("output", owed[i], <<Fragment(clock + i, 1)>>, "string")

\* Anthropic clients put all results in one message, maybe with a text.
ReturnResults ==
    /\ pc = "client" /\ owed # <<>>
    /\ LET results == [i \in 1..Len(owed) |-> Result(i)]
           remark == <<Piece("text", None, <<Fragment(clock + Len(owed), 2)>>, "parts")>>
       IN  IF dialect = "anthropic"
           THEN \E more \in {<<>>, remark} :
                    history' = Append(history, Message("user", results \o more))
           ELSE history' = history \o [i \in 1..Len(owed) |-> Message("tool", <<results[i]>>)]
    /\ clock' = clock + Len(owed)
    /\ owed' = <<>>
    /\ UNCHANGED <<given, pc, at, parser, out, announced, seen, answers>>

Send ==
    /\ pc = "client" /\ owed = <<>> /\ Awaiting
    /\ pc' = "parse" /\ at' = 1
    /\ system' = None /\ messages' = <<>> /\ pending_reasoning' = None
    /\ UNCHANGED <<given, client, out, announced, seen, answers>>

-----------------------------------------------------------------------------
ParseItem(item) ==
    \/ dialect = "responses" /\ Responses!ParseInputItem(item)
    \/ dialect = "anthropic" /\ Anthropic!ParseMessage(item) /\ UNCHANGED <<system, pending_reasoning>>
    \/ dialect = "chat" /\ Chat!ParseMessage(item) /\ UNCHANGED pending_reasoning

Parse ==
    /\ pc = "parse" /\ at <= Len(history)
    /\ ParseItem(history[at])
    /\ at' = at + 1
    /\ UNCHANGED <<given, client, pc, out, announced, seen, answers>>

Parsed ==
    /\ pc = "parse" /\ at > Len(history)
    /\ pc' = "normalize" /\ at' = 1
    /\ Parents!Begin
    /\ UNCHANGED <<given, client, parser, seen, answers>>

Normalize ==
    /\ pc = "normalize" /\ at <= Len(messages)
    /\ Parents!Normalize(messages[at])
    /\ at' = at + 1
    /\ UNCHANGED <<given, client, pc, parser, seen, answers>>

Dispatch ==
    /\ pc = "normalize" /\ at > Len(messages)
    /\ pc' = "upstream"
    /\ seen' = out
    /\ UNCHANGED <<given, client, at, parser, out, announced, answers>>

-----------------------------------------------------------------------------
Answer(shape) ==
    [reasoning |-> IF shape.reasoning THEN <<Fragment(clock + 1, 1)>> ELSE <<>>,
     key |-> shape.key,
     text |-> IF shape.text THEN <<Fragment(clock + 1, 2)>> ELSE <<>>,
     calls |-> [i \in 1..Len(shape.calls) |->
                   [id |-> shape.calls[i].id, body |-> <<Fragment(clock + 1, 2 + i)>>,
                    form |-> shape.calls[i].form]]]

\* What the client keeps of an answer.
Echo(answer) ==
    CASE dialect = "responses" ->
            Among(FinalItems(answer), {m \in ToSet(FinalItems(answer)) :
                                           repeats \/ m.pieces[1].kind # "call"})
      [] dialect = "anthropic" -> FinalMessage(answer)
      [] dialect = "chat" -> Passthrough(answer)

Respond ==
    /\ pc = "upstream" /\ clock < MaxUtterances
    /\ \E shape \in Shapes :
        /\ answers' = Append(answers, Answer(shape))
        /\ history' = history \o Echo(Answer(shape))
        /\ owed' = [i \in 1..Len(shape.calls) |-> shape.calls[i].id]
    /\ clock' = clock + 1
    /\ pc' = "client"
    /\ UNCHANGED <<given, at, parser, out, announced, seen>>

\* The client gets an error, and may send the same again.
Fail ==
    /\ pc = "upstream" /\ clock < MaxUtterances
    /\ pc' = "client"
    /\ UNCHANGED <<given, client, at, parser, out, announced, seen, answers>>

\* The conversation is long enough.
Over == pc = "upstream" /\ clock >= MaxUtterances /\ UNCHANGED vars

Next ==
    \/ Say \/ ReturnResults \/ Send
    \/ Parse \/ Parsed \/ Normalize \/ Dispatch
    \/ Respond \/ Fail \/ Over

Spec == Init /\ [][Next]_vars

-----------------------------------------------------------------------------
Calls(message, id) == \E c \in 1..Len(message.calls) : message.calls[c].id = id

\* Every tool result that goes out has an assistant message before it that
\* calls it, whatever the client left out, repeated or mixed up; one with an
\* empty id has its own, right before it (normalize_tool_parents).
ToolsHaveParents ==
    \A k \in 1..Len(out) : out[k].role = "tool" =>
        /\ \E j \in 1..(k - 1) : out[j].role = "assistant" /\ Calls(out[j], out[k].id)
        /\ out[k].id = NoId => k > 1 /\ out[k - 1].role = "assistant" /\ Calls(out[k - 1], NoId)

AnsweredIds == FlattenSeq([i \in 1..Len(answers) |->
                    [c \in 1..Len(answers[i].calls) |-> answers[i].calls[c].id]])

\* Strict upstreams want results right behind their turn.  A conversation that
\* the bridge carried from its start keeps to that in every dialect, calls
\* repeated or not, as long as upstreams name calls and do not reuse the names
\* ("strict upstreams (DeepSeek) require the assistant->tool structure").
StrictUpstreamsAccept ==
    recalled = 0 /\ Len(AnsweredIds) = Cardinality(ToSet(AnsweredIds)) /\ NoId \notin ToSet(AnsweredIds) =>
        \A k \in 1..Len(out) : out[k].role = "tool" =>
            \E j \in 1..(k - 1) :
                /\ out[j].role = "assistant" /\ Calls(out[j], out[k].id)
                /\ \A i \in (j + 1)..k : out[i].role = "tool"

Fragments(message) ==
    (IF message.text = None THEN <<>> ELSE message.text)
      \o FlattenSeq([c \in 1..Len(message.calls) |-> message.calls[c].body])

\* Chat reads no parts, and only one system message; Anthropic has no such role.
Unread(message, piece) ==
    \/ piece.kind \in {"reasoning", "other"}
    \/ message.role = "system"
    \/ dialect = "chat" /\ piece.kind # "call" /\ piece.form # "string"

Told ==
    UNION {UNION {{<<IF p.kind = "output" THEN "tool" ELSE history[i].role, f>> : f \in ToSet(p.text)} :
                  p \in {q \in ToSet(history[i].pieces) : ~Unread(history[i], q)}} :
           i \in 1..Len(history)}

Heard == UNION {{<<out[k].role, f>> : f \in ToSet(Fragments(out[k]))} : k \in 1..Len(out)}

InOrder ==
    \A j, k \in 1..Len(out) : j < k =>
        \A f \in ToSet(Fragments(out[j])), g \in ToSet(Fragments(out[k])) :
            Utterance(f) <= Utterance(g)

NothingTwice ==
    LET all == FlattenSeq([k \in 1..Len(out) |-> Fragments(out[k])])
    IN  Len(all) = Cardinality(ToSet(all))

SystemIsWhole ==
    (IF system = None THEN <<>> ELSE system)
        = FlattenSeq([i \in 1..Len(history) |->
              IF history[i].role = "system" THEN Joined(history[i].pieces) ELSE <<>>])

\* The upstream gets what the client's history says: every text, call and
\* result once, in its role, and in the order they were uttered (the parsers
\* with their merging, then normalize_tool_parents).
EverythingIsPassedOn ==
    pc = "upstream" =>
        /\ Told = Heard
        /\ InOrder /\ NothingTwice
        /\ dialect = "responses" => SystemIsWhole

-----------------------------------------------------------------------------
\* Turns end with what the user says and with results.
Turn(i) == Cardinality({j \in 1..(i - 1) : history[j].role \in {"user", "tool"}})

TurnOf(fragment) ==
    Turn(CHOOSE i \in 1..Len(history) :
            \E p \in ToSet(history[i].pieces) : fragment \in ToSet(p.text))

Reasons(message) == message.reasoning \notin {None, <<>>}

\* Of a user's message no dialect reads any.
ReadBack(message, piece) ==
    /\ message.role = "assistant"
    /\ piece.kind = "reasoning" /\ piece.text # <<>>
    /\ dialect = "chat" => piece.form = "reasoning_content"

\* The rest of its turn: for Responses a message or call behind it.
Continues(i) ==
    IF dialect = "responses"
    THEN \E j \in (i + 1)..Len(history) :
            /\ Turn(j) = Turn(i) /\ history[j].role = "assistant"
            /\ history[j].pieces[1].kind \in {"text", "call"}
    ELSE TRUE

\* Reasoning goes with the turn it was thought for: it never ends up in a later
\* one, and a turn that had some goes out with some ("carries each turn's
\* reasoning_content back to the model across multi-step tool conversations").
ReasoningGoesWithItsTurn ==
    pc = "upstream" =>
        /\ \A k \in 1..Len(out) : Reasons(out[k]) =>
              \A f \in ToSet(out[k].reasoning), g \in ToSet(Fragments(out[k])) :
                  TurnOf(f) = TurnOf(g)
        /\ \A i \in 1..Len(history) :
              (\E p \in ToSet(history[i].pieces) : ReadBack(history[i], p)) /\ Continues(i) =>
                  \E k \in 1..Len(out) :
                      Reasons(out[k]) /\ TurnOf(out[k].reasoning[1]) = Turn(i)

\* The next request repeats what went out before and goes on from there: what
\* the bridge makes of a history does not change as it grows, so the model is
\* never told another past (and upstreams' prefix caches hold).
RequestsOnlyGrow == [][IsPrefix(seen, seen')]_vars

\* A turn that said or called something: a Responses client's history has no
\* place for a turn that only reasoned, and Chat knows reasoning by one name.
Memorable(answer) ==
    /\ answer.text # <<>> \/ answer.calls # <<>>
    /\ dialect = "chat" => answer.reasoning = <<>> \/ answer.key = "reasoning_content"
    /\ answer.key # "hidden"

Remembered(answer) ==
    Assistant(IF answer.text = <<>> THEN None ELSE answer.text,
              IF answer.reasoning = <<>> THEN None ELSE answer.reasoning,
              [c \in 1..Len(answer.calls) |->
                  ToolCall(answer.calls[c].id,
                           IF dialect = "anthropic" /\ answer.calls[c].form # "json" THEN <<>>
                           ELSE answer.calls[c].body)])

\* What a model answered comes back to it whole, as one turn: its text, its
\* calls and its reasoning, through the emitter, the client's history and the
\* parser ("carried back across turns").
AnswersComeBack ==
    pc = "upstream" /\ repeats =>
        \A n \in 1..Len(answers) : Memorable(answers[n]) =>
            \E k \in 1..Len(out) : out[k] = Remembered(answers[n])
=============================================================================

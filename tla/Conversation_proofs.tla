------------------------ MODULE Conversation_proofs -------------------------
(***************************************************************************)
(* Whatever history a client brings, in whatever dialect: no tool result   *)
(* goes out before a call of it, every request begins with the one before, *)
(* every memorable answer is in every later request, every result goes out *)
(* right behind its call, nothing is lost, doubled or moved, and reasoning *)
(* stays with the turn it was thought in.                                  *)
(*                                                                         *)
(* The first needs nothing of the parsers, hence nothing of the types of   *)
(* messages.  It rests on what the loop of normalize_tool_parents          *)
(* remembers: an id that it has claimed is called by a message it has put  *)
(* out already, and messages are only ever put behind others.              *)
(*                                                                         *)
(* For the second, the two loops are written as functions, of a history    *)
(* (ParseOf) and of what was parsed (NormalOf), which the actions follow;  *)
(* the functions only ever add behind what they made of a history that the *)
(* model was to answer.                                                    *)
(*                                                                         *)
(* The third follows an answer through its emitter, the client's history   *)
(* and the parser, piece by piece (ResponsesTurn, AnthropicTurn, ChatTurn):*)
(* what it is parsed to is the turn that the model spoke.  From then on it *)
(* is kept as the second says.                                             *)
(*                                                                         *)
(* For the fourth, what was parsed of a conversation that was carried from *)
(* its start is Structured (or Unclaimed, when the client keeps no calls), *)
(* and normalize_tool_parents keeps such a structure as it is.             *)
(*                                                                         *)
(* The fifth compares what a history Tells with what messages make the     *)
(* upstream hear (Hears): each parser and normalize_tool_parents add what  *)
(* a message tells, and behind what is older.  That needs histories whose  *)
(* messages are each older than the next (Consecutive, Recent), which is   *)
(* what clients bring, and what they say, return and get answered keeps.   *)
(*                                                                         *)
(* The sixth counts the turns of a history (TurnAt).  What parse_input has *)
(* pending belongs to the open turn, and so does all of the open message   *)
(* (OpenTurn); what goes out keeps its reasoning with its turn (Thoughtful)*)
(* in every dialect, and in a history whose fragments are spoken once, the *)
(* turn of a fragment is the one that it was spoken in.                    *)
(***************************************************************************)
EXTENDS Conversation, SequenceLemmas

\* Every id that was claimed is called by a message that goes out already.
ClaimsAreTrue ==
    \A id \in announced :
        /\ id # NoId
        /\ \E j \in 1..Len(out) : out[j].role = "assistant" /\ Calls(out[j], id)

HasParent(k) ==
    /\ \E j \in 1..(k - 1) : out[j].role = "assistant" /\ Calls(out[j], out[k].id)
    /\ out[k].id = NoId => k > 1 /\ out[k - 1].role = "assistant" /\ Calls(out[k - 1], NoId)

IInv ==
    /\ IsSequence(out)
    /\ ClaimsAreTrue
    /\ ToolsHaveParents

-----------------------------------------------------------------------------
\* A result keeps its parent when messages are put behind it.
LEMMA StillThere ==
    ASSUME ToolsHaveParents, Len(out) \in Nat,
           \A i \in 1..Len(out) : out'[i] = out[i],
           NEW k \in 1..Len(out), out'[k].role = "tool"
    PROVE  HasParent(k)'
<1>1. HasParent(k)
  BY DEF ToolsHaveParents, HasParent
<1>2. \A j \in 1..k : j \in 1..Len(out) /\ out'[j] = out[j]
  OBVIOUS
<1>3. out'[k].id = NoId => k > 1 /\ out'[k - 1].role = "assistant" /\ Calls(out'[k - 1], NoId)
  BY <1>1, <1>2 DEF HasParent
<1>4. QED
  BY <1>1, <1>2, <1>3 DEF HasParent, Calls

\* A message that is no unannounced tool result keeps the invariant.
LEMMA PutOut ==
    ASSUME IInv, NEW message,
           message.role = "tool" => message.id \in announced,
           out' = Append(out, message), announced' = announced
    PROVE  IInv'
<1>1. /\ IsSequence(out') /\ Len(out) \in Nat /\ Len(out') = Len(out) + 1
      /\ \A i \in 1..Len(out) : out'[i] = out[i]
      /\ out'[Len(out) + 1] = message
  BY Appended DEF IInv
<1>2. ClaimsAreTrue'
  BY <1>1 DEF IInv, ClaimsAreTrue, Calls
<1>3. ToolsHaveParents'
  <2> SUFFICES ASSUME NEW k \in 1..Len(out'), out'[k].role = "tool"
               PROVE  HasParent(k)'
    BY DEF ToolsHaveParents, HasParent, Calls
  <2>1. CASE k \in 1..Len(out)
    BY <1>1, <2>1, StillThere DEF IInv
  <2>2. CASE k = Len(out) + 1
    <3>1. message.role = "tool" /\ message.id # NoId
      BY <1>1, <2>2 DEF IInv, ClaimsAreTrue
    <3>2. PICK j \in 1..Len(out) : out[j].role = "assistant" /\ Calls(out[j], message.id)
      BY <1>1, <2>2, <3>1 DEF IInv, ClaimsAreTrue
    <3>3. QED
      BY <1>1, <2>2, <3>1, <3>2 DEF HasParent, Calls
  <2>3. QED
    BY <1>1, <2>1, <2>2
<1>4. QED
  BY <1>1, <1>2, <1>3 DEF IInv

\* An assistant message adds its calls to what is claimed.
LEMMA Announced ==
    ASSUME IInv, NEW message, Parents!KeepAssistant(message)
    PROVE  IInv'
<1>1. /\ IsSequence(out') /\ Len(out) \in Nat /\ Len(out') = Len(out) + 1
      /\ \A i \in 1..Len(out) : out'[i] = out[i]
      /\ out'[Len(out) + 1] = message /\ message.role = "assistant"
  BY Appended DEF IInv, Parents!KeepAssistant
<1>2. ClaimsAreTrue'
  <2> SUFFICES ASSUME NEW id \in announced'
               PROVE  /\ id # NoId
                      /\ \E j \in 1..Len(out') :
                            out'[j].role = "assistant" /\ Calls(out'[j], id)
    BY DEF ClaimsAreTrue, Calls
  <2>1. CASE id \in announced
    BY <1>1, <2>1 DEF IInv, ClaimsAreTrue, Calls
  <2>2. CASE id \in Parents!CalledBy(message) \ {NoId}
    BY <1>1, <2>2 DEF Parents!CalledBy, Calls
  <2>3. QED
    BY <2>1, <2>2 DEF Parents!KeepAssistant
<1>3. ToolsHaveParents'
  <2> SUFFICES ASSUME NEW k \in 1..Len(out'), out'[k].role = "tool"
               PROVE  HasParent(k)'
    BY DEF ToolsHaveParents, HasParent, Calls
  <2>1. QED
    BY <1>1, StillThere DEF IInv
<1>4. QED
  BY <1>1, <1>2, <1>3 DEF IInv

\* A result that nothing has called gets its parent right before it.
LEMMA Adopted ==
    ASSUME IInv, NEW message, message.role = "tool",
           out' = out \o <<Parents!Parent(message.id), message>>,
           announced' = announced \cup ({message.id} \ {NoId})
    PROVE  IInv'
<1> DEFINE parent == Parents!Parent(message.id)
<1>1. parent.role = "assistant" /\ Calls(parent, message.id)
  BY DEF Parents!Parent, Parents!Assistant, Parents!ToolCall, Calls
<1>2. /\ IsSequence(out') /\ Len(out) \in Nat /\ Len(out') = Len(out) + 2
      /\ \A i \in 1..Len(out) : out'[i] = out[i]
      /\ out'[Len(out) + 1] = parent
      /\ out'[Len(out) + 2] = message
  BY AppendedBoth DEF IInv
<1> HIDE DEF parent
<1>3. ClaimsAreTrue'
  <2> SUFFICES ASSUME NEW id \in announced'
               PROVE  /\ id # NoId
                      /\ \E j \in 1..Len(out') :
                            out'[j].role = "assistant" /\ Calls(out'[j], id)
    BY DEF ClaimsAreTrue, Calls
  <2>1. CASE id \in announced
    BY <1>2, <2>1 DEF IInv, ClaimsAreTrue, Calls
  <2>2. CASE id = message.id /\ id # NoId
    BY <1>1, <1>2, <2>2
  <2>3. QED
    BY <2>1, <2>2
<1>4. ToolsHaveParents'
  <2> SUFFICES ASSUME NEW k \in 1..Len(out'), out'[k].role = "tool"
               PROVE  HasParent(k)'
    BY DEF ToolsHaveParents, HasParent, Calls
  <2>1. CASE k \in 1..Len(out)
    BY <1>2, <2>1, StillThere DEF IInv
  <2>2. CASE k = Len(out) + 2
    BY <1>1, <1>2, <2>2 DEF HasParent, Calls
  <2>3. QED
    BY <1>1, <1>2, <2>1, <2>2
<1>5. QED
  BY <1>2, <1>3, <1>4 DEF IInv

-----------------------------------------------------------------------------
\* Nothing goes out yet.
LEMMA InitIInv == Init => IInv
<1> SUFFICES ASSUME Init PROVE IInv
  OBVIOUS
<1>1. out = <<>> /\ announced = {} /\ Len(out) = 0
  BY EmptySeq DEF Init
<1>2. IsSequence(out)
  BY <1>1, EmptySeq DEF IsSequence
<1>3. QED
  BY <1>1, <1>2 DEF IInv, ClaimsAreTrue, ToolsHaveParents

\* Only the four actions of the loop touch the invariant.
LEMMA NextIInv == IInv /\ [Next]_vars => IInv'
<1> SUFFICES ASSUME IInv, [Next]_vars PROVE IInv'
  OBVIOUS
<1>1. ASSUME UNCHANGED <<out, announced>> PROVE IInv'
  BY <1>1 DEF IInv, ClaimsAreTrue, ToolsHaveParents, Calls
<1>2. CASE Say \/ ReturnResults \/ Send
  BY <1>1, <1>2 DEF Say, ReturnResults, Send
<1>3. CASE Parse
  BY <1>1, <1>3 DEF Parse
<1>4. CASE Parsed
  BY <1>4, EmptySeq DEF Parsed, Parents!Begin, IsSequence, IInv, ClaimsAreTrue, ToolsHaveParents
<1>5. CASE Normalize
  <2> DEFINE message == messages[at]
  <2>1. Parents!Normalize(message)
    BY <1>5 DEF Normalize
  <2> HIDE DEF message
  <2>2. CASE Parents!KeepAssistant(message)
    BY <2>2, Announced
  <2>3. CASE Parents!KeepUser(message)
    BY <2>3, PutOut DEF Parents!KeepUser
  <2>4. CASE Parents!PlaceTool(message)
    BY <2>4, PutOut, Adopted DEF Parents!PlaceTool
  <2>5. QED
    BY <2>1, <2>2, <2>3, <2>4 DEF Parents!Normalize
<1>6. CASE Dispatch
  BY <1>1, <1>6 DEF Dispatch
<1>7. CASE Respond \/ Fail
  BY <1>1, <1>7 DEF Respond, Fail
<1>8. CASE Over \/ UNCHANGED vars
  BY <1>1, <1>8 DEF Over, vars
<1>9. QED
  BY <1>2, <1>3, <1>4, <1>5, <1>6, <1>7, <1>8 DEF Next

\* What was claimed is called, and only messages behind others are put out:
\* the invariant of normalize_tool_parents, through all requests.
THEOREM Invariance == Spec => []IInv
  BY InitIInv, NextIInv, PTL DEF Spec

\* In every request, of any client and at any point of building it, every tool
\* result has an assistant message before it that calls it, and one with an
\* empty id has its own (normalize_tool_parents).
THEOREM EveryResultHasItsCall == Spec => []ToolsHaveParents
<1>1. IInv => ToolsHaveParents
  BY DEF IInv
<1>2. QED
  BY <1>1, Invariance, PTL

-----------------------------------------------------------------------------
\* What the parsers read out of a message is of its type.

Named(pieces) ==
    \A i \in 1..Len(pieces) : pieces[i].kind \in {"call", "output"} => pieces[i].id \in CallId

\* What is picked keeps its type, and has what it was picked for.
LEMMA PiecesTyped ==
    ASSUME NEW pieces \in Seq(HistoryPiece), NEW S
    PROVE  /\ Among(pieces, S) \in Seq(HistoryPiece)
           /\ Len(Among(pieces, S)) \in Nat
           /\ \A i \in 1..Len(Among(pieces, S)) :
                 Among(pieces, S)[i] \in HistoryPiece /\ Among(pieces, S)[i] \in S
<1> DEFINE picked == Among(pieces, S)
<1>1. picked \in Seq(HistoryPiece \cap S)
  BY AmongTyped
<1> HIDE DEF picked
<1>2. Len(picked) \in Nat /\ \A i \in 1..Len(picked) : picked[i] \in HistoryPiece \cap S
  BY <1>1, LenProperties, ElementOfSeq
<1>3. QED
  BY <1>1, <1>2, LenProperties DEF picked

\* Pieces joined are a text.
LEMMA JoinedTyped ==
    ASSUME NEW pieces \in Seq(HistoryPiece)
    PROVE  Joined(pieces) \in Seq(Nat)
<1> DEFINE texts == [i \in 1..Len(pieces) |-> pieces[i].text]
<1>1. Len(pieces) \in Nat /\ \A i \in 1..Len(pieces) : pieces[i] \in HistoryPiece
  BY LenProperties, ElementOfSeq
<1>2. texts \in Seq(Seq(Nat))
  BY <1>1 DEF HistoryPiece
<1> HIDE DEF texts
<1>3. QED
  BY <1>2, FlattenTyped DEF Joined, texts

\* So are those of one kind.
LEMMA TextTyped ==
    ASSUME NEW pieces \in Seq(HistoryPiece)
    PROVE  TextOf(pieces) \in Seq(Nat)
  BY JoinedTyped, PiecesTyped DEF TextOf, OfKind

\* Calls and results have ids.
LEMMA NamedTyped ==
    ASSUME NEW pieces \in Seq(HistoryPiece), Named(pieces), NEW kind \in {"call", "output"}
    PROVE  /\ Len(OfKind(pieces, kind)) \in Nat
           /\ \A i \in 1..Len(OfKind(pieces, kind)) :
                 OfKind(pieces, kind)[i].id \in CallId /\ OfKind(pieces, kind)[i].text \in Seq(Nat)
<1> DEFINE S == {p \in ToSet(pieces) : p.kind = kind}
           picked == Among(pieces, S)
<1>1. /\ Len(picked) \in Nat
      /\ \A i \in 1..Len(picked) : picked[i] \in HistoryPiece /\ picked[i] \in S
  BY PiecesTyped
<1>2. \A p \in S : p.id \in CallId
  BY LenProperties DEF Named, ToSet
<1>3. \A p \in HistoryPiece : p.text \in Seq(Nat)
  BY DEF HistoryPiece
<1> HIDE DEF S, picked
<1>4. QED
  BY <1>1, <1>2, <1>3 DEF OfKind, picked, S

\* So calls are calls.
LEMMA CallsTyped ==
    ASSUME NEW pieces \in Seq(HistoryPiece), Named(pieces)
    PROVE  ToolCalls(pieces) \in Seq(CanonicalCall)
<1> DEFINE picked == OfKind(pieces, "call")
           made == [i \in 1..Len(picked) |-> ToolCall(picked[i].id, picked[i].text)]
<1>1. Len(picked) \in Nat /\ \A i \in 1..Len(picked) : picked[i].id \in CallId /\ picked[i].text \in Seq(Nat)
  BY NamedTyped
<1>2. ToolCalls(pieces) = made
  BY DEF ToolCalls
<1> HIDE DEF picked
<1>3. made \in Seq(CanonicalCall)
  BY <1>1 DEF ToolCall, CanonicalCall
<1>4. QED
  BY <1>2, <1>3

\* What the constructors make is a canonical message.
LEMMA MessagesTyped ==
    /\ \A t \in Seq(Nat) : User(t) \in CanonicalMessage /\ User(t).role = "user"
    /\ \A t \in Seq(Nat) \cup {None} : \A r \in Seq(Nat) \cup {None} : \A c \in Seq(CanonicalCall) :
          Assistant(t, r, c) \in CanonicalMessage /\ Assistant(t, r, c).role = "assistant"
    /\ \A i \in CallId : \A t \in Seq(Nat) :
          Tool(i, t) \in CanonicalMessage /\ Tool(i, t).role = "tool"
<1>1. <<>> \in Seq(CanonicalCall)
  BY EmptySeq
<1>2. QED
  BY <1>1 DEF User, Assistant, Tool, CanonicalMessage

-----------------------------------------------------------------------------
\* The parsers as functions: what each makes of its state and of a message.

State(ms, pending) == [messages |-> ms, pending |-> pending]

ParserState == [messages : Seq(CanonicalMessage), pending : Seq(Nat) \cup {None}]

AnswersOpenTurn(s) == s.messages # <<>> /\ Last(s.messages).role = "assistant"

WithCalls(turn, pending, calls) ==
    Assistant(turn.text, IF turn.reasoning = None THEN pending ELSE turn.reasoning, turn.calls \o calls)

AfterCall(s, pieces) ==
    IF AnswersOpenTurn(s)
    THEN State([s.messages EXCEPT ![Len(s.messages)] =
                    WithCalls(Last(s.messages), s.pending, ToolCalls(pieces))],
               IF Last(s.messages).reasoning = None THEN None ELSE s.pending)
    ELSE State(Append(s.messages, Assistant(None, s.pending, ToolCalls(pieces))), None)

AfterText(s, item) ==
    IF item.role = "system" THEN s
    ELSE State(Append(s.messages,
                      IF item.role = "assistant" THEN Assistant(TextOf(item.pieces), s.pending, <<>>)
                      ELSE User(TextOf(item.pieces))),
               None)

AfterItem(s, item) ==
    LET piece == item.pieces[1]
    IN  IF piece.kind = "text" THEN AfterText(s, item)
        ELSE IF piece.kind = "call" THEN AfterCall(s, item.pieces)
        ELSE IF piece.kind = "output" THEN State(Append(s.messages, Tool(piece.id, piece.text)), None)
        ELSE IF piece.kind = "reasoning" /\ piece.text # <<>> THEN State(s.messages, piece.text)
        ELSE s

AnthropicAdds(message) ==
    IF message.role = "user"
    THEN Anthropic!ToolResults(message.pieces) \o Anthropic!UserText(message.pieces)
    ELSE IF message.role = "assistant"
    THEN <<Assistant(Anthropic!AssistantText(message.pieces),
                     Anthropic!Thinking(message.pieces), ToolCalls(message.pieces))>>
    ELSE <<>>

ChatAdds(message) ==
    IF message.role = "tool" THEN <<Tool(message.pieces[1].id, Chat!Content(message))>>
    ELSE IF message.role = "assistant"
    THEN <<Assistant(IF Chat!Content(message) = <<>> THEN None ELSE Chat!Content(message),
                     Chat!ReasoningContent(message), ToolCalls(message.pieces))>>
    ELSE IF message.role = "user" THEN <<User(Chat!Content(message))>>
    ELSE <<>>

After(d, s, message) ==
    IF d = "responses" THEN AfterItem(s, message)
    ELSE IF d = "anthropic" THEN State(s.messages \o AnthropicAdds(message), s.pending)
    ELSE State(s.messages \o ChatAdds(message), s.pending)

\* What a parser adds is put behind, or into the assistant message at the end.
Continued(ms, more) ==
    \/ Extends(ms, more)
    \/ /\ ms # <<>> /\ Len(more) = Len(ms)
       /\ \A i \in 1..(Len(ms) - 1) : more[i] = ms[i]
       /\ ms[Len(ms)].role = "assistant"

\* No later message changes these.
Settled(ms) == ms # <<>> => ms[Len(ms)].role # "assistant"

-----------------------------------------------------------------------------
\* A turn that takes calls.
LEMMA CallsJoin ==
    ASSUME NEW s \in ParserState, NEW calls \in Seq(CanonicalCall), AnswersOpenTurn(s)
    PROVE  LET turn == WithCalls(Last(s.messages), s.pending, calls)
               t == [s.messages EXCEPT ![Len(s.messages)] = turn]
           IN  /\ turn \in CanonicalMessage
               /\ t \in Seq(CanonicalMessage)
               /\ Continued(s.messages, t)
<1> DEFINE ms == s.messages
           turn == WithCalls(Last(ms), s.pending, calls)
           t == [ms EXCEPT ![Len(ms)] = turn]
<1>1. ms \in Seq(CanonicalMessage) /\ s.pending \in Seq(Nat) \cup {None}
  BY DEF ParserState
<1>2. ms # <<>> /\ Last(ms).role = "assistant"
  BY DEF AnswersOpenTurn
<1> HIDE DEF ms
<1>3. Len(ms) \in Nat /\ Len(ms) # 0 /\ DOMAIN ms = 1..Len(ms) /\ \A i \in 1..Len(ms) : ms[i] \in CanonicalMessage
  BY <1>1, <1>2, LenProperties, ElementOfSeq, EmptySeq
<1>4. Last(ms) \in CanonicalMessage /\ Last(ms) = ms[Len(ms)]
  BY <1>3 DEF Last
<1>5. turn \in CanonicalMessage
  <2> DEFINE last == Last(ms)
  <2>1. /\ last.text \in Seq(Nat) \cup {None} /\ last.reasoning \in Seq(Nat) \cup {None}
        /\ last.calls \in Seq(CanonicalCall)
    BY <1>4 DEF CanonicalMessage
  <2> HIDE DEF last
  <2>2. (IF last.reasoning = None THEN s.pending ELSE last.reasoning) \in Seq(Nat) \cup {None}
    BY <1>1, <2>1
  <2>3. WithCalls(last, s.pending, calls) \in CanonicalMessage
    BY <2>1, <2>2, MessagesTyped, ConcatProperties DEF WithCalls
  <2>4. QED
    BY <2>3 DEF last
<1> HIDE DEF turn
<1>6. \A i \in 1..Len(ms) : t[i] = IF i = Len(ms) THEN turn ELSE ms[i]
  BY <1>3
<1>7. t \in Seq(CanonicalMessage) /\ Len(t) = Len(ms)
  <2>1. t = [i \in 1..Len(ms) |-> IF i = Len(ms) THEN turn ELSE ms[i]]
    BY <1>3
  <2>2. \A i \in 1..Len(ms) : (IF i = Len(ms) THEN turn ELSE ms[i]) \in CanonicalMessage
    BY <1>3, <1>5
  <2> DEFINE e(i) == IF i = Len(ms) THEN turn ELSE ms[i]
  <2>3. Len(ms) \in Nat /\ \A i \in 1..Len(ms) : e(i) \in CanonicalMessage
    BY <1>3, <2>2
  <2>4. t = [i \in 1..Len(ms) |-> e(i)]
    BY <2>1
  <2> HIDE DEF t, e
  <2>5. QED
    BY <2>3, <2>4
<1>8. Continued(ms, t)
  <2>1. \A i \in 1..(Len(ms) - 1) : t[i] = ms[i]
    <3>1. Len(ms) \in Nat
      BY <1>3
    <3>2. \A i \in 1..(Len(ms) - 1) : i \in 1..Len(ms) /\ i # Len(ms)
      BY <3>1
    <3> HIDE DEF t
    <3>3. QED
      BY <1>6, <3>2
  <2> HIDE DEF t
  <2>2. QED
    BY <1>2, <1>4, <1>7, <2>1 DEF Continued
<1>9. QED
  BY <1>5, <1>7, <1>8 DEF turn, ms

\* One more message.
LEMMA Pushed ==
    ASSUME NEW s \in ParserState, NEW message \in CanonicalMessage
    PROVE  /\ State(Append(s.messages, message), None) \in ParserState
           /\ Continued(s.messages, Append(s.messages, message))
           /\ Len(Append(s.messages, message)) = Len(s.messages) + 1
           /\ Append(s.messages, message)[Len(s.messages) + 1] = message
           /\ Append(s.messages, message) # <<>>
<1> DEFINE ms == s.messages
           t == Append(ms, message)
<1>1. ms \in Seq(CanonicalMessage)
  BY DEF ParserState
<1> HIDE DEF ms
<1>2. t \in Seq(CanonicalMessage) /\ Len(t) = Len(ms) + 1 /\ t[Len(ms) + 1] = message /\ Len(ms) \in Nat
  BY <1>1, AppendProperties, LenProperties
<1>3. Extends(ms, t)
  BY <1>1, ExtendedByOne
<1> HIDE DEF t
<1>4. State(t, None) \in ParserState
  BY <1>2 DEF State, ParserState
<1>5. QED
  BY <1>2, <1>3, <1>4, EmptySeq DEF t, ms, Continued

\* Several, or none.
LEMMA PushedAll ==
    ASSUME NEW s \in ParserState, NEW more \in Seq(CanonicalMessage)
    PROVE  /\ State(s.messages \o more, s.pending) \in ParserState
           /\ Extends(s.messages, s.messages \o more)
<1> DEFINE ms == s.messages
           t == ms \o more
<1>1. ms \in Seq(CanonicalMessage) /\ s.pending \in Seq(Nat) \cup {None}
  BY DEF ParserState
<1> HIDE DEF ms
<1>2. t \in Seq(CanonicalMessage)
  BY <1>1, ConcatProperties
<1>3. Extends(ms, t)
  BY <1>1, ExtendedByMore
<1> HIDE DEF t
<1>4. State(t, s.pending) \in ParserState
  BY <1>1, <1>2 DEF State, ParserState
<1>5. QED
  BY <1>3, <1>4 DEF t, ms

\* What a message of each dialect can hold.
LEMMA Uttered ==
    ASSUME NEW d, NEW m \in Utterable(d)
    PROVE  /\ m.role \in {"user", "assistant", "tool", "system"}
           /\ m.pieces \in Seq(HistoryPiece) /\ Named(m.pieces)
           /\ d = "responses" =>
                 /\ m.pieces[1] \in HistoryPiece
                 /\ m.pieces[1].kind = "output" => m.pieces[1].id \in CallId
                 /\ m.role = "tool" <=> m.pieces[1].kind = "output"
                 /\ m.pieces[1].kind \in {"call", "reasoning", "other"} => m.role = "assistant"
           /\ d = "anthropic" => m.role # "tool"
           /\ d = "chat" /\ m.role = "tool" => m.pieces[1].id \in CallId
<1>1. m.role \in {"user", "assistant", "tool", "system"} /\ m.pieces \in Seq(HistoryPiece)
  BY DEF HistoryMessage, Utterable
<1>2. Named(m.pieces)
  BY DEF Utterable, Named
<1>3. /\ d = "responses" =>
            /\ Len(m.pieces) = 1
            /\ m.role = "tool" <=> m.pieces[1].kind = "output"
            /\ m.pieces[1].kind \in {"call", "reasoning", "other"} => m.role = "assistant"
      /\ d = "anthropic" => m.role # "tool"
      /\ d = "chat" /\ m.role = "tool" => Len(m.pieces) = 1 /\ m.pieces[1].kind = "output"
  BY DEF Utterable
<1> DEFINE pieces == m.pieces
<1>4. Len(pieces) = 1 => pieces[1] \in HistoryPiece /\ (pieces[1].kind = "output" => pieces[1].id \in CallId)
  <2>1. pieces \in Seq(HistoryPiece) /\ Named(pieces)
    BY <1>1, <1>2
  <2> HIDE DEF pieces
  <2>2. Len(pieces) = 1 => 1 \in 1..Len(pieces)
    OBVIOUS
  <2>3. QED
    BY <2>1, <2>2, ElementOfSeq DEF Named
<1>5. QED
  BY <1>1, <1>2, <1>3, <1>4

-----------------------------------------------------------------------------
\* The modules of the dialects read messages with the same operators.

\* Those of AnthropicRequest.
LEMMA AnthropicReads ==
    /\ \A s, S : Anthropic!Among(s, S) = Among(s, S)
    /\ \A s, k : Anthropic!OfKind(s, k) = OfKind(s, k)
    /\ \A s : Anthropic!TextOf(s) = TextOf(s)
    /\ \A s : Anthropic!ToolCalls(s) = ToolCalls(s)
    /\ \A t, r, c : Anthropic!Assistant(t, r, c) = Assistant(t, r, c)
    /\ \A t : Anthropic!User(t) = User(t)
    /\ \A i, t : Anthropic!Tool(i, t) = Tool(i, t)
<1>1. \A s, S : Anthropic!Among(s, S) = Among(s, S)
  BY DEF Anthropic!Among, Among
<1>2. \A s, k : Anthropic!OfKind(s, k) = OfKind(s, k)
  BY <1>1 DEF Anthropic!OfKind, OfKind, Anthropic!ToSet, ToSet
<1>3. \A s : Anthropic!FlattenSeq(s) = FlattenSeq(s)
  BY DEF Anthropic!FlattenSeq, FlattenSeq
<1>4. \A s : Anthropic!TextOf(s) = TextOf(s)
  BY <1>2, <1>3 DEF Anthropic!TextOf, TextOf, Anthropic!Joined, Joined
<1>5. \A s : Anthropic!ToolCalls(s) = ToolCalls(s)
  BY <1>2 DEF Anthropic!ToolCalls, ToolCalls, Anthropic!ToolCall, ToolCall
<1>6. \A t, r, c : Anthropic!Assistant(t, r, c) = Assistant(t, r, c)
  BY DEF Anthropic!Assistant, Assistant
<1>7. \A t : Anthropic!User(t) = User(t)
  BY DEF Anthropic!User, User
<1>8. \A i, t : Anthropic!Tool(i, t) = Tool(i, t)
  BY DEF Anthropic!Tool, Tool
<1>9. QED
  BY <1>1, <1>2, <1>4, <1>5, <1>6, <1>7, <1>8

\* Those of ChatRequest.
LEMMA ChatReads ==
    /\ \A s, S : Chat!Among(s, S) = Among(s, S)
    /\ \A s : Chat!Joined(s) = Joined(s)
    /\ \A s : Chat!ToolCalls(s) = ToolCalls(s)
    /\ \A t, r, c : Chat!Assistant(t, r, c) = Assistant(t, r, c)
    /\ \A t : Chat!User(t) = User(t)
    /\ \A i, t : Chat!Tool(i, t) = Tool(i, t)
<1>1. \A s, S : Chat!Among(s, S) = Among(s, S)
  BY DEF Chat!Among, Among
<1>2. \A s, k : Chat!OfKind(s, k) = OfKind(s, k)
  BY <1>1 DEF Chat!OfKind, OfKind, Chat!ToSet, ToSet
<1>3. \A s : Chat!FlattenSeq(s) = FlattenSeq(s)
  BY DEF Chat!FlattenSeq, FlattenSeq
<1>4. \A s : Chat!Joined(s) = Joined(s)
  BY <1>3 DEF Chat!Joined, Joined
<1>5. \A s : Chat!ToolCalls(s) = ToolCalls(s)
  BY <1>2 DEF Chat!ToolCalls, ToolCalls, Chat!ToolCall, ToolCall
<1>6. \A t : Chat!User(t) = User(t)
  BY DEF Chat!User, User
<1>7. \A i, t : Chat!Tool(i, t) = Tool(i, t)
  BY DEF Chat!Tool, Tool
<1>8. QED
  BY <1>1, <1>4, <1>5, <1>6, <1>7 DEF Chat!Assistant, Assistant

\* Those of ResponsesRequest.
LEMMA ResponsesReads ==
    /\ \A s : Responses!TextOf(s) = TextOf(s)
    /\ \A s : Responses!ToolCalls(s) = ToolCalls(s)
    /\ \A t, r, c : Responses!Assistant(t, r, c) = Assistant(t, r, c)
    /\ \A t : Responses!User(t) = User(t)
    /\ \A i, t : Responses!Tool(i, t) = Tool(i, t)
    /\ \A s : Responses!Last(s) = Last(s)
<1>1. \A s, S : Responses!Among(s, S) = Among(s, S)
  BY DEF Responses!Among, Among
<1>2. \A s, k : Responses!OfKind(s, k) = OfKind(s, k)
  BY <1>1 DEF Responses!OfKind, OfKind, Responses!ToSet, ToSet
<1>3. \A s : Responses!FlattenSeq(s) = FlattenSeq(s)
  BY DEF Responses!FlattenSeq, FlattenSeq
<1>4. \A s : Responses!TextOf(s) = TextOf(s)
  BY <1>2, <1>3 DEF Responses!TextOf, TextOf, Responses!Joined, Joined
<1>5. \A s : Responses!ToolCalls(s) = ToolCalls(s)
  BY <1>2 DEF Responses!ToolCalls, ToolCalls, Responses!ToolCall, ToolCall
<1>6. \A t : Responses!User(t) = User(t)
  BY DEF Responses!User, User
<1>7. \A i, t : Responses!Tool(i, t) = Tool(i, t)
  BY DEF Responses!Tool, Tool
<1>8. \A s : Responses!Last(s) = Last(s)
  BY DEF Responses!Last, Last
<1>9. QED
  BY <1>4, <1>5, <1>6, <1>7, <1>8 DEF Responses!Assistant, Assistant

-----------------------------------------------------------------------------
\* What the Anthropic and Chat parsers add.

\* Blocks make messages (parse_message).
LEMMA AnthropicParts ==
    ASSUME NEW m \in Utterable("anthropic")
    PROVE  /\ Anthropic!ToolResults(m.pieces) \in Seq(CanonicalMessage)
           /\ Anthropic!UserText(m.pieces) \in Seq(CanonicalMessage)
           /\ Assistant(Anthropic!AssistantText(m.pieces), Anthropic!Thinking(m.pieces), ToolCalls(m.pieces))
                  \in CanonicalMessage
<1> DEFINE blocks == m.pieces
<1>1. blocks \in Seq(HistoryPiece) /\ Named(blocks)
  BY Uttered
<1> HIDE DEF blocks
<1>2. TextOf(blocks) \in Seq(Nat) /\ ToolCalls(blocks) \in Seq(CanonicalCall)
  BY <1>1, TextTyped, CallsTyped
<1>3. <<>> \in Seq(CanonicalMessage) /\ <<>> \in Seq(Nat)
  BY EmptySeq
<1>4. Anthropic!ToolResults(blocks) \in Seq(CanonicalMessage)
  <2> DEFINE results == OfKind(blocks, "output")
  <2>1. /\ Len(results) \in Nat
        /\ \A i \in 1..Len(results) : results[i].id \in CallId /\ results[i].text \in Seq(Nat)
    BY <1>1, NamedTyped
  <2>2. Anthropic!ToolResults(blocks) = [i \in 1..Len(results) |-> Tool(results[i].id, results[i].text)]
    BY AnthropicReads DEF Anthropic!ToolResults
  <2> HIDE DEF results
  <2>3. [i \in 1..Len(results) |-> Tool(results[i].id, results[i].text)] \in Seq(CanonicalMessage)
    BY <2>1, MessagesTyped
  <2>4. QED
    BY <2>2, <2>3
<1>5. Anthropic!UserText(blocks) \in Seq(CanonicalMessage)
  BY <1>2, <1>3, MessagesTyped, AnthropicReads DEF Anthropic!UserText
<1>6. Anthropic!Thinking(blocks) \in Seq(Nat) \cup {None}
  <2> DEFINE thoughts == Among(blocks, {p \in ToSet(blocks) : p.kind = "reasoning" /\ p.text # <<>>})
  <2>1. /\ Len(thoughts) \in Nat /\ thoughts \in Seq(HistoryPiece)
        /\ \A i \in 1..Len(thoughts) : thoughts[i] \in HistoryPiece
    BY <1>1, PiecesTyped
  <2>2. Anthropic!Thinking(blocks) = IF thoughts = <<>> THEN None ELSE Last(thoughts).text
    BY AnthropicReads DEF Anthropic!Thinking, Anthropic!ToSet, ToSet, Anthropic!Last, Last
  <2> HIDE DEF thoughts
  <2>3. \A p \in HistoryPiece : p.text \in Seq(Nat)
    BY DEF HistoryPiece
  <2>4. QED
    BY <2>1, <2>2, <2>3, EmptySeq DEF Last
<1>7. Assistant(Anthropic!AssistantText(blocks), Anthropic!Thinking(blocks), ToolCalls(blocks))
          \in CanonicalMessage
  BY <1>2, <1>3, <1>6, MessagesTyped, AnthropicReads DEF Anthropic!AssistantText
<1>8. QED
  BY <1>4, <1>5, <1>7 DEF blocks

\* So does an Anthropic message.
LEMMA AnthropicTyped ==
    ASSUME NEW m \in Utterable("anthropic")
    PROVE  AnthropicAdds(m) \in Seq(CanonicalMessage)
<1>1. <<Assistant(Anthropic!AssistantText(m.pieces), Anthropic!Thinking(m.pieces), ToolCalls(m.pieces))>>
          \in Seq(CanonicalMessage)
  BY AnthropicParts
<1>2. <<>> \in Seq(CanonicalMessage)
  BY EmptySeq
<1>3. QED
  BY <1>1, <1>2, AnthropicParts, ConcatProperties DEF AnthropicAdds

\* So does a Chat message (parse_request).
LEMMA ChatTyped ==
    ASSUME NEW m \in Utterable("chat")
    PROVE  ChatAdds(m) \in Seq(CanonicalMessage)
<1> DEFINE pieces == m.pieces
<1>1. pieces \in Seq(HistoryPiece) /\ Named(pieces) /\ (m.role = "tool" => pieces[1].id \in CallId)
  BY Uttered
<1>2. Chat!Content(m) \in Seq(Nat)
  <2>1. Chat!Content(m) = Joined(Among(pieces, {p \in Chat!ToSet(pieces) :
                              p.kind \in {"text", "output"} /\ p.form = "string"}))
    BY ChatReads DEF Chat!Content
  <2> HIDE DEF pieces
  <2>2. QED
    BY <1>1, <2>1, PiecesTyped, JoinedTyped
<1>3. Chat!ReasoningContent(m) \in Seq(Nat) \cup {None}
  <2> DEFINE reasoning == Among(pieces, {p \in Chat!ToSet(pieces) :
                              p.kind = "reasoning" /\ p.form = "reasoning_content"})
  <2>1. Chat!ReasoningContent(m) = IF reasoning = <<>> THEN None ELSE Joined(reasoning)
    BY ChatReads DEF Chat!ReasoningContent
  <2> HIDE DEF pieces
  <2>2. QED
    BY <1>1, <2>1, PiecesTyped, JoinedTyped
<1>4. m.role = "tool" => Tool(pieces[1].id, Chat!Content(m)) \in CanonicalMessage
  BY <1>1, <1>2, MessagesTyped
<1>5. Assistant(IF Chat!Content(m) = <<>> THEN None ELSE Chat!Content(m),
                Chat!ReasoningContent(m), ToolCalls(pieces)) \in CanonicalMessage
  BY <1>1, <1>2, <1>3, MessagesTyped, CallsTyped
<1>6. <<>> \in Seq(CanonicalMessage) /\ \A e \in CanonicalMessage : <<e>> \in Seq(CanonicalMessage)
  BY EmptySeq
<1>7. QED
  BY <1>2, <1>4, <1>5, <1>6, MessagesTyped DEF ChatAdds

\* The parts of a parser's state.
LEMMA StateParts ==
    /\ \A ms, p : State(ms, p).messages = ms /\ State(ms, p).pending = p
    /\ \A s \in ParserState : /\ s.messages \in Seq(CanonicalMessage)
                              /\ s.pending \in Seq(Nat) \cup {None}
                              /\ s = State(s.messages, s.pending)
    /\ \A ms \in Seq(CanonicalMessage) : \A p \in Seq(Nat) \cup {None} : State(ms, p) \in ParserState
BY DEF State, ParserState

\* One item of a Responses request.
LEMMA AfterItemTyped ==
    ASSUME NEW s \in ParserState, NEW item \in Utterable("responses")
    PROVE  /\ AfterItem(s, item) \in ParserState
           /\ Continued(s.messages, AfterItem(s, item).messages)
           /\ item.role \in {"user", "tool"} => Settled(AfterItem(s, item).messages)
<1> DEFINE piece == item.pieces[1]
           after == AfterItem(s, item)
<1>1. /\ item.pieces \in Seq(HistoryPiece) /\ Named(item.pieces)
      /\ piece.text \in Seq(Nat)
      /\ piece.kind = "output" => piece.id \in CallId
      /\ item.role = "tool" <=> piece.kind = "output"
      /\ piece.kind \in {"call", "reasoning", "other"} => item.role = "assistant"
      /\ item.role \in {"user", "assistant", "tool", "system"}
      /\ piece.kind \in {"text", "reasoning", "call", "output", "other"}
  BY Uttered DEF HistoryPiece, PieceKind
<1>2. /\ s.messages \in Seq(CanonicalMessage) /\ s.pending \in Seq(Nat) \cup {None}
      /\ TextOf(item.pieces) \in Seq(Nat) /\ ToolCalls(item.pieces) \in Seq(CanonicalCall)
      /\ <<>> \in Seq(CanonicalCall)
  BY <1>1, StateParts, TextTyped, CallsTyped, EmptySeq
<1>3. Continued(s.messages, s.messages)
  BY <1>2, ExtendedByMore DEF Continued
<1> DEFINE Fits == {message \in CanonicalMessage :
                        message.role = "assistant" => item.role \notin {"user", "tool"}}
           Pushes == {State(Append(s.messages, message), None) : message \in Fits}
<1>4. ASSUME after \in Pushes
      PROVE  /\ after \in ParserState
             /\ Continued(s.messages, after.messages)
             /\ item.role \in {"user", "tool"} => Settled(after.messages)
  <2>1. PICK message \in Fits : after = State(Append(s.messages, message), None)
    BY <1>4
  <2> DEFINE t == Append(s.messages, message)
  <2>2. /\ State(t, None) \in ParserState /\ Continued(s.messages, t)
        /\ Len(t) = Len(s.messages) + 1 /\ t[Len(s.messages) + 1] = message
    BY Pushed
  <2>3. after.messages = t
    BY <2>1, StateParts
  <2> HIDE DEF t, after
  <2>4. QED
    BY <2>1, <2>2, <2>3 DEF t, Settled
<1>4a. ASSUME NEW message \in Fits, after = State(Append(s.messages, message), None)
       PROVE  after \in Pushes
  BY <1>4a
<1> HIDE DEF Pushes
<1>5. CASE piece.kind = "text"
  <2>1. after = AfterText(s, item)
    BY <1>5 DEF AfterItem
  <2>2. CASE item.role = "system"
    BY <1>3, <2>1, <2>2 DEF AfterText
  <2>3. CASE item.role = "assistant"
    <3>1. after = State(Append(s.messages, Assistant(TextOf(item.pieces), s.pending, <<>>)), None)
      BY <2>1, <2>3 DEF AfterText
    <3>2. Assistant(TextOf(item.pieces), s.pending, <<>>) \in Fits
      BY <1>2, <2>3, MessagesTyped
    <3> HIDE DEF after, Fits
    <3>3. QED
      BY <1>4, <1>4a, <3>1, <3>2 DEF after
  <2>4. CASE item.role = "user"
    <3>1. after = State(Append(s.messages, User(TextOf(item.pieces))), None)
      BY <2>1, <2>4 DEF AfterText
    <3>2. User(TextOf(item.pieces)) \in Fits
      BY <1>1, <1>2, MessagesTyped
    <3> HIDE DEF after, Fits
    <3>3. QED
      BY <1>4, <1>4a, <3>1, <3>2 DEF after
  <2>5. QED
    BY <1>1, <1>5, <2>2, <2>3, <2>4
<1>6. CASE piece.kind = "call"
  <2>1. after = AfterCall(s, item.pieces) /\ item.role = "assistant"
    BY <1>1, <1>6 DEF AfterItem
  <2>2. CASE AnswersOpenTurn(s)
    <3> DEFINE t == [s.messages EXCEPT ![Len(s.messages)] =
                        WithCalls(Last(s.messages), s.pending, ToolCalls(item.pieces))]
               p == IF Last(s.messages).reasoning = None THEN None ELSE s.pending
    <3>1. after = State(t, p)
      BY <2>1, <2>2 DEF AfterCall
    <3>2. t \in Seq(CanonicalMessage) /\ Continued(s.messages, t)
      BY <1>2, <2>2, CallsJoin
    <3>3. p \in Seq(Nat) \cup {None}
      BY <1>2
    <3> HIDE DEF t, p, after
    <3>4. QED
      BY <2>1, <3>1, <3>2, <3>3, StateParts DEF after
  <2>3. CASE ~AnswersOpenTurn(s)
    <3>1. after = State(Append(s.messages, Assistant(None, s.pending, ToolCalls(item.pieces))), None)
      BY <2>1, <2>3 DEF AfterCall
    <3>2. Assistant(None, s.pending, ToolCalls(item.pieces)) \in Fits
      BY <1>2, <2>1, MessagesTyped
    <3> HIDE DEF after, Fits
    <3>3. QED
      BY <1>4, <1>4a, <3>1, <3>2 DEF after
  <2>4. QED
    BY <2>2, <2>3
<1>7. CASE piece.kind = "output"
  <2>1. after = State(Append(s.messages, Tool(piece.id, piece.text)), None)
    BY <1>7 DEF AfterItem
  <2>2. Tool(piece.id, piece.text) \in Fits
    BY <1>1, <1>7, MessagesTyped
  <2> HIDE DEF after, Fits
  <2>3. QED
    BY <1>4, <1>4a, <2>1, <2>2 DEF after
<1>8. CASE piece.kind = "reasoning"
  <2>1. after \in {State(s.messages, piece.text), s} /\ item.role = "assistant"
    BY <1>1, <1>8 DEF AfterItem
  <2>2. State(s.messages, piece.text) \in ParserState /\ State(s.messages, piece.text).messages = s.messages
    BY <1>1, <1>2, StateParts
  <2> HIDE DEF after
  <2>3. QED
    BY <1>3, <2>1, <2>2 DEF after
<1>9. CASE piece.kind = "other"
  BY <1>1, <1>3, <1>9 DEF AfterItem
<1>10. QED
  BY <1>1, <1>5, <1>6, <1>7, <1>8, <1>9

\* One message of any dialect.
LEMMA AfterTyped ==
    ASSUME NEW d \in Dialect, NEW s \in ParserState, NEW m \in Utterable(d)
    PROVE  /\ After(d, s, m) \in ParserState
           /\ Continued(s.messages, After(d, s, m).messages)
           /\ d # "responses" => Extends(s.messages, After(d, s, m).messages)
           /\ d = "responses" /\ m.role \in {"user", "tool"} => Settled(After(d, s, m).messages)
<1>1. CASE d = "responses"
  BY <1>1, AfterItemTyped DEF After
<1>2. ASSUME NEW more \in Seq(CanonicalMessage), d # "responses",
             After(d, s, m) = State(s.messages \o more, s.pending)
      PROVE  /\ After(d, s, m) \in ParserState
             /\ Continued(s.messages, After(d, s, m).messages)
             /\ d # "responses" => Extends(s.messages, After(d, s, m).messages)
  BY <1>2, PushedAll, StateParts DEF Continued
<1>3. CASE d = "anthropic"
  BY <1>2, <1>3, AnthropicTyped DEF After
<1>4. CASE d = "chat"
  BY <1>2, <1>4, ChatTyped DEF After
<1>5. QED
  BY <1>1, <1>3, <1>4 DEF Dialect

-----------------------------------------------------------------------------
\* What a parser makes of a history, and that it never takes it back.

Fresh == State(<<>>, None)

Parsing(d) == [p \in ParserState \X Utterable(d) |-> After(d, p[1], p[2])]

ParseOf(d) == CHOOSE F : IsFold(F, Utterable(d), ParserState, Fresh, Parsing(d))

\* One step of it.
LEMMA ParsingSteps ==
    ASSUME NEW d \in Dialect
    PROVE  /\ StepsWithin(Parsing(d), ParserState, Utterable(d))
           /\ \A s \in ParserState : \A m \in Utterable(d) : Parsing(d)[<<s, m>>] = After(d, s, m)
<1>1. ASSUME NEW s \in ParserState, NEW m \in Utterable(d)
      PROVE  Parsing(d)[<<s, m>>] = After(d, s, m) /\ After(d, s, m) \in ParserState
  BY AfterTyped DEF Parsing
<1>2. QED
  BY <1>1 DEF StepsWithin

\* So it can be followed message by message.
LEMMA ParseLaws ==
    ASSUME NEW d \in Dialect
    PROVE  /\ ParseOf(d)[<<>>] = Fresh
           /\ \A h \in Seq(Utterable(d)) : ParseOf(d)[h] \in ParserState
           /\ \A h \in Seq(Utterable(d)) : \A m \in Utterable(d) :
                 ParseOf(d)[Append(h, m)] = After(d, ParseOf(d)[h], m)
<1>1. \E F : IsFold(F, Utterable(d), ParserState, Fresh, Parsing(d))
  BY ParsingSteps, Folding, EmptySeq DEF Fresh, State, ParserState
<1>2. IsFold(ParseOf(d), Utterable(d), ParserState, Fresh, Parsing(d))
  BY <1>1 DEF ParseOf
<1> DEFINE P == ParseOf(d)
<1>3. P[<<>>] = Fresh /\ P \in [Seq(Utterable(d)) -> ParserState]
  BY <1>2 DEF IsFold
<1>4. \A h \in Seq(Utterable(d)) : \A m \in Utterable(d) : P[Append(h, m)] = Parsing(d)[<<P[h], m>>]
  BY <1>2 DEF IsFold
<1> HIDE DEF P
<1>5. \A h \in Seq(Utterable(d)) : P[h] \in ParserState
  BY <1>3
<1>6. \A h \in Seq(Utterable(d)) : \A m \in Utterable(d) : P[Append(h, m)] = After(d, P[h], m)
  BY <1>4, <1>5, ParsingSteps
<1>7. QED
  BY <1>3, <1>5, <1>6 DEF P

\* What is settled stays, whatever is put behind it or into the last message.
LEMMA SettledStays ==
    ASSUME NEW ms \in Seq(CanonicalMessage), NEW s \in Seq(CanonicalMessage), NEW t \in Seq(CanonicalMessage),
           Extends(ms, s), Continued(s, t), Settled(ms) \/ Extends(s, t)
    PROVE  Extends(ms, t)
<1>1. Len(ms) \in Nat /\ Len(s) \in Nat /\ Len(t) \in Nat
  BY LenProperties
<1>2. CASE Extends(s, t)
  BY <1>2, ExtendsFurther
<1>3. CASE ~Extends(s, t)
  <2>1. /\ s # <<>> /\ Len(t) = Len(s)
        /\ \A i \in 1..(Len(s) - 1) : t[i] = s[i]
        /\ s[Len(s)].role = "assistant" /\ Settled(ms)
    BY <1>3 DEF Continued
  <2>2. Len(s) # 0
    BY <2>1, EmptySeq
  <2>3. Len(ms) # Len(s)
    <3>1. SUFFICES ASSUME Len(ms) = Len(s) PROVE FALSE
      OBVIOUS
    <3>2. ms # <<>> /\ Len(ms) \in 1..Len(ms)
      BY <1>1, <2>2, <3>1, EmptySeq
    <3>3. QED
      BY <2>1, <3>1, <3>2 DEF Settled, Extends
  <2>4. QED
    BY <1>1, <2>1, <2>3 DEF Extends
<1>4. QED
  BY <1>2, <1>3

\* What was made of a history that the model was to answer is where any longer
\* one begins.
LEMMA ParseGrows ==
    ASSUME NEW d \in Dialect, NEW h \in Seq(Utterable(d)), NEW n \in 1..Len(h),
           h[n].role \in {"user", "tool"}
    PROVE  Extends(ParseOf(d)[SubSeq(h, 1, n)].messages, ParseOf(d)[h].messages)
<1> DEFINE made(k) == ParseOf(d)[SubSeq(h, 1, k)]
           T == {k \in Nat : n <= k /\ k <= Len(h) => Extends(made(n).messages, made(k).messages)}
<1>1. Len(h) \in Nat /\ n \in Nat /\ \A k \in 1..Len(h) : h[k] \in Utterable(d)
  BY LenProperties, ElementOfSeq
<1>2. \A k \in 0..Len(h) : made(k) \in ParserState /\ made(k).messages \in Seq(CanonicalMessage)
  BY UpTo, ParseLaws, StateParts
<1>3. \A k \in 1..Len(h) : made(k) = After(d, made(k - 1), h[k])
  <2> SUFFICES ASSUME NEW k \in 1..Len(h) PROVE made(k) = After(d, made(k - 1), h[k])
    OBVIOUS
  <2>1. k - 1 \in 0..Len(h) /\ h[k] \in Utterable(d)
    BY <1>1
  <2> DEFINE r == SubSeq(h, 1, k - 1)
  <2>2. r \in Seq(Utterable(d)) /\ SubSeq(h, 1, k) = Append(r, h[k])
    BY <2>1, UpTo
  <2> HIDE DEF r
  <2>3. QED
    BY <2>1, <2>2, ParseLaws, ZenonT(30) DEF r
<1>4. made(Len(h)) = ParseOf(d)[h] /\ made(n) = ParseOf(d)[SubSeq(h, 1, n)]
  BY UpTo
<1> HIDE DEF made
<1>5. d = "responses" => Settled(made(n).messages)
  <2>1. n - 1 \in 0..Len(h) /\ h[n] \in Utterable(d)
    BY <1>1
  <2>2. QED
    BY <1>2, <1>3, <2>1, AfterTyped
<1>6. n \in 0..Len(h) /\ Extends(made(n).messages, made(n).messages)
  BY <1>1, <1>2, ExtendedByMore
<1>7. 0 \in T
  BY <1>1
<1>8. ASSUME NEW k \in Nat, k \in T PROVE k + 1 \in T
  <2> SUFFICES ASSUME n <= k + 1, k + 1 <= Len(h) PROVE Extends(made(n).messages, made(k + 1).messages)
    OBVIOUS
  <2>1. CASE n = k + 1
    BY <1>6, <2>1
  <2>2. CASE n # k + 1
    <3>1. n <= k /\ k <= Len(h) /\ k \in 0..Len(h) /\ k + 1 \in 0..Len(h) /\ k + 1 \in 1..Len(h) /\ (k + 1) - 1 = k
      BY <1>1, <2>2
    <3>2. Extends(made(n).messages, made(k).messages)
      BY <1>8, <3>1
    <3>3. /\ made(n).messages \in Seq(CanonicalMessage) /\ made(k).messages \in Seq(CanonicalMessage)
          /\ made(k + 1).messages \in Seq(CanonicalMessage) /\ made(k) \in ParserState
      BY <1>2, <1>6, <3>1
    <3>4. /\ Continued(made(k).messages, made(k + 1).messages)
          /\ d # "responses" => Extends(made(k).messages, made(k + 1).messages)
      BY <1>1, <1>3, <3>1, <3>3, AfterTyped
    <3> HIDE DEF T
    <3>5. QED
      BY <1>5, <3>2, <3>3, <3>4, SettledStays
  <2>3. QED
    BY <2>1, <2>2
<1>9. Len(h) \in T
  <2> HIDE DEF T
  <2>1. QED
    BY <1>1, <1>7, <1>8, Induction
<1>10. QED
  BY <1>1, <1>4, <1>9

-----------------------------------------------------------------------------
\* normalize_tool_parents as a function: messages only go out behind others.

Outgoing(ms, claimed) == [out |-> ms, announced |-> claimed]

LoopState == [out : Seq(CanonicalMessage), announced : SUBSET CallId]

Idle == Outgoing(<<>>, {})

Placed(s, message) ==
    IF message.role = "assistant"
    THEN Outgoing(Append(s.out, message), s.announced \cup (Parents!CalledBy(message) \ {NoId}))
    ELSE IF message.role = "tool" /\ message.id \notin s.announced \ {NoId}
    THEN Outgoing(s.out \o <<Parents!Parent(message.id), message>>,
                  s.announced \cup ({message.id} \ {NoId}))
    ELSE Outgoing(Append(s.out, message), s.announced)

Placing == [p \in LoopState \X CanonicalMessage |-> Placed(p[1], p[2])]

NormalOf == CHOOSE F : IsFold(F, CanonicalMessage, LoopState, Idle, Placing)

\* The parts of the loop's state.
LEMMA LoopParts ==
    /\ \A ms, c : Outgoing(ms, c).out = ms /\ Outgoing(ms, c).announced = c
    /\ \A s \in LoopState : /\ s.out \in Seq(CanonicalMessage)
                            /\ s.announced \subseteq CallId
                            /\ s = Outgoing(s.out, s.announced)
    /\ \A ms \in Seq(CanonicalMessage) : \A c \in SUBSET CallId : Outgoing(ms, c) \in LoopState
BY DEF Outgoing, LoopState

\* The parent that a result gets is a message.
LEMMA ParentTyped ==
    ASSUME NEW id \in CallId
    PROVE  Parents!Parent(id) \in CanonicalMessage
<1>1. <<>> \in Seq(Nat)
  BY EmptySeq
<1>2. <<ToolCall(id, <<>>)>> \in Seq(CanonicalCall)
  BY <1>1 DEF ToolCall, CanonicalCall
<1>3. Parents!Parent(id) = Assistant(None, <<>>, <<ToolCall(id, <<>>)>>)
  BY DEF Parents!Parent, Parents!Assistant, Parents!ToolCall, Assistant, ToolCall
<1>4. QED
  BY <1>1, <1>2, <1>3, MessagesTyped

\* What the loop asks of a message.
LEMMA CanonicalParts ==
    ASSUME NEW m \in CanonicalMessage
    PROVE  /\ m.role \in {"user", "assistant", "tool"}
           /\ m.role = "tool" => m.id \in CallId
           /\ Parents!CalledBy(m) \subseteq CallId
<1>1. /\ m.role \in {"user", "assistant", "tool"} /\ (m.role = "tool" => m.id \in CallId)
      /\ m.calls \in Seq(CanonicalCall)
  BY DEF CanonicalMessage
<1> DEFINE calls == m.calls
<1>2. \A i \in 1..Len(calls) : calls[i].id \in CallId
  <2>1. \A i \in 1..Len(calls) : calls[i] \in CanonicalCall
    <3>1. calls \in Seq(CanonicalCall)
      BY <1>1
    <3> HIDE DEF calls
    <3>2. QED
      BY <3>1, ElementOfSeq
  <2>2. QED
    BY <2>1 DEF CanonicalCall
<1>3. QED
  BY <1>1, <1>2 DEF Parents!CalledBy

\* One message is placed behind those before.
LEMMA PlacedTyped ==
    ASSUME NEW s \in LoopState, NEW m \in CanonicalMessage
    PROVE  Placed(s, m) \in LoopState /\ Extends(s.out, Placed(s, m).out)
<1>1. s.out \in Seq(CanonicalMessage) /\ s.announced \subseteq CallId
  BY LoopParts
<1>2. ASSUME NEW ms \in Seq(CanonicalMessage), NEW c \in SUBSET CallId,
             Extends(s.out, ms), Placed(s, m) = Outgoing(ms, c)
      PROVE  Placed(s, m) \in LoopState /\ Extends(s.out, Placed(s, m).out)
  BY <1>2, LoopParts
<1>3. Append(s.out, m) \in Seq(CanonicalMessage) /\ Extends(s.out, Append(s.out, m))
  BY <1>1, AppendProperties, ExtendedByOne
<1>4. CASE m.role = "assistant"
  BY <1>1, <1>2, <1>3, <1>4, CanonicalParts DEF Placed
<1>5. CASE m.role = "tool" /\ m.id \notin s.announced \ {NoId}
  <2> DEFINE both == <<Parents!Parent(m.id), m>>
  <2>1. m.id \in CallId
    BY <1>5, CanonicalParts
  <2>2. both \in Seq(CanonicalMessage)
    BY <2>1, ParentTyped
  <2>3. s.announced \cup ({m.id} \ {NoId}) \in SUBSET CallId
    BY <1>1, <2>1
  <2>4. Placed(s, m) = Outgoing(s.out \o both, s.announced \cup ({m.id} \ {NoId}))
    BY <1>5 DEF Placed
  <2> HIDE DEF both
  <2>5. s.out \o both \in Seq(CanonicalMessage) /\ Extends(s.out, s.out \o both)
    BY <1>1, <2>2, ConcatProperties, ExtendedByMore
  <2>6. QED
    BY <1>2, <2>3, <2>4, <2>5
<1>6. CASE ~(m.role = "assistant") /\ ~(m.role = "tool" /\ m.id \notin s.announced \ {NoId})
  BY <1>1, <1>2, <1>3, <1>6 DEF Placed
<1>7. QED
  BY <1>4, <1>5, <1>6

\* So the loop can be followed message by message.
LEMMA NormalLaws ==
    /\ NormalOf[<<>>] = Idle
    /\ \A ms \in Seq(CanonicalMessage) : NormalOf[ms] \in LoopState
    /\ \A ms \in Seq(CanonicalMessage) : \A m \in CanonicalMessage :
          NormalOf[Append(ms, m)] = Placed(NormalOf[ms], m)
<1>1. Idle \in LoopState
  BY EmptySeq, LoopParts DEF Idle
<1>2. \A s \in LoopState : \A m \in CanonicalMessage :
          Placing[<<s, m>>] = Placed(s, m) /\ Placed(s, m) \in LoopState
  <2> SUFFICES ASSUME NEW s \in LoopState, NEW m \in CanonicalMessage
               PROVE  Placing[<<s, m>>] = Placed(s, m) /\ Placed(s, m) \in LoopState
    OBVIOUS
  <2>1. Placing[<<s, m>>] = Placed(s, m)
    BY DEF Placing
  <2>2. QED
    BY <2>1, PlacedTyped
<1>3. \E F : IsFold(F, CanonicalMessage, LoopState, Idle, Placing)
  BY <1>1, <1>2, Folding DEF StepsWithin
<1>4. IsFold(NormalOf, CanonicalMessage, LoopState, Idle, Placing)
  BY <1>3 DEF NormalOf
<1>5. NormalOf[<<>>] = Idle /\ NormalOf \in [Seq(CanonicalMessage) -> LoopState]
  BY <1>4 DEF IsFold
<1>6. \A ms \in Seq(CanonicalMessage) : NormalOf[ms] \in LoopState
  BY <1>5
<1>7. \A ms \in Seq(CanonicalMessage) : \A m \in CanonicalMessage :
          NormalOf[Append(ms, m)] = Placed(NormalOf[ms], m)
  BY <1>2, <1>4, <1>6 DEF IsFold
<1>8. QED
  BY <1>5, <1>6, <1>7

\* More messages, more that goes out.
LEMMA NormalGrows ==
    ASSUME NEW r \in Seq(CanonicalMessage), NEW s \in Seq(CanonicalMessage), Extends(r, s)
    PROVE  Extends(NormalOf[r].out, NormalOf[s].out)
<1> DEFINE made(k) == NormalOf[SubSeq(s, 1, k)]
           n == Len(r)
           T == {k \in Nat : n <= k /\ k <= Len(s) => Extends(made(n).out, made(k).out)}
<1>1. /\ Len(s) \in Nat /\ n \in 0..Len(s) /\ r = SubSeq(s, 1, n)
      /\ \A k \in 1..Len(s) : s[k] \in CanonicalMessage
  BY LenProperties, ElementOfSeq, ExtendsIsPrefix
<1>2. \A k \in 0..Len(s) : made(k) \in LoopState /\ made(k).out \in Seq(CanonicalMessage)
  BY UpTo, NormalLaws, LoopParts
<1>3. \A k \in 1..Len(s) : made(k) = Placed(made(k - 1), s[k])
  <2> SUFFICES ASSUME NEW k \in 1..Len(s) PROVE made(k) = Placed(made(k - 1), s[k])
    OBVIOUS
  <2>1. k - 1 \in 0..Len(s) /\ s[k] \in CanonicalMessage
    BY <1>1
  <2>2. SubSeq(s, 1, k - 1) \in Seq(CanonicalMessage) /\ SubSeq(s, 1, k) = Append(SubSeq(s, 1, k - 1), s[k])
    BY <2>1, UpTo
  <2>3. QED
    BY <2>1, <2>2, NormalLaws
<1>4. made(Len(s)) = NormalOf[s] /\ made(n) = NormalOf[r]
  BY <1>1, UpTo
<1> HIDE DEF made, n
<1>5. Extends(made(n).out, made(n).out)
  BY <1>1, <1>2, ExtendedByMore
<1>6. 0 \in T
  <2> SUFFICES ASSUME n <= 0 PROVE Extends(made(n).out, made(0).out)
    OBVIOUS
  <2>1. n = 0
    BY <1>1
  <2>2. QED
    BY <1>5, <2>1
<1>7. ASSUME NEW k \in Nat, k \in T PROVE k + 1 \in T
  <2> SUFFICES ASSUME n <= k + 1, k + 1 <= Len(s) PROVE Extends(made(n).out, made(k + 1).out)
    OBVIOUS
  <2>1. CASE n = k + 1
    BY <1>5, <2>1
  <2>2. CASE n # k + 1
    <3>1. n <= k /\ k <= Len(s) /\ k \in 0..Len(s) /\ k + 1 \in 0..Len(s) /\ k + 1 \in 1..Len(s) /\ (k + 1) - 1 = k
      BY <1>1, <2>2
    <3>2. Extends(made(n).out, made(k).out)
      BY <1>7, <3>1
    <3>3. /\ made(n).out \in Seq(CanonicalMessage) /\ made(k).out \in Seq(CanonicalMessage)
          /\ made(k + 1).out \in Seq(CanonicalMessage) /\ made(k) \in LoopState
      BY <1>1, <1>2, <3>1
    <3>4. Extends(made(k).out, made(k + 1).out)
      BY <1>1, <1>3, <3>1, <3>3, PlacedTyped
    <3> HIDE DEF T
    <3>5. QED
      BY <3>2, <3>3, <3>4, ExtendsFurther
  <2>3. QED
    BY <2>1, <2>2
<1>8. Len(s) \in T
  <2> HIDE DEF T
  <2>1. QED
    BY <1>1, <1>6, <1>7, Induction
<1>9. QED
  BY <1>1, <1>4, <1>8

-----------------------------------------------------------------------------
\* What a client adds to its history is what its dialect can hold.

NamedPiece == {p \in HistoryPiece : p.kind \in {"call", "output"} => p.id \in CallId}

AnswerPiece == {p \in NamedPiece : p.kind # "output"}

CanonicalAnswer ==
    [reasoning : Seq(Nat), key : ReasoningKey, text : Seq(Nat),
     calls : Seq([id : CallId, body : Seq(Nat), form : {"json", "broken"}])]

\* Fragments are numbers.
LEMMA FragmentTyped ==
    ASSUME NEW u \in Nat, NEW n \in Nat
    PROVE  Fragment(u, n) \in Nat /\ <<Fragment(u, n)>> \in Seq(Nat)
  BY ConversationAssumption DEF Fragment

\* Pieces with ids where they need one.
LEMMA PieceTyped ==
    ASSUME NEW kind \in PieceKind, NEW id \in CallId \cup {None}, NEW text \in Seq(Nat), NEW form \in Form
    PROVE  /\ Piece(kind, id, text, form) \in HistoryPiece
           /\ (kind \in {"call", "output"} => id \in CallId) => Piece(kind, id, text, form) \in NamedPiece
           /\ (kind = "call" => id \in CallId) /\ kind # "output" =>
                 Piece(kind, id, text, form) \in AnswerPiece
BY DEF Piece, HistoryPiece, NamedPiece, AnswerPiece

\* What a dialect can hold.
LEMMA MakesUtterable ==
    ASSUME NEW d, NEW role \in {"user", "assistant", "tool", "system"}, NEW pieces \in Seq(NamedPiece),
           d = "responses" =>
              /\ Len(pieces) = 1
              /\ role = "tool" <=> pieces[1].kind = "output"
              /\ pieces[1].kind \in {"call", "reasoning", "other"} => role = "assistant",
           d = "anthropic" => role # "tool",
           d = "chat" /\ role = "tool" => Len(pieces) = 1 /\ pieces[1].kind = "output"
    PROVE  Message(role, pieces) \in Utterable(d)
<1>1. Len(pieces) \in Nat /\ pieces = [i \in 1..Len(pieces) |-> pieces[i]]
      /\ \A i \in 1..Len(pieces) : pieces[i] \in NamedPiece
  BY LenProperties, ElementOfSeq
<1>2. \A i \in 1..Len(pieces) :
          pieces[i] \in HistoryPiece /\ (pieces[i].kind \in {"call", "output"} => pieces[i].id \in CallId)
  BY <1>1 DEF NamedPiece
<1>3. pieces \in Seq(HistoryPiece)
  BY <1>1, <1>2
<1> DEFINE m == Message(role, pieces)
<1>4. m.role = role /\ m.pieces = pieces /\ m \in HistoryMessage
  BY <1>3 DEF Message, HistoryMessage
<1> HIDE DEF m
<1>5. QED
  BY <1>2, <1>4 DEF m, Utterable

\* One piece.
LEMMA OnePiece ==
    ASSUME NEW p \in NamedPiece
    PROVE  <<p>> \in Seq(NamedPiece) /\ Len(<<p>>) = 1 /\ <<p>>[1] = p
OBVIOUS

\* What the user says (Say).
LEMMA SaidIsUtterable ==
    ASSUME NEW d, NEW text \in Seq(Nat)
    PROVE  Message("user", <<Piece("text", None, text, "string")>>) \in Utterable(d)
<1> DEFINE p == Piece("text", None, text, "string")
<1>1. p \in NamedPiece /\ p.kind = "text"
  BY PieceTyped DEF PieceKind, Form, Piece
<1> HIDE DEF p
<1>2. Message("user", <<p>>) \in Utterable(d)
  BY <1>1, MakesUtterable, OnePiece
<1>3. QED
  BY <1>2 DEF p

\* The result of a call.
LEMMA ResultTyped ==
    ASSUME clock \in Nat, owed \in Seq(CallId), NEW i \in 1..Len(owed)
    PROVE  Result(i) \in NamedPiece /\ Result(i).kind = "output"
<1>1. owed[i] \in CallId /\ i \in Nat /\ Len(owed) \in Nat
  BY ElementOfSeq, LenProperties
<1>2. clock + i \in Nat
  BY <1>1
<1>3. "output" \in PieceKind /\ "string" \in Form
  BY DEF PieceKind, Form
<1>4. Piece("output", owed[i], <<Fragment(clock + i, 1)>>, "string") \in NamedPiece
  BY <1>1, <1>2, <1>3, PieceTyped, FragmentTyped
<1>5. QED
  BY <1>4 DEF Result, Piece

\* The results of all (ReturnResults).
LEMMA ReturnedIsUtterable ==
    ASSUME NEW d \in Dialect, d = dialect, ReturnResults, clock \in Nat, owed \in Seq(CallId),
           history \in Seq(Utterable(d))
    PROVE  \E more \in Seq(Utterable(d)) :
               /\ history' = history \o more
               /\ more # <<>> /\ more[1].role \in {"user", "tool"}
<1> DEFINE results == [i \in 1..Len(owed) |-> Result(i)]
           remark == <<Piece("text", None, <<Fragment(clock + Len(owed), 2)>>, "parts")>>
<1>1. Len(owed) \in Nat /\ \A i \in 1..Len(owed) : Result(i) \in NamedPiece /\ Result(i).kind = "output"
  BY ResultTyped, LenProperties
<1>2. results \in Seq(NamedPiece) /\ Len(results) = Len(owed)
  BY <1>1
<1>3. <<>> \in Seq(NamedPiece) /\ remark \in Seq(NamedPiece)
  <2>1. clock + Len(owed) \in Nat
    BY <1>1
  <2>2. <<Fragment(clock + Len(owed), 2)>> \in Seq(Nat)
    BY <2>1, FragmentTyped
  <2>3. Piece("text", None, <<Fragment(clock + Len(owed), 2)>>, "parts") \in NamedPiece
    BY <2>2, PieceTyped DEF PieceKind, Form
  <2>4. QED
    BY <2>3, EmptySeq
<1>4. CASE dialect = "anthropic"
  <2>1. PICK text \in {<<>>, remark} :
            history' = Append(history, Message("user", results \o text))
    BY <1>4 DEF ReturnResults
  <2> HIDE DEF results, remark
  <2>2. results \o text \in Seq(NamedPiece)
    BY <1>2, <1>3, ConcatProperties
  <2> DEFINE m == Message("user", results \o text)
  <2>3. m \in Utterable(d)
    BY <1>4, <2>2, MakesUtterable
  <2>4. m.role = "user"
    BY DEF Message
  <2> HIDE DEF m
  <2>5. Append(history, m) = history \o <<m>> /\ <<m>> \in Seq(Utterable(d))
    BY <2>3, AppendIsConcat
  <2>6. history' = history \o <<m>>
    BY <2>1, <2>5 DEF m
  <2>7. QED
    BY <2>4, <2>5, <2>6
<1>5. CASE dialect # "anthropic"
  <2> DEFINE more == [i \in 1..Len(owed) |-> Message("tool", <<results[i]>>)]
  <2>1. history' = history \o more
    BY <1>5 DEF ReturnResults
  <2>2. ASSUME NEW i \in 1..Len(owed) PROVE Message("tool", <<results[i]>>) \in Utterable(d)
    <3>1. results[i] \in NamedPiece /\ results[i].kind = "output"
      BY <1>1
    <3> DEFINE p == results[i]
    <3>2. p \in NamedPiece /\ p.kind = "output"
      BY <3>1
    <3> HIDE DEF p
    <3>3. Message("tool", <<p>>) \in Utterable(d)
      BY <1>5, <3>2, MakesUtterable, OnePiece
    <3>4. QED
      BY <3>3 DEF p
  <2> DEFINE e(i) == Message("tool", <<results[i]>>)
  <2>3. more = [i \in 1..Len(owed) |-> e(i)] /\ \A i \in 1..Len(owed) : e(i) \in Utterable(d)
    BY <2>2
  <2>4. \A i \in 1..Len(owed) : e(i).role = "tool"
    BY DEF Message
  <2>5. Len(owed) # 0
    BY <1>1, EmptySeq DEF ReturnResults
  <2> HIDE DEF more, e, results
  <2>6. more \in Seq(Utterable(d)) /\ Len(more) = Len(owed)
    BY <1>1, <2>3
  <2>7. more # <<>> /\ more[1].role = "tool"
    BY <1>1, <2>3, <2>4, <2>5, <2>6, EmptySeq
  <2>8. QED
    BY <2>1, <2>6, <2>7
<1>6. QED
  BY <1>4, <1>5

-----------------------------------------------------------------------------
\* What comes back to a client is, too.

\* What an upstream answers (Respond).
LEMMA AnswerTyped ==
    ASSUME clock \in Nat, NEW shape \in Shapes
    PROVE  /\ Answer(shape) \in CanonicalAnswer
           /\ [i \in 1..Len(shape.calls) |-> shape.calls[i].id] \in Seq(CallId)
<1> DEFINE Asked == [id : CallId, form : {"json", "broken"}]
           Held == [id : CallId, body : Seq(Nat), form : {"json", "broken"}]
           asked == shape.calls
<1>1. shape.reasoning \in BOOLEAN /\ shape.key \in ReasoningKey /\ shape.text \in BOOLEAN /\ asked \in Seq(Asked)
  <2>1. shape \in [reasoning : BOOLEAN, key : ReasoningKey, text : BOOLEAN, calls : Seq(Asked)]
    BY ConversationAssumption
  <2> HIDE DEF Asked
  <2>2. QED
    BY <2>1
<1> DEFINE made(i) == [id |-> asked[i].id, body |-> <<Fragment(clock + 1, 2 + i)>>, form |-> asked[i].form]
<1>2. Len(asked) \in Nat /\ \A i \in 1..Len(asked) : asked[i] \in Asked
  <2> HIDE DEF asked, Asked
  <2>1. QED
    BY <1>1, LenProperties, ElementOfSeq
<1>3. \A i \in 1..Len(asked) : asked[i].id \in CallId /\ asked[i].form \in {"json", "broken"}
  BY <1>2
<1> HIDE DEF asked, Asked
<1>4. \A i \in 1..Len(asked) : made(i) \in Held
  <2> SUFFICES ASSUME NEW i \in 1..Len(asked) PROVE made(i) \in Held
    OBVIOUS
  <2>1. clock + 1 \in Nat /\ 2 + i \in Nat
    BY <1>2
  <2>2. QED
    BY <1>3, <2>1, FragmentTyped
<1>5. <<>> \in Seq(Nat) /\ <<Fragment(clock + 1, 1)>> \in Seq(Nat) /\ <<Fragment(clock + 1, 2)>> \in Seq(Nat)
  <2>1. clock + 1 \in Nat /\ 1 \in Nat /\ 2 \in Nat
    OBVIOUS
  <2>2. QED
    BY <2>1, FragmentTyped, EmptySeq
<1>6. Answer(shape) = [reasoning |-> IF shape.reasoning THEN <<Fragment(clock + 1, 1)>> ELSE <<>>,
                       key |-> shape.key,
                       text |-> IF shape.text THEN <<Fragment(clock + 1, 2)>> ELSE <<>>,
                       calls |-> [i \in 1..Len(asked) |-> made(i)]]
  BY DEF Answer, asked
<1> HIDE DEF made, Held
<1>7. Answer(shape) \in CanonicalAnswer
  BY <1>1, <1>2, <1>4, <1>5, <1>6 DEF CanonicalAnswer, Held
<1>8. QED
  BY <1>2, <1>3, <1>7 DEF asked

\* The parts of an answer.
LEMMA AnswerPieces ==
    ASSUME NEW answer \in CanonicalAnswer
    PROVE  /\ answer.reasoning \in Seq(Nat) /\ answer.text \in Seq(Nat)
           /\ CallPieces(answer) \in Seq(AnswerPiece)
<1> DEFINE Held == [id : CallId, body : Seq(Nat), form : {"json", "broken"}]
           calls == answer.calls
           made(i) == Piece("call", calls[i].id, calls[i].body, calls[i].form)
<1>1. answer.reasoning \in Seq(Nat) /\ answer.text \in Seq(Nat) /\ calls \in Seq(Held)
  <2> HIDE DEF Held
  <2>1. QED
    BY DEF CanonicalAnswer, Held
<1>2. Len(calls) \in Nat /\ \A i \in 1..Len(calls) : calls[i] \in Held
  <2> HIDE DEF calls, Held
  <2>1. QED
    BY <1>1, LenProperties, ElementOfSeq
<1>3. "call" \in PieceKind /\ "json" \in Form /\ "broken" \in Form
  BY DEF PieceKind, Form
<1>4. \A i \in 1..Len(calls) : made(i) \in AnswerPiece
  <2> SUFFICES ASSUME NEW i \in 1..Len(calls) PROVE made(i) \in AnswerPiece
    OBVIOUS
  <2>1. calls[i].id \in CallId /\ calls[i].body \in Seq(Nat) /\ calls[i].form \in Form
    BY <1>2, <1>3
  <2> HIDE DEF calls
  <2>2. QED
    BY <1>3, <2>1, PieceTyped
<1>5. CallPieces(answer) = [i \in 1..Len(calls) |-> made(i)]
  BY DEF CallPieces
<1> HIDE DEF calls, made
<1>6. QED
  BY <1>1, <1>2, <1>4, <1>5

\* A piece that may be missing.
LEMMA Optional ==
    ASSUME NEW kind \in {"text", "reasoning"}, NEW text \in Seq(Nat), NEW form \in Form, NEW condition
    PROVE  When(condition, <<Piece(kind, None, text, form)>>) \in Seq(AnswerPiece)
<1>1. Piece(kind, None, text, form) \in AnswerPiece
  BY PieceTyped DEF PieceKind
<1>2. QED
  BY <1>1, EmptySeq DEF When

\* The pieces of an answer.
LEMMA DeltasTyped ==
    ASSUME NEW answer \in CanonicalAnswer
    PROVE  Deltas(answer) \in Seq(AnswerPiece)
<1>1. /\ answer.text \in Seq(Nat) /\ CallPieces(answer) \in Seq(AnswerPiece)
      /\ ReasoningOf(answer) \in Seq(Nat)
  BY AnswerPieces, EmptySeq DEF ReasoningOf
<1>2. "summary" \in Form /\ "parts" \in Form
  BY DEF Form
<1> DEFINE r == When(ReasoningOf(answer) # <<>>, <<Piece("reasoning", None, ReasoningOf(answer), "summary")>>)
           t == When(answer.text # <<>>, <<Piece("text", None, answer.text, "parts")>>)
<1>3. r \in Seq(AnswerPiece) /\ t \in Seq(AnswerPiece)
  BY <1>1, <1>2, Optional
<1>4. Deltas(answer) = r \o t \o CallPieces(answer)
  BY DEF Deltas
<1> HIDE DEF r, t
<1>5. QED
  BY <1>1, <1>3, <1>4, ConcatProperties

\* They have ids where they need one.
LEMMA AnswerPieceIsNamed ==
    ASSUME NEW s \in Seq(AnswerPiece)
    PROVE  s \in Seq(NamedPiece)
<1>1. Len(s) \in Nat /\ s = [i \in 1..Len(s) |-> s[i]] /\ \A i \in 1..Len(s) : s[i] \in AnswerPiece
  BY LenProperties, ElementOfSeq
<1>2. [i \in 1..Len(s) |-> s[i]] \in Seq(NamedPiece)
  BY <1>1 DEF AnswerPiece
<1>3. QED
  BY <1>1, <1>2

\* One message for every piece.
LEMMA FinalItemsTyped ==
    ASSUME NEW answer \in CanonicalAnswer
    PROVE  FinalItems(answer) \in Seq(Utterable("responses"))
<1> DEFINE deltas == Deltas(answer)
           e(i) == Message("assistant", <<deltas[i]>>)
<1>1. Len(deltas) \in Nat /\ \A i \in 1..Len(deltas) : deltas[i] \in AnswerPiece
  <2>1. deltas \in Seq(AnswerPiece)
    BY DeltasTyped
  <2> HIDE DEF deltas
  <2>2. QED
    BY <2>1, LenProperties, ElementOfSeq
<1>2. FinalItems(answer) = [i \in 1..Len(deltas) |-> e(i)]
  BY DEF FinalItems, Message
<1> HIDE DEF deltas
<1>3. ASSUME NEW i \in 1..Len(deltas) PROVE e(i) \in Utterable("responses")
  <2> DEFINE p == deltas[i]
  <2>1. p \in NamedPiece /\ p.kind # "output"
    BY <1>1 DEF AnswerPiece
  <2> HIDE DEF p
  <2>2. Message("assistant", <<p>>) \in Utterable("responses")
    BY <2>1, MakesUtterable, OnePiece
  <2>3. QED
    BY <2>2 DEF p
<1> HIDE DEF e
<1>4. QED
  BY <1>1, <1>2, <1>3

\* All in one message.
LEMMA FinalMessageTyped ==
    ASSUME NEW answer \in CanonicalAnswer
    PROVE  FinalMessage(answer) \in Seq(Utterable("anthropic"))
<1> DEFINE deltas == Deltas(answer)
           pieces == [i \in 1..Len(deltas) |-> AsInput(deltas[i])]
<1>1. Len(deltas) \in Nat /\ \A i \in 1..Len(deltas) : deltas[i] \in AnswerPiece
  <2>1. deltas \in Seq(AnswerPiece)
    BY DeltasTyped
  <2> HIDE DEF deltas
  <2>2. QED
    BY <2>1, LenProperties, ElementOfSeq
<1>2. FinalMessage(answer) = <<Message("assistant", pieces)>>
  BY DEF FinalMessage, Message
<1> HIDE DEF deltas
<1>3. \A p \in AnswerPiece : AsInput(p) \in NamedPiece
  <2> SUFFICES ASSUME NEW p \in AnswerPiece PROVE AsInput(p) \in NamedPiece
    OBVIOUS
  <2>1. p \in NamedPiece /\ (p.kind = "call" => p.id \in CallId)
    BY DEF AnswerPiece, NamedPiece
  <2>2. p.kind = "call" => Piece("call", p.id, <<>>, "json") \in NamedPiece
    BY <2>1, PieceTyped, EmptySeq DEF PieceKind, Form
  <2>3. QED
    BY <2>1, <2>2 DEF AsInput
<1>4. pieces \in Seq(NamedPiece)
  BY <1>1, <1>3
<1> HIDE DEF pieces
<1>5. QED
  BY <1>2, <1>4, MakesUtterable

\* The upstream's own.
LEMMA PassthroughTyped ==
    ASSUME NEW answer \in CanonicalAnswer
    PROVE  Passthrough(answer) \in Seq(Utterable("chat"))
<1> DEFINE name == IF answer.key = "reasoning_content" THEN answer.key ELSE "reasoning"
           r == When(answer.reasoning # <<>>, <<Piece("reasoning", None, answer.reasoning, name)>>)
           t == When(answer.text # <<>>, <<Piece("text", None, answer.text, "string")>>)
<1>1. /\ answer.reasoning \in Seq(Nat) /\ answer.text \in Seq(Nat)
      /\ CallPieces(answer) \in Seq(AnswerPiece)
  BY AnswerPieces
<1>2. name \in Form /\ "string" \in Form
  BY DEF Form
<1>3. Passthrough(answer) = <<Message("assistant", r \o t \o CallPieces(answer))>>
  BY DEF Passthrough, Message
<1> HIDE DEF name
<1>4. r \in Seq(AnswerPiece) /\ t \in Seq(AnswerPiece)
  BY <1>1, <1>2, Optional
<1> HIDE DEF r, t
<1> DEFINE pieces == r \o t \o CallPieces(answer)
<1>5. pieces \in Seq(NamedPiece)
  BY <1>1, <1>4, ConcatProperties, AnswerPieceIsNamed
<1> HIDE DEF pieces
<1>6. Message("assistant", pieces) \in Utterable("chat")
  BY <1>5, MakesUtterable
<1>7. QED
  BY <1>3, <1>6 DEF pieces

\* So what comes back is what the dialect can hold.
LEMMA EchoTyped ==
    ASSUME dialect \in Dialect, NEW answer \in CanonicalAnswer
    PROVE  Echo(answer) \in Seq(Utterable(dialect))
<1>1. CASE dialect = "responses"
  BY <1>1, FinalItemsTyped, AmongUnfolds DEF Echo
<1>2. CASE dialect = "anthropic"
  BY <1>2, FinalMessageTyped DEF Echo
<1>3. CASE dialect = "chat"
  BY <1>3, PassthroughTyped DEF Echo
<1>4. QED
  BY <1>1, <1>2, <1>3 DEF Dialect

-----------------------------------------------------------------------------
\* The actions do what the functions say.

\* An item of a Responses request.
LEMMA ItemParsed ==
    ASSUME NEW item, Responses!ParseInputItem(item)
    PROVE  State(messages', pending_reasoning') = AfterItem(State(messages, pending_reasoning), item)
<1> DEFINE s == State(messages, pending_reasoning)
<1>1. s.messages = messages /\ s.pending = pending_reasoning
  BY StateParts
<1>2. CASE Responses!SystemMessage(item)
  BY <1>2 DEF Responses!SystemMessage, Responses!Said, Responses!Item, AfterItem, AfterText
<1>3. CASE Responses!AssistantMessage(item)
  <2>1. /\ item.pieces[1].kind = "text" /\ item.role = "assistant"
        /\ messages' = Append(messages, Assistant(TextOf(item.pieces), pending_reasoning, <<>>))
        /\ pending_reasoning' = None
    BY <1>3, ResponsesReads DEF Responses!AssistantMessage, Responses!Said, Responses!Item
  <2> HIDE DEF s
  <2>2. QED
    BY <1>1, <2>1 DEF s, AfterItem, AfterText
<1>4. CASE Responses!UserMessage(item)
  <2>1. /\ item.pieces[1].kind = "text" /\ item.role = "user"
        /\ messages' = Append(messages, User(TextOf(item.pieces)))
        /\ pending_reasoning' = None
    BY <1>4, ResponsesReads DEF Responses!UserMessage, Responses!Said, Responses!Item
  <2> HIDE DEF s
  <2>2. QED
    BY <1>1, <2>1 DEF s, AfterItem, AfterText
<1>5. CASE Responses!FunctionCall(item)
  <2> DEFINE calls == ToolCalls(item.pieces)
  <2>1. AnswersOpenTurn(s) <=> Responses!InAssistantTurn
    BY <1>1, ResponsesReads DEF AnswersOpenTurn, Responses!InAssistantTurn
  <2>2. item.pieces[1].kind = "call" /\ AfterItem(s, item) = AfterCall(s, item.pieces)
    BY <1>5 DEF Responses!FunctionCall, Responses!Item, AfterItem
  <2>3. CASE AnswersOpenTurn(s)
    <3> DEFINE turn == Last(messages)
    <3>1. /\ messages' = [messages EXCEPT ![Len(messages)] =
                              Assistant(turn.text,
                                        IF turn.reasoning = None THEN pending_reasoning ELSE turn.reasoning,
                                        turn.calls \o calls)]
          /\ pending_reasoning' = IF turn.reasoning = None THEN None ELSE pending_reasoning
      BY <1>5, <2>1, <2>3, ResponsesReads DEF Responses!FunctionCall
    <3>2. WithCalls(turn, pending_reasoning, calls) =
              Assistant(turn.text,
                        IF turn.reasoning = None THEN pending_reasoning ELSE turn.reasoning,
                        turn.calls \o calls)
      BY DEF WithCalls
    <3> HIDE DEF s, calls
    <3>3. AfterCall(s, item.pieces) =
              State([messages EXCEPT ![Len(messages)] = WithCalls(turn, pending_reasoning, calls)],
                    IF turn.reasoning = None THEN None ELSE pending_reasoning)
      BY <1>1, <2>3 DEF AfterCall, calls
    <3>4. QED
      BY <2>2, <3>1, <3>2, <3>3 DEF s
  <2>4. CASE ~AnswersOpenTurn(s)
    <3>1. /\ messages' = Append(messages, Assistant(None, pending_reasoning, calls))
          /\ pending_reasoning' = None
      BY <1>5, <2>1, <2>4, ResponsesReads DEF Responses!FunctionCall
    <3> HIDE DEF s
    <3>2. QED
      BY <1>1, <2>2, <2>4, <3>1 DEF s, AfterCall
  <2>5. QED
    BY <2>3, <2>4
<1>6. CASE Responses!FunctionCallOutput(item)
  <2>1. /\ item.pieces[1].kind = "output"
        /\ messages' = Append(messages, Tool(item.pieces[1].id, item.pieces[1].text))
        /\ pending_reasoning' = None
    BY <1>6, ResponsesReads DEF Responses!FunctionCallOutput, Responses!Item
  <2> HIDE DEF s
  <2>2. QED
    BY <1>1, <2>1 DEF s, AfterItem
<1>7. CASE Responses!Reasoning(item)
  <2>1. /\ item.pieces[1].kind = "reasoning" /\ messages' = messages
        /\ pending_reasoning' = IF item.pieces[1].text # <<>> THEN item.pieces[1].text
                                ELSE pending_reasoning
    BY <1>7 DEF Responses!Reasoning, Responses!Item
  <2> HIDE DEF s
  <2>2. QED
    BY <1>1, <2>1 DEF s, AfterItem
<1>8. CASE Responses!OtherItem(item)
  BY <1>8 DEF Responses!OtherItem, Responses!Item, AfterItem
<1>9. QED
  BY <1>2, <1>3, <1>4, <1>5, <1>6, <1>7, <1>8 DEF Responses!ParseInputItem

\* A message of any.
LEMMA MessageParsed ==
    ASSUME dialect \in Dialect, messages \in Seq(CanonicalMessage),
           NEW m \in Utterable(dialect), ParseItem(m)
    PROVE  State(messages', pending_reasoning') = After(dialect, State(messages, pending_reasoning), m)
<1>1. CASE dialect = "responses"
  BY <1>1, ItemParsed DEF ParseItem, After
<1>2. CASE dialect = "anthropic"
  <2>1. Anthropic!ParseMessage(m) /\ pending_reasoning' = pending_reasoning
    BY <1>2 DEF ParseItem
  <2>2. AnthropicAdds(m) \in Seq(CanonicalMessage)
    BY <1>2, AnthropicTyped
  <2>3. messages' = messages \o AnthropicAdds(m)
    <3>1. CASE Anthropic!UserMessage(m)
      <4> DEFINE results == Anthropic!ToolResults(m.pieces)
                 text == Anthropic!UserText(m.pieces)
      <4>1. m.role = "user" /\ messages' = messages \o results \o text
        BY <3>1 DEF Anthropic!UserMessage
      <4>2. AnthropicAdds(m) = results \o text
        BY <4>1 DEF AnthropicAdds
      <4>3. results \in Seq(CanonicalMessage) /\ text \in Seq(CanonicalMessage)
        BY <1>2, AnthropicParts
      <4> HIDE DEF results, text
      <4>4. QED
        BY <4>1, <4>2, <4>3, ConcatAssociative
    <3>2. CASE Anthropic!AssistantMessage(m)
      <4> DEFINE turn == Assistant(Anthropic!AssistantText(m.pieces),
                                   Anthropic!Thinking(m.pieces), ToolCalls(m.pieces))
      <4>1. m.role = "assistant" /\ messages' = Append(messages, turn)
        BY <3>2, AnthropicReads DEF Anthropic!AssistantMessage
      <4>2. AnthropicAdds(m) = <<turn>>
        BY <4>1 DEF AnthropicAdds
      <4>3. turn \in CanonicalMessage
        BY <1>2, AnthropicParts
      <4> HIDE DEF turn
      <4>4. QED
        BY <4>1, <4>2, <4>3, AppendIsConcat
    <3>3. CASE Anthropic!OtherRole(m)
      BY <3>3, ConcatEmptySeq DEF Anthropic!OtherRole, AnthropicAdds
    <3>4. QED
      BY <2>1, <3>1, <3>2, <3>3 DEF Anthropic!ParseMessage
  <2>4. QED
    BY <1>2, <2>1, <2>3, StateParts DEF After
<1>3. CASE dialect = "chat"
  <2>1. Chat!ParseMessage(m) /\ pending_reasoning' = pending_reasoning
    BY <1>3 DEF ParseItem
  <2>2. messages' = messages \o ChatAdds(m)
    <3>1. ASSUME NEW e, ChatAdds(m) = <<e>>, messages' = Append(messages, e)
          PROVE  messages' = messages \o ChatAdds(m)
      BY <1>3, <3>1, ChatTyped, ElementOfSeq, AppendIsConcat
    <3>2. CASE Chat!SystemMessage(m)
      BY <3>2, ConcatEmptySeq DEF Chat!SystemMessage, ChatAdds
    <3>3. CASE Chat!ToolMessage(m)
      BY <3>1, <3>3, ChatReads DEF Chat!ToolMessage, ChatAdds
    <3>4. CASE Chat!AssistantMessage(m)
      BY <3>1, <3>4, ChatReads DEF Chat!AssistantMessage, ChatAdds
    <3>5. CASE Chat!UserMessage(m)
      BY <3>1, <3>5, ChatReads DEF Chat!UserMessage, ChatAdds
    <3>6. QED
      BY <2>1, <3>2, <3>3, <3>4, <3>5 DEF Chat!ParseMessage
  <2>3. QED
    BY <1>3, <2>1, <2>2, StateParts DEF After
<1>4. QED
  BY <1>1, <1>2, <1>3 DEF Dialect

\* A message that goes out.
LEMMA MessagePlaced ==
    ASSUME NEW m \in CanonicalMessage, Parents!Normalize(m)
    PROVE  Outgoing(out', announced') = Placed(Outgoing(out, announced), m)
<1> DEFINE s == Outgoing(out, announced)
<1>1. s.out = out /\ s.announced = announced
  BY LoopParts
<1> HIDE DEF s
<1>2. CASE Parents!KeepAssistant(m)
  BY <1>1, <1>2 DEF Parents!KeepAssistant, Placed, s
<1>3. CASE Parents!KeepUser(m)
  BY <1>1, <1>3 DEF Parents!KeepUser, Placed, s
<1>4. CASE Parents!PlaceTool(m)
  BY <1>1, <1>4 DEF Parents!PlaceTool, Placed, s
<1>5. QED
  BY <1>2, <1>3, <1>4 DEF Parents!Normalize, s

-----------------------------------------------------------------------------
\* A request is a function of the history, and grows with it.

\* What goes out for a history.
Request(d, h) == NormalOf[ParseOf(d)[h].messages].out

\* The model was to answer the n-th message of the history.
Answerable(n) == n \in 1..Len(history) /\ history[n].role \in {"user", "tool"}

Typed ==
    /\ dialect \in Dialect
    /\ history \in Seq(Utterable(dialect))
    /\ clock \in Nat
    /\ owed \in Seq(CallId)

\* How far the request is that is being built.
Building ==
    /\ pc \in {"client", "parse", "normalize", "upstream"}
    /\ pc \in {"parse", "normalize"} => Answerable(Len(history))
    /\ pc = "parse" =>
          /\ at \in 1..(Len(history) + 1)
          /\ State(messages, pending_reasoning) = ParseOf(dialect)[SubSeq(history, 1, at - 1)]
    /\ pc = "normalize" =>
          /\ messages = ParseOf(dialect)[history].messages
          /\ at \in 1..(Len(messages) + 1)
          /\ Outgoing(out, announced) = NormalOf[SubSeq(messages, 1, at - 1)]
    /\ pc = "upstream" => seen = Request(dialect, history)

\* The last request was made of the history as it was when the model was asked.
Remembers ==
    \/ seen = <<>>
    \/ \E n \in 1..Len(history) : Answerable(n) /\ seen = Request(dialect, SubSeq(history, 1, n))

RequestInv == Typed /\ Building /\ Remembers

-----------------------------------------------------------------------------
\* Requests are of their type.
LEMMA RequestTyped ==
    ASSUME NEW d \in Dialect, NEW h \in Seq(Utterable(d))
    PROVE  /\ ParseOf(d)[h].messages \in Seq(CanonicalMessage)
           /\ NormalOf[ParseOf(d)[h].messages] \in LoopState
           /\ Request(d, h) \in Seq(CanonicalMessage)
<1>1. ParseOf(d)[h].messages \in Seq(CanonicalMessage)
  BY StateParts, ParseLaws
<1>2. QED
  BY <1>1, LoopParts, NormalLaws DEF Request

\* A longer history makes a request that begins with that of a shorter one, if
\* the model was to answer that.
LEMMA RequestGrows ==
    ASSUME NEW d \in Dialect, NEW h \in Seq(Utterable(d)), NEW n \in 1..Len(h),
           h[n].role \in {"user", "tool"}
    PROVE  IsPrefix(Request(d, SubSeq(h, 1, n)), Request(d, h))
<1> DEFINE r == SubSeq(h, 1, n)
<1>1. r \in Seq(Utterable(d)) /\ n \in 0..Len(h)
  BY LenProperties, UpTo
<1>2. Extends(ParseOf(d)[r].messages, ParseOf(d)[h].messages)
  BY ParseGrows
<1> HIDE DEF r
<1>3. QED
  BY <1>1, <1>2, RequestTyped, ExtendsIsPrefix, NormalGrows DEF r, Request

\* Every request begins with nothing.
LEMMA EmptyIsPrefix ==
    ASSUME NEW s \in Seq(CanonicalMessage)
    PROVE  IsPrefix(<<>>, s)
<1>1. <<>> \in Seq(CanonicalMessage) /\ Len(<<>>) = 0
  BY EmptySeq
<1>2. Extends(<<>>, s)
  BY <1>1, LenProperties DEF Extends
<1>3. QED
  BY <1>1, <1>2, ExtendsIsPrefix

\* At the end of the loops, the request is that of the history.
LEMMA WholeRequest ==
    ASSUME Typed, Building, pc = "normalize", at > Len(messages)
    PROVE  out = Request(dialect, history) /\ Answerable(Len(history))
<1>1. /\ messages = ParseOf(dialect)[history].messages /\ Answerable(Len(history))
      /\ at \in 1..(Len(messages) + 1)
      /\ Outgoing(out, announced) = NormalOf[SubSeq(messages, 1, at - 1)]
  BY DEF Building
<1>2. messages \in Seq(CanonicalMessage) /\ Len(messages) \in Nat
  BY <1>1, RequestTyped, LenProperties DEF Typed
<1>3. at - 1 = Len(messages)
  BY <1>1, <1>2
<1>4. Outgoing(out, announced) = NormalOf[messages]
  BY <1>1, <1>2, <1>3, UpTo
<1>5. QED
  BY <1>1, <1>4, LoopParts DEF Request

\* What the client adds to its history leaves the requests alone that were made.
LEMMA MoreIsSaid ==
    ASSUME RequestInv, NEW more \in Seq(Utterable(dialect)), history' = history \o more,
           dialect' = dialect, seen' = seen, pc \in {"client", "upstream"}, pc' = "client",
           clock' \in Nat, owed' \in Seq(CallId)
    PROVE  RequestInv'
<1>1. history \in Seq(Utterable(dialect)) /\ dialect \in Dialect
  BY DEF RequestInv, Typed
<1>2. Len(history) \in Nat /\ history' \in Seq(Utterable(dialect)) /\ Extends(history, history') /\ Len(history') \in Nat
  BY <1>1, ConcatProperties, ExtendedByMore, LenProperties
<1>3. Typed'
  BY <1>1, <1>2 DEF Typed
<1>4. Remembers'
  <2>1. CASE seen = <<>>
    BY <2>1 DEF Remembers
  <2>2. CASE seen # <<>>
    <3>1. PICK n \in 1..Len(history) : Answerable(n) /\ seen = Request(dialect, SubSeq(history, 1, n))
      BY <2>2 DEF RequestInv, Remembers
    <3>2. n \in 1..Len(history') /\ history'[n] = history[n]
      BY <1>2 DEF Extends
    <3>3. SubSeq(history', 1, n) = SubSeq(history, 1, n)
      BY <1>2 DEF Extends
    <3>4. seen' = Request(dialect', SubSeq(history', 1, n))
      BY <3>1, <3>3
    <3>5. QED
      BY <3>1, <3>2, <3>4 DEF Remembers, Answerable
  <2>3. QED
    BY <2>1, <2>2
<1>5. QED
  BY <1>3, <1>4 DEF RequestInv, Building

\* Nothing was said or built.
LEMMA InitRequestInv == Init => RequestInv
<1> SUFFICES ASSUME Init PROVE RequestInv
  OBVIOUS
<1>1. dialect \in Dialect /\ history \in Histories[dialect] /\ clock = Len(history) /\ owed = <<>>
      /\ pc = "client" /\ seen = <<>>
  BY DEF Init
<1>2. history \in Seq(Utterable(dialect))
  BY <1>1, ConversationAssumption
<1>3. clock \in Nat /\ owed \in Seq(CallId)
  BY <1>1, <1>2, LenProperties, EmptySeq
<1>4. QED
  BY <1>1, <1>2, <1>3 DEF RequestInv, Typed, Building, Remembers

\* The loops follow the functions; only a dispatch changes what was seen.
LEMMA NextRequestInv == RequestInv /\ [Next]_vars => RequestInv'
<1> SUFFICES ASSUME RequestInv, [Next]_vars PROVE RequestInv'
  OBVIOUS
<1>1. /\ dialect \in Dialect /\ history \in Seq(Utterable(dialect)) /\ clock \in Nat /\ owed \in Seq(CallId)
      /\ Len(history) \in Nat
  BY LenProperties DEF RequestInv, Typed
<1>a. ASSUME UNCHANGED <<dialect, history, clock, owed>> PROVE Typed'
  BY <1>a DEF RequestInv, Typed
<1>b. ASSUME UNCHANGED <<dialect, history, seen>> PROVE Remembers'
  BY <1>b DEF RequestInv, Remembers, Answerable
<1>2. CASE Say
  <2> DEFINE text == <<Fragment(clock + 1, 1)>>
             m == Message("user", <<Piece("text", None, text, "string")>>)
  <2>1. /\ history' = Append(history, m) /\ clock' = clock + 1 /\ owed' = owed
        /\ pc = "client" /\ pc' = pc /\ dialect' = dialect /\ seen' = seen
    BY <1>2 DEF Say, given
  <2>2. clock + 1 \in Nat
    BY <1>1
  <2>3. text \in Seq(Nat)
    BY <2>2, FragmentTyped
  <2> HIDE DEF text
  <2>4. m \in Utterable(dialect)
    BY <2>3, SaidIsUtterable
  <2> HIDE DEF m
  <2>5. history' = history \o <<m>> /\ <<m>> \in Seq(Utterable(dialect))
    BY <1>1, <2>1, <2>4, AppendIsConcat
  <2>6. QED
    BY <1>1, <2>1, <2>2, <2>5, MoreIsSaid
<1>3. CASE ReturnResults
  <2>1. /\ clock' = clock + Len(owed) /\ owed' = <<>>
        /\ pc = "client" /\ pc' = pc /\ dialect' = dialect /\ seen' = seen
    BY <1>3 DEF ReturnResults, given
  <2>2. clock' \in Nat /\ owed' \in Seq(CallId)
    BY <1>1, <2>1, LenProperties, EmptySeq
  <2>3. PICK more \in Seq(Utterable(dialect)) : history' = history \o more
    BY <1>1, <1>3, ReturnedIsUtterable
  <2>4. QED
    BY <2>1, <2>2, <2>3, MoreIsSaid
<1>4. CASE Send
  <2>1. /\ UNCHANGED <<dialect, history, clock, owed, seen>>
        /\ history # <<>> /\ Last(history).role \in {"user", "tool"}
        /\ pc' = "parse" /\ at' = 1 /\ messages' = <<>> /\ pending_reasoning' = None
    BY <1>4 DEF Send, given, client, Awaiting
  <2>2. Answerable(Len(history))'
    BY <1>1, <2>1, EmptySeq DEF Answerable, Last
  <2>3. SubSeq(history, 1, 0) = <<>> /\ ParseOf(dialect)[<<>>] = Fresh /\ 1 - 1 = 0
    BY <1>1, UpTo, ParseLaws
  <2>4. at' \in 1..(Len(history') + 1)
    BY <1>1, <2>1
  <2>5. Building'
    BY <2>1, <2>2, <2>3, <2>4 DEF Building, Fresh
  <2>6. QED
    BY <1>a, <1>b, <2>1, <2>5 DEF RequestInv
<1>5. CASE Parse
  <2>1. /\ UNCHANGED <<dialect, history, clock, owed, seen>>
        /\ pc = "parse" /\ pc' = "parse" /\ at <= Len(history) /\ at' = at + 1
        /\ ParseItem(history[at])
    BY <1>5 DEF Parse, given, client
  <2>2. /\ at \in 1..(Len(history) + 1) /\ Answerable(Len(history))
        /\ State(messages, pending_reasoning) = ParseOf(dialect)[SubSeq(history, 1, at - 1)]
    BY <2>1 DEF RequestInv, Building
  <2>3. at \in 1..Len(history) /\ at - 1 \in 0..Len(history) /\ at' \in 1..(Len(history) + 1) /\ at' - 1 = at
    BY <1>1, <2>1, <2>2
  <2>4. history[at] \in Utterable(dialect)
    BY <1>1, <2>3, ElementOfSeq
  <2>5. /\ SubSeq(history, 1, at - 1) \in Seq(Utterable(dialect))
        /\ SubSeq(history, 1, at) = Append(SubSeq(history, 1, at - 1), history[at])
    BY <1>1, <2>3, UpTo
  <2>6. messages \in Seq(CanonicalMessage)
    BY <1>1, <2>2, <2>5, ParseLaws, StateParts, ZenonT(30)
  <2>7. State(messages', pending_reasoning') = After(dialect, State(messages, pending_reasoning), history[at])
    BY <1>1, <2>1, <2>4, <2>6, MessageParsed
  <2>8. ParseOf(dialect)[SubSeq(history, 1, at)] =
            After(dialect, ParseOf(dialect)[SubSeq(history, 1, at - 1)], history[at])
    BY <1>1, <2>4, <2>5, ParseLaws
  <2>9. State(messages', pending_reasoning') = ParseOf(dialect')[SubSeq(history', 1, at' - 1)]
    BY <2>1, <2>2, <2>3, <2>7, <2>8
  <2>10. Building'
    BY <2>1, <2>2, <2>3, <2>9 DEF Building, Answerable
  <2>11. QED
    BY <1>a, <1>b, <2>1, <2>10 DEF RequestInv
<1>6. CASE Parsed
  <2>1. /\ UNCHANGED <<dialect, history, clock, owed, seen, messages, pending_reasoning>>
        /\ pc = "parse" /\ pc' = "normalize" /\ at > Len(history) /\ at' = 1
        /\ out' = <<>> /\ announced' = {}
    BY <1>6 DEF Parsed, given, client, parser, Parents!Begin
  <2>2. /\ at \in 1..(Len(history) + 1) /\ Answerable(Len(history))
        /\ State(messages, pending_reasoning) = ParseOf(dialect)[SubSeq(history, 1, at - 1)]
    BY <2>1 DEF RequestInv, Building
  <2>3. at - 1 = Len(history)
    BY <1>1, <2>1, <2>2
  <2>4. SubSeq(history, 1, Len(history)) = history
    BY <1>1, UpTo
  <2>5. messages = ParseOf(dialect)[history].messages
    <3>1. State(messages, pending_reasoning).messages = messages
      BY StateParts
    <3>2. QED
      BY <2>2, <2>3, <2>4, <3>1
  <2>6. Len(messages) \in Nat /\ SubSeq(messages, 1, 0) = <<>> /\ NormalOf[<<>>] = Idle /\ 1 - 1 = 0
    BY <1>1, <2>5, UpTo, NormalLaws, RequestTyped
  <2>7. at' \in 1..(Len(messages') + 1)
    BY <2>1, <2>6
  <2>8. Answerable(Len(history))'
    BY <2>1, <2>2 DEF Answerable
  <2>9. Building'
    BY <2>1, <2>5, <2>6, <2>7, <2>8 DEF Building, Idle
  <2>10. QED
    BY <1>a, <1>b, <2>1, <2>9 DEF RequestInv
<1>7. CASE Normalize
  <2>1. /\ UNCHANGED <<dialect, history, clock, owed, seen, messages>>
        /\ pc = "normalize" /\ pc' = "normalize" /\ at <= Len(messages) /\ at' = at + 1
        /\ Parents!Normalize(messages[at])
    BY <1>7 DEF Normalize, given, client, parser
  <2>2. /\ messages = ParseOf(dialect)[history].messages /\ Answerable(Len(history))
        /\ at \in 1..(Len(messages) + 1)
        /\ Outgoing(out, announced) = NormalOf[SubSeq(messages, 1, at - 1)]
    BY <2>1 DEF RequestInv, Building
  <2>3. messages \in Seq(CanonicalMessage) /\ Len(messages) \in Nat
    BY <1>1, <2>2, RequestTyped, LenProperties
  <2>4. at \in 1..Len(messages) /\ at - 1 \in 0..Len(messages) /\ at' \in 1..(Len(messages) + 1) /\ at' - 1 = at
    BY <2>1, <2>2, <2>3
  <2>5. messages[at] \in CanonicalMessage
    BY <2>3, <2>4, ElementOfSeq
  <2>6. /\ SubSeq(messages, 1, at - 1) \in Seq(CanonicalMessage)
        /\ SubSeq(messages, 1, at) = Append(SubSeq(messages, 1, at - 1), messages[at])
    BY <2>3, <2>4, UpTo
  <2>7. NormalOf[SubSeq(messages, 1, at)] = Placed(NormalOf[SubSeq(messages, 1, at - 1)], messages[at])
    BY <2>5, <2>6, NormalLaws
  <2>8. Outgoing(out', announced') = Placed(Outgoing(out, announced), messages[at])
    BY <2>1, <2>5, MessagePlaced
  <2>9. Outgoing(out', announced') = NormalOf[SubSeq(messages', 1, at' - 1)]
    BY <2>1, <2>2, <2>4, <2>7, <2>8
  <2>10. Building'
    BY <2>1, <2>2, <2>4, <2>9 DEF Building, Answerable
  <2>11. QED
    BY <1>a, <1>b, <2>1, <2>10 DEF RequestInv
<1>8. CASE Dispatch
  BY <1>a, <1>1, <1>8, WholeRequest, UpTo DEF Dispatch, given, client, RequestInv, Building,
     Answerable, Remembers
<1>9. CASE Respond
  <2>1. PICK shape \in Shapes :
            /\ history' = history \o Echo(Answer(shape))
            /\ owed' = [i \in 1..Len(shape.calls) |-> shape.calls[i].id]
    BY <1>9 DEF Respond
  <2>2. /\ clock' = clock + 1 /\ pc = "upstream" /\ pc' = "client" /\ dialect' = dialect /\ seen' = seen
    BY <1>9 DEF Respond, given
  <2>3. Answer(shape) \in CanonicalAnswer /\ owed' \in Seq(CallId)
    BY <1>1, <2>1, AnswerTyped
  <2>4. Echo(Answer(shape)) \in Seq(Utterable(dialect))
    BY <1>1, <2>3, EchoTyped
  <2>5. clock' \in Nat
    BY <1>1, <2>2
  <2>6. QED
    BY <2>1, <2>2, <2>3, <2>4, <2>5, MoreIsSaid
<1>10. CASE Fail
  BY <1>a, <1>b, <1>10 DEF Fail, given, client, Building, RequestInv
<1>11. CASE Over \/ UNCHANGED vars
  BY <1>a, <1>b, <1>11 DEF Over, vars, given, client, parser, RequestInv, Building, Answerable
<1>12. QED
  BY <1>2, <1>3, <1>4, <1>5, <1>6, <1>7, <1>8, <1>9, <1>10, <1>11 DEF Next

\* Only Dispatch changes what was seen last, to what the whole history makes.
LEMMA StepGrows == RequestInv /\ [Next]_vars => IsPrefix(seen, seen')
<1> SUFFICES ASSUME RequestInv, [Next]_vars PROVE IsPrefix(seen, seen')
  OBVIOUS
<1>1. dialect \in Dialect /\ history \in Seq(Utterable(dialect)) /\ Len(history) \in Nat
  BY LenProperties DEF RequestInv, Typed
<1>2. CASE Dispatch
  <2>1. seen' = Request(dialect, history)
    BY <1>1, <1>2, WholeRequest DEF RequestInv, Dispatch
  <2>2. CASE seen = <<>>
    BY <1>1, <2>1, <2>2, EmptyIsPrefix, RequestTyped
  <2>3. CASE seen # <<>>
    <3>1. PICK n \in 1..Len(history) : Answerable(n) /\ seen = Request(dialect, SubSeq(history, 1, n))
      BY <2>3 DEF RequestInv, Remembers
    <3>2. QED
      BY <1>1, <2>1, <3>1, RequestGrows DEF Answerable
  <2>4. QED
    BY <2>2, <2>3
<1>3. CASE ~Dispatch
  <2>1. seen' = seen
    BY <1>3 DEF Next, Say, ReturnResults, Send, Parse, Parsed, Normalize, Respond, Fail, Over, vars
  <2>2. seen \in Seq(CanonicalMessage)
    <3>1. CASE seen = <<>>
      BY <3>1, EmptySeq
    <3>2. CASE seen # <<>>
      <4>1. PICK n \in 1..Len(history) : seen = Request(dialect, SubSeq(history, 1, n))
        BY <3>2 DEF RequestInv, Remembers
      <4>2. SubSeq(history, 1, n) \in Seq(Utterable(dialect))
        BY <1>1, UpTo
      <4>3. QED
        BY <1>1, <4>1, <4>2, RequestTyped
    <3>3. QED
      BY <3>1, <3>2
  <2>3. QED
    BY <2>1, <2>2, ExtendedByMore, ExtendsIsPrefix
<1>4. QED
  BY <1>2, <1>3

\* Every message of a client's history is one that its dialect can hold, and a
\* request is built of it as the functions above say, and of nothing else.
THEOREM RequestsAreBuilt == Spec => []RequestInv
  BY InitRequestInv, NextRequestInv, PTL DEF Spec

\* The bridge keeps nothing of a conversation: what an upstream gets is a
\* function of the history that the client sent, whatever was sent before,
\* however often, and whatever failed (parse_request, build_request).
THEOREM NothingIsKept == Spec => [](pc = "upstream" => seen = Request(dialect, history))
<1>1. RequestInv => (pc = "upstream" => seen = Request(dialect, history))
  BY DEF RequestInv, Building
<1>2. QED
  BY <1>1, RequestsAreBuilt, PTL

\* Every request repeats the one before and goes on from there: the parsers
\* never change what they made of a history up to a user's message or a result,
\* and normalize_tool_parents only puts messages behind others.
THEOREM RequestsGrow == Spec => RequestsOnlyGrow
  BY RequestsAreBuilt, StepGrows, PTL DEF Spec, RequestsOnlyGrow

-----------------------------------------------------------------------------
\* What the parsers read out of the pieces of an answer.

Thought(answer, form) ==
    When(answer.reasoning # <<>>, <<Piece("reasoning", None, answer.reasoning, form)>>)

Spoken(answer, form) ==
    When(answer.text # <<>>, <<Piece("text", None, answer.text, form)>>)

CallPiece == {p \in AnswerPiece : p.kind = "call"}

Made(answer, f, g, cs) == Thought(answer, f) \o Spoken(answer, g) \o cs

CallsOf(cs) == [i \in 1..Len(cs) |-> ToolCall(cs[i].id, cs[i].text)]

\* Its parts are pieces.
LEMMA MadeTyped ==
    ASSUME NEW answer \in CanonicalAnswer, NEW f \in Form, NEW g \in Form, NEW cs \in Seq(CallPiece)
    PROVE  /\ Thought(answer, f) \in Seq(AnswerPiece) /\ Spoken(answer, g) \in Seq(AnswerPiece)
           /\ cs \in Seq(AnswerPiece)
           /\ Thought(answer, f) \o Spoken(answer, g) \in Seq(AnswerPiece)
           /\ Made(answer, f, g, cs) \in Seq(AnswerPiece)
<1>1. Thought(answer, f) \in Seq(AnswerPiece) /\ Spoken(answer, g) \in Seq(AnswerPiece)
  BY AnswerPieces, Optional DEF Thought, Spoken
<1>2. Thought(answer, f) \o Spoken(answer, g) \in Seq(AnswerPiece)
  BY <1>1, ConcatProperties
<1>3. QED
  BY <1>1, <1>2, ConcatProperties, SeqMonotonic DEF Made, CallPiece

\* What is picked of an answer: each part, or nothing of it.
LEMMA Sifted ==
    ASSUME NEW answer \in CanonicalAnswer, NEW f \in Form, NEW g \in Form, NEW cs \in Seq(CallPiece), NEW S
    PROVE  /\ Among(Made(answer, f, g, cs), S) =
                  Among(Thought(answer, f), S) \o Among(Spoken(answer, g), S) \o Among(cs, S)
           /\ (answer.reasoning # <<>> => Piece("reasoning", None, answer.reasoning, f) \in S)
                  => Among(Thought(answer, f), S) = Thought(answer, f)
           /\ (answer.reasoning # <<>> => Piece("reasoning", None, answer.reasoning, f) \notin S)
                  => Among(Thought(answer, f), S) = <<>>
           /\ (answer.text # <<>> => Piece("text", None, answer.text, g) \in S)
                  => Among(Spoken(answer, g), S) = Spoken(answer, g)
           /\ (answer.text # <<>> => Piece("text", None, answer.text, g) \notin S)
                  => Among(Spoken(answer, g), S) = <<>>
           /\ (\A i \in 1..Len(cs) : cs[i] \in S) => Among(cs, S) = cs
           /\ (\A i \in 1..Len(cs) : cs[i] \notin S) => Among(cs, S) = <<>>
<1> DEFINE p == Piece("reasoning", None, answer.reasoning, f)
           q == Piece("text", None, answer.text, g)
           t == Thought(answer, f)
           s == Spoken(answer, g)
<1>1. t \in Seq(AnswerPiece) /\ s \in Seq(AnswerPiece) /\ cs \in Seq(AnswerPiece) /\ t \o s \in Seq(AnswerPiece)
  BY MadeTyped
<1>2. p \in AnswerPiece /\ q \in AnswerPiece
  BY AnswerPieces, PieceTyped DEF PieceKind
<1>3. t = (IF answer.reasoning # <<>> THEN <<p>> ELSE <<>>) /\ s = (IF answer.text # <<>> THEN <<q>> ELSE <<>>)
  BY DEF Thought, Spoken, When
<1> HIDE DEF t, s, p, q
<1>4. Among(<<>>, S) = <<>> /\ Among(<<p>>, S) = IF p \in S THEN <<p>> ELSE <<>>
  BY <1>2, AmongOne
<1>5. Among(<<q>>, S) = IF q \in S THEN <<q>> ELSE <<>>
  BY <1>2, AmongOne
<1>6. Among((t \o s) \o cs, S) = (Among(t, S) \o Among(s, S)) \o Among(cs, S)
  <2> DEFINE u == t \o s
  <2>1. u \in Seq(AnswerPiece) /\ Among(u, S) = Among(t, S) \o Among(s, S)
    BY <1>1, AmongJoins
  <2> HIDE DEF u
  <2>2. Among(u \o cs, S) = Among(u, S) \o Among(cs, S)
    BY <1>1, <2>1, AmongJoins
  <2>3. QED
    BY <2>1, <2>2 DEF u
<1>7. /\ (\A i \in 1..Len(cs) : cs[i] \in S) => Among(cs, S) = cs
      /\ (\A i \in 1..Len(cs) : cs[i] \notin S) => Among(cs, S) = <<>>
  BY <1>1, AmongAll
<1>8. /\ (answer.reasoning # <<>> => p \in S) => Among(t, S) = t
      /\ (answer.reasoning # <<>> => p \notin S) => Among(t, S) = <<>>
      /\ (answer.text # <<>> => q \in S) => Among(s, S) = s
      /\ (answer.text # <<>> => q \notin S) => Among(s, S) = <<>>
  BY <1>3, <1>4, <1>5
<1>9. QED
  BY <1>6, <1>7, <1>8 DEF Made, t, s, p, q

\* One text, or none, joined.
LEMMA JoinedOne ==
    /\ Joined(<<>>) = <<>>
    /\ \A p : Joined(<<p>>) = p.text
<1>1. Joined(<<>>) = <<>>
  BY EmptySeq DEF Joined, FlattenSeq
<1>2. ASSUME NEW p PROVE Joined(<<p>>) = p.text
  <2> DEFINE ss == [i \in 1..Len(<<p>>) |-> <<p>>[i].text]
  <2>1. Len(ss) = 1 /\ ss[1] = p.text
    OBVIOUS
  <2> HIDE DEF ss
  <2>2. Len(ss) \in Nat /\ Len(ss) # 0
    BY <2>1
  <2>3. PICK h : FlattenSeq(ss) = h[Len(ss)] /\ h[1] = ss[1]
    BY <2>2, Flattening
  <2>4. QED
    BY <2>1, <2>3 DEF Joined, ss
<1>3. QED
  BY <1>1, <1>2

\* What was said is read as it was.
LEMMA SpokenRead ==
    ASSUME NEW answer, NEW f
    PROVE  /\ Joined(Spoken(answer, f)) = answer.text
           /\ Joined(Thought(answer, f)) = answer.reasoning
           /\ answer.reasoning # <<>> => Last(Thought(answer, f)).text = answer.reasoning
           /\ Spoken(answer, f) = <<>> <=> answer.text = <<>>
           /\ Thought(answer, f) = <<>> <=> answer.reasoning = <<>>
<1> DEFINE p == Piece("reasoning", None, answer.reasoning, f)
           q == Piece("text", None, answer.text, f)
<1>1. p.text = answer.reasoning /\ q.text = answer.text
  BY DEF Piece
<1>2. Thought(answer, f) = IF answer.reasoning # <<>> THEN <<p>> ELSE <<>>
  BY DEF Thought, When
<1>3. Spoken(answer, f) = IF answer.text # <<>> THEN <<q>> ELSE <<>>
  BY DEF Spoken, When
<1> HIDE DEF p, q
<1>4. Len(<<p>>) = 1 /\ <<p>>[1] = p /\ <<p>> # <<>> /\ <<q>> # <<>>
  OBVIOUS
<1>5. QED
  BY <1>1, <1>2, <1>3, <1>4, JoinedOne DEF Last

\* The pieces of an answer are what they were made as.
LEMMA MadeHolds ==
    ASSUME NEW answer \in CanonicalAnswer, NEW f \in Form, NEW g \in Form, NEW cs \in Seq(CallPiece)
    PROVE  LET pieces == Made(answer, f, g, cs)
           IN  /\ answer.reasoning # <<>> => Piece("reasoning", None, answer.reasoning, f) \in ToSet(pieces)
               /\ answer.text # <<>> => Piece("text", None, answer.text, g) \in ToSet(pieces)
               /\ \A i \in 1..Len(cs) : cs[i] \in ToSet(pieces) /\ cs[i].kind = "call"
<1> DEFINE t == Thought(answer, f)
           s == Spoken(answer, g)
<1>1. t \in Seq(AnswerPiece) /\ s \in Seq(AnswerPiece) /\ cs \in Seq(AnswerPiece) /\ t \o s \in Seq(AnswerPiece)
  BY MadeTyped
<1>2. answer.reasoning # <<>> => Piece("reasoning", None, answer.reasoning, f) \in Range(t)
  <2>1. answer.reasoning # <<>> => t = <<Piece("reasoning", None, answer.reasoning, f)>>
    BY DEF Thought, When
  <2> HIDE DEF t
  <2>2. QED
    BY <2>1 DEF Range
<1>3. answer.text # <<>> => Piece("text", None, answer.text, g) \in Range(s)
  <2>1. answer.text # <<>> => s = <<Piece("text", None, answer.text, g)>>
    BY DEF Spoken, When
  <2> HIDE DEF s
  <2>2. QED
    BY <2>1 DEF Range
<1>4. \A i \in 1..Len(cs) : cs[i] \in Range(cs) /\ cs[i].kind = "call"
  BY LenProperties, ElementOfSeq DEF Range, CallPiece
<1> HIDE DEF t, s
<1>5. Range(t \o s) = Range(t) \cup Range(s)
  BY <1>1, RangeConcatenation
<1>6. Range((t \o s) \o cs) = Range(t \o s) \cup Range(cs)
  <2> DEFINE u == t \o s
  <2>1. u \in Seq(AnswerPiece)
    BY <1>1
  <2> HIDE DEF u
  <2>2. Range(u \o cs) = Range(u) \cup Range(cs)
    BY <1>1, <2>1, RangeConcatenation
  <2>3. QED
    BY <2>2 DEF u
<1>7. ToSet(Made(answer, f, g, cs)) = Range((t \o s) \o cs)
  BY DEF Made, ToSet, Range, t, s
<1>8. QED
  BY <1>2, <1>3, <1>4, <1>5, <1>6, <1>7

\* The parts of one piece.
LEMMA PieceParts ==
    \A kind, id, text, form : /\ Piece(kind, id, text, form).kind = kind /\ Piece(kind, id, text, form).id = id
                              /\ Piece(kind, id, text, form).text = text /\ Piece(kind, id, text, form).form = form
BY DEF Piece

\* What the parsers of Anthropic and Chat pick besides texts and calls.
Thoughts(pieces) == Among(pieces, {x \in ToSet(pieces) : x.kind = "reasoning" /\ x.text # <<>>})

Strings(pieces) ==
    Among(pieces, {x \in ToSet(pieces) : x.kind \in {"text", "output"} /\ x.form = "string"})

Reasonings(pieces) ==
    Among(pieces, {x \in ToSet(pieces) : x.kind = "reasoning" /\ x.form = "reasoning_content"})

\* What the parsers pick out of an answer.
LEMMA AnswerRead ==
    ASSUME NEW answer \in CanonicalAnswer, NEW f \in Form, NEW g \in Form, NEW cs \in Seq(CallPiece)
    PROVE  /\ OfKind(Made(answer, f, g, cs), "text") = Spoken(answer, g)
           /\ OfKind(Made(answer, f, g, cs), "call") = cs
           /\ Thoughts(Made(answer, f, g, cs)) = Thought(answer, f)
           /\ Strings(Made(answer, f, g, cs)) = When(g = "string", Spoken(answer, g))
           /\ Reasonings(Made(answer, f, g, cs)) = When(f = "reasoning_content", Thought(answer, f))
<1> DEFINE pieces == Made(answer, f, g, cs)
           p == Piece("reasoning", None, answer.reasoning, f)
           q == Piece("text", None, answer.text, g)
           t == Thought(answer, f)
           s == Spoken(answer, g)
<1>1. /\ answer.reasoning # <<>> => p \in ToSet(pieces)
      /\ answer.text # <<>> => q \in ToSet(pieces)
      /\ \A i \in 1..Len(cs) : cs[i] \in ToSet(pieces) /\ cs[i].kind = "call"
  BY MadeHolds
<1>2. p.kind = "reasoning" /\ p.text = answer.reasoning /\ p.form = f
  BY PieceParts
<1>3. q.kind = "text" /\ q.text = answer.text /\ q.form = g
  BY PieceParts
<1>4. /\ t \in Seq(AnswerPiece) /\ s \in Seq(AnswerPiece) /\ cs \in Seq(AnswerPiece)
      /\ t \o s \in Seq(AnswerPiece) /\ <<>> \in Seq(AnswerPiece)
  BY MadeTyped, EmptySeq
<1> HIDE DEF p, q, pieces, t, s
<1>5. ASSUME NEW S
      PROVE  /\ Among(pieces, S) = Among(t, S) \o Among(s, S) \o Among(cs, S)
             /\ (answer.reasoning # <<>> => p \in S) => Among(t, S) = t
             /\ (answer.reasoning # <<>> => p \notin S) => Among(t, S) = <<>>
             /\ (answer.text # <<>> => q \in S) => Among(s, S) = s
             /\ (answer.text # <<>> => q \notin S) => Among(s, S) = <<>>
             /\ (\A i \in 1..Len(cs) : cs[i] \in S) => Among(cs, S) = cs
             /\ (\A i \in 1..Len(cs) : cs[i] \notin S) => Among(cs, S) = <<>>
  BY Sifted DEF pieces, p, q, t, s
<1>6. \A u \in Seq(AnswerPiece) : /\ (u \o <<>>) \o <<>> = u /\ (<<>> \o u) \o <<>> = u /\ (<<>> \o <<>>) \o u = u
  BY <1>4, ConcatEmptySeq
<1>7. Among(pieces, {x \in ToSet(pieces) : x.kind = "text"}) = s
  <2> DEFINE S == {x \in ToSet(pieces) : x.kind = "text"}
  <2>1. /\ answer.reasoning # <<>> => p \notin S
        /\ answer.text # <<>> => q \in S
        /\ \A i \in 1..Len(cs) : cs[i] \notin S
    BY <1>1, <1>2, <1>3
  <2> HIDE DEF S
  <2>2. Among(pieces, S) = <<>> \o s \o <<>>
    BY <1>5, <2>1
  <2>3. QED
    BY <1>4, <1>6, <2>2 DEF S
<1>8. Among(pieces, {x \in ToSet(pieces) : x.kind = "call"}) = cs
  <2> DEFINE S == {x \in ToSet(pieces) : x.kind = "call"}
  <2>1. /\ answer.reasoning # <<>> => p \notin S
        /\ answer.text # <<>> => q \notin S
        /\ \A i \in 1..Len(cs) : cs[i] \in S
    BY <1>1, <1>2, <1>3
  <2> HIDE DEF S
  <2>2. QED
    BY <1>4, <1>5, <1>6, <2>1, SMTT(30) DEF S
<1>9. Among(pieces, {x \in ToSet(pieces) : x.kind = "reasoning" /\ x.text # <<>>}) = t
  <2> DEFINE S == {x \in ToSet(pieces) : x.kind = "reasoning" /\ x.text # <<>>}
  <2>1. /\ answer.reasoning # <<>> => p \in S
        /\ answer.text # <<>> => q \notin S
        /\ \A i \in 1..Len(cs) : cs[i] \notin S
    BY <1>1, <1>2, <1>3
  <2> HIDE DEF S
  <2>2. Among(pieces, S) = t \o <<>> \o <<>>
    BY <1>5, <2>1
  <2>3. QED
    BY <1>4, <1>6, <2>2 DEF S
<1>10. Among(pieces, {x \in ToSet(pieces) : x.kind \in {"text", "output"} /\ x.form = "string"})
           = When(g = "string", s)
  <2> DEFINE S == {x \in ToSet(pieces) : x.kind \in {"text", "output"} /\ x.form = "string"}
  <2>1. /\ answer.reasoning # <<>> => p \notin S
        /\ answer.text # <<>> => (g = "string" <=> q \in S)
        /\ \A i \in 1..Len(cs) : cs[i] \notin S
    BY <1>1, <1>2, <1>3
  <2> HIDE DEF S
  <2>2. When(g = "string", s) \in Seq(AnswerPiece)
    BY <1>4 DEF When
  <2>3. QED
    BY <1>5, <1>6, <2>1, <2>2 DEF S, When
<1>11. Among(pieces, {x \in ToSet(pieces) : x.kind = "reasoning" /\ x.form = "reasoning_content"})
           = When(f = "reasoning_content", t)
  <2> DEFINE S == {x \in ToSet(pieces) : x.kind = "reasoning" /\ x.form = "reasoning_content"}
  <2>1. /\ answer.reasoning # <<>> => (f = "reasoning_content" <=> p \in S)
        /\ answer.text # <<>> => q \notin S
        /\ \A i \in 1..Len(cs) : cs[i] \notin S
    BY <1>1, <1>2, <1>3
  <2> HIDE DEF S
  <2>2. When(f = "reasoning_content", t) \in Seq(AnswerPiece)
    BY <1>4 DEF When
  <2>3. QED
    BY <1>5, <1>6, <2>1, <2>2 DEF S, When
<1>12. QED
  BY <1>7, <1>8, <1>9, <1>10, <1>11 DEF OfKind, Thoughts, Strings, Reasonings, pieces, s, t

\* The calls of an answer.
LEMMA AskedTyped ==
    ASSUME NEW answer \in CanonicalAnswer
    PROVE  /\ CallPieces(answer) \in Seq(CallPiece)
           /\ Len(CallPieces(answer)) = Len(answer.calls)
           /\ CallsOf(CallPieces(answer)) =
                 [c \in 1..Len(answer.calls) |-> ToolCall(answer.calls[c].id, answer.calls[c].body)]
           /\ CallPieces(answer) = <<>> <=> answer.calls = <<>>
<1> DEFINE calls == answer.calls
           cs == CallPieces(answer)
           Held == [id : CallId, body : Seq(Nat), form : {"json", "broken"}]
<1>1. calls \in Seq(Held)
  <2> HIDE DEF Held
  <2>1. QED
    BY DEF CanonicalAnswer, Held
<1>2. Len(calls) \in Nat
  <2> HIDE DEF calls, Held
  <2>1. QED
    BY <1>1, LenProperties
<1>3. cs \in Seq(AnswerPiece)
  BY AnswerPieces
<1>4. cs = [i \in 1..Len(calls) |-> Piece("call", calls[i].id, calls[i].body, calls[i].form)]
  BY DEF CallPieces
<1> HIDE DEF cs
<1>5. Len(cs) \in Nat /\ cs = [i \in 1..Len(cs) |-> cs[i]] /\ \A i \in 1..Len(cs) : cs[i] \in AnswerPiece
  BY <1>3, LenProperties, ElementOfSeq
<1>6. Len(cs) = Len(calls)
  <2> HIDE DEF calls
  <2>1. DOMAIN cs = 1..Len(cs)
    BY <1>3, LenProperties
  <2>2. DOMAIN cs = 1..Len(calls)
    BY <1>4
  <2>3. QED
    BY <1>2, <1>4
<1>7. \A i \in 1..Len(cs) : cs[i].kind = "call" /\ cs[i].id = calls[i].id /\ cs[i].text = calls[i].body
  <2> HIDE DEF calls
  <2>1. QED
    BY <1>4, <1>6, PieceParts
<1>8. cs \in Seq(CallPiece)
  BY <1>5, <1>7 DEF CallPiece
<1>9. CallsOf(cs) = [c \in 1..Len(calls) |-> ToolCall(calls[c].id, calls[c].body)]
  <2> HIDE DEF calls
  <2>1. QED
    BY <1>6, <1>7 DEF CallsOf
<1>10. cs = <<>> <=> calls = <<>>
  <2> HIDE DEF calls, Held
  <2>1. calls = <<>> <=> Len(calls) = 0
    BY <1>1, EmptySeq
  <2>2. QED
    BY <1>3, <1>6, <2>1, EmptySeq
<1>11. QED
  BY <1>6, <1>8, <1>9, <1>10 DEF cs

\* Calls are read as they are.
LEMMA CallsRead ==
    ASSUME NEW pieces, NEW cs, OfKind(pieces, "call") = cs
    PROVE  ToolCalls(pieces) = CallsOf(cs)
BY DEF ToolCalls, CallsOf

\* A turn through a Chat client's history (parse_request).
LEMMA ChatTurn ==
    ASSUME NEW answer \in CanonicalAnswer, dialect = "chat", Memorable(answer)
    PROVE  \E m \in Utterable("chat") : Echo(answer) = <<m>> /\ ChatAdds(m) = <<Remembered(answer)>>
<1> DEFINE f == IF answer.key = "reasoning_content" THEN answer.key ELSE "reasoning"
           cs == CallPieces(answer)
           pieces == Made(answer, f, "string", cs)
           m == Message("assistant", pieces)
<1>1. f \in Form /\ "string" \in Form
  BY DEF Form
<1>2. answer.reasoning # <<>> => f = "reasoning_content"
  BY DEF Memorable
<1>3. Echo(answer) = <<m>>
  BY DEF Echo, Passthrough, Message, Made, Thought, Spoken
<1>4. m \in Utterable("chat")
  <2>1. <<m>> \in Seq(Utterable("chat"))
    BY <1>3, PassthroughTyped DEF Echo
  <2> HIDE DEF m
  <2>2. QED
    BY <2>1, ElementOfSeq
<1>5. m.role = "assistant" /\ m.pieces = pieces
  BY DEF Message
<1> HIDE DEF m, f
<1>6. /\ OfKind(pieces, "call") = cs
      /\ Strings(pieces) = Spoken(answer, "string")
      /\ Reasonings(pieces) = When(f = "reasoning_content", Thought(answer, f))
  BY <1>1, AnswerRead, AskedTyped DEF When
<1> HIDE DEF pieces
<1>7. Chat!Content(m) = answer.text
  BY <1>5, <1>6, ChatReads, SpokenRead DEF Strings, Chat!Content, Chat!ToSet, ToSet
<1>8. Chat!ReasoningContent(m) = IF answer.reasoning = <<>> THEN None ELSE answer.reasoning
  <2> DEFINE thought == When(f = "reasoning_content", Thought(answer, f))
  <2>1. Chat!ReasoningContent(m) = IF thought = <<>> THEN None ELSE Joined(thought)
    BY <1>5, <1>6, ChatReads DEF Reasonings, Chat!ReasoningContent, Chat!ToSet, ToSet
  <2>2. QED
    BY <1>2, <2>1, SpokenRead DEF When
<1>9. ToolCalls(pieces) = [c \in 1..Len(answer.calls) |-> ToolCall(answer.calls[c].id, answer.calls[c].body)]
  BY <1>6, CallsRead, AskedTyped
<1>10. ChatAdds(m) = <<Remembered(answer)>>
  BY <1>5, <1>7, <1>8, <1>9 DEF ChatAdds, Remembered
<1>11. QED
  BY <1>3, <1>4, <1>10

\* The input of a call is an object (final_blocks).
Inputs(answer) == [i \in 1..Len(CallPieces(answer)) |-> AsInput(CallPieces(answer)[i])]

\* Its parts.
LEMMA InputsTyped ==
    ASSUME NEW answer \in CanonicalAnswer
    PROVE  /\ Inputs(answer) \in Seq(CallPiece)
           /\ Len(Inputs(answer)) = Len(CallPieces(answer))
           /\ CallsOf(Inputs(answer)) =
                 [c \in 1..Len(answer.calls) |->
                     ToolCall(answer.calls[c].id,
                              IF answer.calls[c].form # "json" THEN <<>> ELSE answer.calls[c].body)]
           /\ Inputs(answer) = <<>> <=> answer.calls = <<>>
<1> DEFINE cs == CallPieces(answer)
           calls == answer.calls
           is == Inputs(answer)
<1>1. cs \in Seq(CallPiece) /\ Len(cs) = Len(calls) /\ (cs = <<>> <=> calls = <<>>)
  BY AskedTyped
<1>2. \A p \in CallPiece : /\ AsInput(p) \in CallPiece /\ AsInput(p).id = p.id
                           /\ AsInput(p).text = IF p.form # "json" THEN <<>> ELSE p.text
  <2> SUFFICES ASSUME NEW p \in CallPiece
               PROVE  /\ AsInput(p) \in CallPiece /\ AsInput(p).id = p.id
                      /\ AsInput(p).text = IF p.form # "json" THEN <<>> ELSE p.text
    OBVIOUS
  <2>1. p \in AnswerPiece /\ p.kind = "call" /\ p.id \in CallId
    BY DEF CallPiece, AnswerPiece, NamedPiece
  <2>2. Piece("call", p.id, <<>>, "json") \in AnswerPiece
    BY <2>1, PieceTyped, EmptySeq DEF PieceKind, Form
  <2>3. Piece("call", p.id, <<>>, "json") \in CallPiece
    BY <2>2, PieceParts DEF CallPiece
  <2>4. QED
    BY <2>1, <2>3, PieceParts DEF AsInput
<1>3. is = [i \in 1..Len(cs) |-> AsInput(cs[i])]
  BY DEF Inputs
<1>4. cs = [i \in 1..Len(calls) |-> Piece("call", calls[i].id, calls[i].body, calls[i].form)]
  BY DEF CallPieces
<1> HIDE DEF cs, is, calls
<1>5. Len(cs) \in Nat /\ \A i \in 1..Len(cs) : cs[i] \in CallPiece
  BY <1>1, LenProperties, ElementOfSeq
<1>6. Len(is) = Len(cs) /\ is \in Seq(CallPiece) /\ \A i \in 1..Len(cs) : is[i] = AsInput(cs[i])
  BY <1>2, <1>3, <1>5
<1>7. \A i \in 1..Len(cs) : cs[i].id = calls[i].id /\ cs[i].text = calls[i].body /\ cs[i].form = calls[i].form
  BY <1>1, <1>4, PieceParts
<1>8. CallsOf(is) = [c \in 1..Len(calls) |->
                        ToolCall(calls[c].id, IF calls[c].form # "json" THEN <<>> ELSE calls[c].body)]
  BY <1>1, <1>2, <1>5, <1>6, <1>7 DEF CallsOf
<1>9. QED
  BY <1>1, <1>6, <1>8, EmptySeq DEF is, cs, calls

\* Nothing else changes.
LEMMA MadeAsInput ==
    ASSUME NEW answer \in CanonicalAnswer, answer.key # "hidden"
    PROVE  FinalMessage(answer) =
               <<Message("assistant", Made(answer, "summary", "parts", Inputs(answer)))>>
<1> DEFINE cs == CallPieces(answer)
           is == Inputs(answer)
           u == Thought(answer, "summary") \o Spoken(answer, "parts")
           ds == Deltas(answer)
           ins == [i \in 1..Len(ds) |-> AsInput(ds[i])]
<1>1. "summary" \in Form /\ "parts" \in Form
  BY DEF Form
<1>2. cs \in Seq(CallPiece) /\ is \in Seq(CallPiece) /\ Len(is) = Len(cs)
  BY AskedTyped, InputsTyped
<1>3. ds = u \o cs
  BY DEF Deltas, ReasoningOf, Thought, Spoken
<1>4. \A i \in 1..Len(u) : AsInput(u[i]) = u[i]
  <2> DEFINE p == Piece("reasoning", None, answer.reasoning, "summary")
             q == Piece("text", None, answer.text, "parts")
  <2>1. p.kind = "reasoning" /\ q.kind = "text"
    BY PieceParts
  <2>2. u \in {<<>> \o <<>>, <<p>> \o <<>>, <<>> \o <<q>>, <<p>> \o <<q>>}
    BY DEF Thought, Spoken, When
  <2> HIDE DEF u, p, q
  <2>3. QED
    BY <2>1, <2>2 DEF AsInput
<1>5. is = [i \in 1..Len(cs) |-> AsInput(cs[i])]
  BY DEF Inputs
<1>6. u \in Seq(AnswerPiece) /\ cs \in Seq(AnswerPiece) /\ is \in Seq(AnswerPiece)
  BY <1>1, <1>2, MadeTyped
<1>7. FinalMessage(answer) = <<Message("assistant", ins)>>
  BY DEF FinalMessage, Message
<1> HIDE DEF u, ds, cs, is
<1>8. Len(u) \in Nat /\ Len(cs) \in Nat
  BY <1>6, LenProperties
<1>9. /\ Len(ds) = Len(u) + Len(cs)
      /\ \A i \in 1..(Len(u) + Len(cs)) : ds[i] = IF i <= Len(u) THEN u[i] ELSE cs[i - Len(u)]
  BY <1>3, <1>6, ConcatProperties
<1>10. /\ u \o is \in Seq(AnswerPiece) /\ Len(u \o is) = Len(u) + Len(cs)
      /\ \A i \in 1..(Len(u) + Len(cs)) : (u \o is)[i] = IF i <= Len(u) THEN u[i] ELSE is[i - Len(u)]
  <2>1. /\ u \o is \in Seq(AnswerPiece) /\ Len(u \o is) = Len(u) + Len(is)
        /\ \A i \in 1..(Len(u) + Len(is)) : (u \o is)[i] = IF i <= Len(u) THEN u[i] ELSE is[i - Len(u)]
    BY <1>6, ConcatProperties
  <2>2. QED
    BY <1>2, <2>1
<1>11. \A i \in 1..(Len(u) + Len(cs)) : AsInput(ds[i]) = (u \o is)[i]
  <2> SUFFICES ASSUME NEW i \in 1..(Len(u) + Len(cs)) PROVE AsInput(ds[i]) = (u \o is)[i]
    OBVIOUS
  <2>1. CASE i <= Len(u)
    BY <1>4, <1>8, <1>9, <1>10, <2>1
  <2>2. CASE ~(i <= Len(u))
    BY <1>5, <1>8, <1>9, <1>10, <2>2
  <2>3. QED
    BY <2>1, <2>2
<1>12. ins = u \o is
  <2> DEFINE v == u \o is
  <2>1. v = [i \in 1..Len(v) |-> v[i]]
    <3>1. v \in Seq(AnswerPiece)
      BY <1>10
    <3> HIDE DEF v
    <3>2. QED
      BY <3>1, LenProperties
  <2>2. Len(v) = Len(u) + Len(cs) /\ \A i \in 1..(Len(u) + Len(cs)) : AsInput(ds[i]) = v[i]
    BY <1>10, <1>11
  <2> HIDE DEF v
  <2>3. ins = v
    BY <1>9, <2>1, <2>2
  <2>4. QED
    BY <2>3 DEF v
<1>13. QED
  BY <1>7, <1>12 DEF is, Made, u

\* A turn through an Anthropic client's history (parse_message).
LEMMA AnthropicTurn ==
    ASSUME NEW answer \in CanonicalAnswer, dialect = "anthropic", Memorable(answer)
    PROVE  \E m \in Utterable("anthropic") :
              Echo(answer) = <<m>> /\ AnthropicAdds(m) = <<Remembered(answer)>>
<1> DEFINE is == Inputs(answer)
           pieces == Made(answer, "summary", "parts", is)
           m == Message("assistant", pieces)
<1>1. "summary" \in Form /\ "parts" \in Form
  BY DEF Form
<1>2. answer.key # "hidden" /\ (answer.text # <<>> \/ answer.calls # <<>>)
  BY DEF Memorable
<1>3. Echo(answer) = <<m>>
  <2>1. Echo(answer) = FinalMessage(answer)
    BY DEF Echo
  <2> HIDE DEF m
  <2>2. QED
    BY <1>2, <2>1, MadeAsInput DEF m
<1>4. m \in Utterable("anthropic")
  <2>1. <<m>> \in Seq(Utterable("anthropic"))
    BY <1>3, FinalMessageTyped DEF Echo
  <2> HIDE DEF m
  <2>2. QED
    BY <2>1, ElementOfSeq
<1>5. m.role = "assistant" /\ m.pieces = pieces
  BY DEF Message
<1> HIDE DEF m
<1>6. is \in Seq(CallPiece) /\ (is = <<>> <=> answer.calls = <<>>)
  BY InputsTyped
<1>7. /\ OfKind(pieces, "text") = Spoken(answer, "parts")
      /\ OfKind(pieces, "call") = is
      /\ Thoughts(pieces) = Thought(answer, "summary")
  BY <1>1, <1>6, AnswerRead
<1> HIDE DEF pieces
<1>8. Anthropic!Thinking(pieces) = IF answer.reasoning = <<>> THEN None ELSE answer.reasoning
  BY <1>7, AnthropicReads, SpokenRead DEF Thoughts, Anthropic!Thinking, Anthropic!ToSet, ToSet,
     Anthropic!Last, Last
<1>9. Anthropic!AssistantText(pieces) = IF answer.text = <<>> THEN None ELSE answer.text
  BY <1>2, <1>6, <1>7, AnthropicReads, SpokenRead DEF Anthropic!AssistantText, TextOf
<1>10. ToolCalls(pieces) = [c \in 1..Len(answer.calls) |->
              ToolCall(answer.calls[c].id, IF answer.calls[c].form # "json" THEN <<>> ELSE answer.calls[c].body)]
  BY <1>7, CallsRead, InputsTyped
<1>11. AnthropicAdds(m) = <<Remembered(answer)>>
  BY <1>5, <1>8, <1>9, <1>10 DEF AnthropicAdds, Remembered
<1>12. QED
  BY <1>3, <1>4, <1>11

-----------------------------------------------------------------------------
\* A turn through a Responses client's history.

Items(pieces) == [i \in 1..Len(pieces) |-> Message("assistant", <<pieces[i]>>)]

\* One more item.
LEMMA NextItem ==
    ASSUME NEW h \in Seq(Utterable("responses")), NEW ps \in Seq(AnswerPiece), NEW p \in AnswerPiece
    PROVE  /\ ParseOf("responses")[h \o Items(Append(ps, p))] =
                  AfterItem(ParseOf("responses")[h \o Items(ps)], Message("assistant", <<p>>))
           /\ Items(ps) \in Seq(Utterable("responses"))
<1> DEFINE U == Utterable("responses")
           e(x) == Message("assistant", <<x>>)
           a == Append(ps, p)
           is == Items(ps)
<1>1. /\ Len(ps) \in Nat /\ a \in Seq(AnswerPiece) /\ Len(a) = Len(ps) + 1
      /\ \A i \in 1..Len(ps) : a[i] = ps[i] /\ ps[i] \in AnswerPiece
      /\ a[Len(ps) + 1] = p
  BY AppendProperties, LenProperties, ElementOfSeq
<1>2. \A x \in AnswerPiece : e(x) \in U
  <2> SUFFICES ASSUME NEW x \in AnswerPiece PROVE e(x) \in U
    OBVIOUS
  <2>1. x \in NamedPiece /\ x.kind # "output"
    BY DEF AnswerPiece
  <2>2. QED
    BY <2>1, MakesUtterable, OnePiece
<1>3. is = [i \in 1..Len(ps) |-> e(ps[i])] /\ Items(a) = [i \in 1..Len(a) |-> e(a[i])]
  BY DEF Items
<1> HIDE DEF U, a, is, e
<1>4. is \in Seq(U) /\ Len(is) = Len(ps)
  BY <1>1, <1>2, <1>3
<1>5. Items(a) = Append(is, e(p))
  <2>1. /\ Append(is, e(p)) \in Seq(U) /\ Len(Append(is, e(p))) = Len(is) + 1
        /\ \A i \in 1..Len(is) : Append(is, e(p))[i] = is[i]
        /\ Append(is, e(p))[Len(is) + 1] = e(p)
    BY <1>2, <1>4, AppendProperties
  <2> DEFINE b == Append(is, e(p))
  <2>2. b = [i \in 1..Len(b) |-> b[i]]
    BY <2>1, LenProperties
  <2>3. Len(b) = Len(ps) + 1 /\ (\A i \in 1..Len(ps) : b[i] = e(ps[i])) /\ b[Len(ps) + 1] = e(p)
    BY <1>3, <1>4, <2>1
  <2> HIDE DEF b
  <2>4. Items(a) = b
    BY <1>1, <1>3, <2>2, <2>3, SMTT(30)
  <2>5. QED
    BY <2>4 DEF b
<1>6. h \in Seq(U) /\ e(p) \in U
  BY <1>2 DEF U
<1>7. h \o Append(is, e(p)) = Append(h \o is, e(p)) /\ h \o is \in Seq(U)
  BY <1>4, <1>6, BehindBoth, ConcatProperties
<1>8. "responses" \in Dialect
  BY DEF Dialect
<1>9. ParseOf("responses")[Append(h \o is, e(p))] = After("responses", ParseOf("responses")[h \o is], e(p))
  <2> DEFINE r == h \o is
             x == e(p)
  <2>1. r \in Seq(Utterable("responses")) /\ x \in Utterable("responses")
    BY <1>6, <1>7 DEF U
  <2> HIDE DEF r, x
  <2>2. QED
    BY <1>8, <2>1, ParseLaws DEF r, x
<1>10. QED
  BY <1>4, <1>5, <1>7, <1>9 DEF After, U, a, is, e

\* What is behind a message that the model is to answer: nothing waits, and the
\* last turn is closed.
LEMMA AnswerableParsed ==
    ASSUME NEW h \in Seq(Utterable("responses")), h # <<>>, Last(h).role \in {"user", "tool"}
    PROVE  /\ ParseOf("responses")[h] \in ParserState
           /\ ParseOf("responses")[h].pending = None
           /\ Settled(ParseOf("responses")[h].messages)
<1> DEFINE n == Len(h)
           r == SubSeq(h, 1, n - 1)
           m == h[n]
           s == ParseOf("responses")[r]
<1>1. "responses" \in Dialect
  BY DEF Dialect
<1>2. n \in 1..Len(h) /\ n - 1 \in 0..Len(h) /\ Last(h) = m /\ m \in Utterable("responses")
  BY LenProperties, EmptySeq, ElementOfSeq DEF Last
<1>3. r \in Seq(Utterable("responses")) /\ h = Append(r, m)
  BY <1>2, UpTo
<1> HIDE DEF n, r, m
<1>4. s \in ParserState /\ ParseOf("responses")[h] = After("responses", s, m)
  BY <1>1, <1>2, <1>3, ParseLaws
<1> HIDE DEF s
<1>5. After("responses", s, m).pending = None
  <2>1. m.pieces[1].kind \in {"text", "reasoning", "call", "output", "other"}
    BY <1>2, Uttered DEF HistoryPiece, PieceKind
  <2>2. m.pieces[1].kind \in {"text", "output"} /\ m.role \in {"user", "tool"}
    BY <1>2, <2>1, Uttered
  <2>3. CASE m.pieces[1].kind = "text"
    BY <1>2, <2>2, <2>3, StateParts, Uttered DEF After, AfterItem, AfterText
  <2>4. CASE m.pieces[1].kind = "output"
    BY <2>4, StateParts DEF After, AfterItem
  <2>5. QED
    BY <2>2, <2>3, <2>4
<1>6. QED
  BY <1>1, <1>2, <1>4, <1>5, AfterTyped

\* One piece is read as it is.
LEMMA OneRead ==
    ASSUME NEW p \in AnswerPiece
    PROVE  /\ p.kind = "text" => TextOf(<<p>>) = p.text
           /\ p.kind = "call" => ToolCalls(<<p>>) = <<ToolCall(p.id, p.text)>>
<1> DEFINE s == <<p>>
<1>1. p \in ToSet(s) /\ \A k : p \in {x \in ToSet(s) : x.kind = k} <=> p.kind = k
  BY DEF ToSet
<1>2. \A k : p.kind = k => OfKind(s, k) = s
  <2> SUFFICES ASSUME NEW k, p.kind = k PROVE OfKind(s, k) = s
    OBVIOUS
  <2> DEFINE S == {x \in ToSet(s) : x.kind = k}
  <2>1. p \in S
    BY <1>1
  <2> HIDE DEF S
  <2>2. QED
    BY <2>1, AmongOne DEF OfKind, S
<1>3. Joined(s) = p.text
  BY JoinedOne
<1>4. CallsOf(s) = <<ToolCall(p.id, p.text)>>
  BY DEF CallsOf
<1> HIDE DEF s
<1>5. p.kind = "text" => TextOf(s) = p.text
  BY <1>2, <1>3 DEF TextOf
<1>6. p.kind = "call" => ToolCalls(s) = <<ToolCall(p.id, p.text)>>
  <2> SUFFICES ASSUME p.kind = "call" PROVE ToolCalls(s) = <<ToolCall(p.id, p.text)>>
    OBVIOUS
  <2>1. QED
    BY <1>2, <1>4, CallsRead
<1>7. QED
  BY <1>5, <1>6 DEF s

\* One more call.
LEMMA MoreCalls ==
    ASSUME NEW cs \in Seq(CallPiece), NEW c \in CallPiece
    PROVE  /\ CallsOf(Append(cs, c)) = CallsOf(cs) \o <<ToolCall(c.id, c.text)>>
           /\ CallsOf(cs) \in Seq(CanonicalCall)
           /\ ToolCall(c.id, c.text) \in CanonicalCall
           /\ CallsOf(<<>>) = <<>> /\ <<ToolCall(c.id, c.text)>> = CallsOf(<<>>) \o <<ToolCall(c.id, c.text)>>
<1> DEFINE e(x) == ToolCall(x.id, x.text)
           a == Append(cs, c)
           ts == CallsOf(cs)
<1>1. /\ Len(cs) \in Nat /\ a \in Seq(CallPiece) /\ Len(a) = Len(cs) + 1
      /\ \A i \in 1..Len(cs) : a[i] = cs[i] /\ cs[i] \in CallPiece
      /\ a[Len(cs) + 1] = c
  BY AppendProperties, LenProperties, ElementOfSeq
<1>2. \A x \in CallPiece : e(x) \in CanonicalCall
  BY DEF CallPiece, AnswerPiece, NamedPiece, HistoryPiece, ToolCall, CanonicalCall
<1>3. ts = [i \in 1..Len(cs) |-> e(cs[i])] /\ CallsOf(a) = [i \in 1..Len(a) |-> e(a[i])]
  BY DEF CallsOf
<1> HIDE DEF a, ts, e
<1>4. ts \in Seq(CanonicalCall) /\ Len(ts) = Len(cs) /\ e(c) \in CanonicalCall
  BY <1>1, <1>2, <1>3
<1> DEFINE b == Append(ts, e(c))
<1>5. /\ b \in Seq(CanonicalCall) /\ Len(b) = Len(ts) + 1
      /\ \A i \in 1..Len(ts) : b[i] = ts[i]
      /\ b[Len(ts) + 1] = e(c)
      /\ b = ts \o <<e(c)>>
  BY <1>4, AppendProperties, AppendIsConcat
<1> HIDE DEF b
<1>6. b = [i \in 1..Len(b) |-> b[i]]
  BY <1>5, LenProperties
<1>7. \A i \in 1..(Len(cs) + 1) : b[i] = e(a[i])
  BY <1>1, <1>3, <1>4, <1>5
<1>8. CallsOf(a) = b
  <2>1. CallsOf(a) = [i \in 1..(Len(cs) + 1) |-> e(a[i])] /\ b = [i \in 1..(Len(cs) + 1) |-> b[i]]
    BY <1>1, <1>3, <1>4, <1>5, <1>6
  <2>2. QED
    BY <1>7, <2>1
<1>9. CallsOf(<<>>) = <<>>
  BY EmptySeq DEF CallsOf
<1>10. QED
  BY <1>4, <1>5, <1>8, <1>9, ConcatEmptySeq DEF a, ts, e

\* A call joins the turn that is open.
LEMMA CallTaken ==
    ASSUME NEW ms \in Seq(CanonicalMessage), NEW turn \in CanonicalMessage, turn.role = "assistant",
           NEW c \in CallPiece
    PROVE  AfterItem(State(Append(ms, turn), None), Message("assistant", <<c>>)) =
               State(Append(ms, Assistant(turn.text, turn.reasoning, turn.calls \o <<ToolCall(c.id, c.text)>>)), None)
<1> DEFINE t == Append(ms, turn)
           s == State(t, None)
           m == Message("assistant", <<c>>)
           calls == <<ToolCall(c.id, c.text)>>
           more == WithCalls(turn, None, calls)
<1>1. c \in AnswerPiece /\ c.kind = "call"
  BY DEF CallPiece
<1>2. ToolCalls(<<c>>) = calls
  BY <1>1, OneRead
<1>3. m.pieces = <<c>> /\ m.pieces[1] = c
  BY DEF Message
<1>4. s.messages = t /\ s.pending = None
  BY StateParts
<1>5. /\ t \in Seq(CanonicalMessage) /\ Len(ms) \in Nat /\ Len(t) = Len(ms) + 1
      /\ \A i \in 1..Len(ms) : t[i] = ms[i]
      /\ t[Len(ms) + 1] = turn
  BY AppendProperties, LenProperties
<1> HIDE DEF s, t, m, calls, more
<1>6. t # <<>> /\ Last(t) = turn
  BY <1>5, EmptySeq DEF Last
<1>7. AfterItem(s, m) = AfterCall(s, m.pieces)
  BY <1>1, <1>3 DEF AfterItem
<1>8. AfterCall(s, m.pieces) = State([t EXCEPT ![Len(t)] = more],
                                     IF turn.reasoning = None THEN None ELSE None)
  BY <1>2, <1>3, <1>4, <1>6 DEF AfterCall, more, AnswersOpenTurn
<1>9. more = Assistant(turn.text, turn.reasoning, turn.calls \o calls)
  BY DEF more, WithCalls
<1>10. [t EXCEPT ![Len(t)] = more] = Append(ms, more)
  <2> DEFINE S == CanonicalMessage \cup {more}
             u == [t EXCEPT ![Len(t)] = more]
             v == Append(ms, more)
  <2>1. ms \in Seq(S) /\ more \in S /\ t \in Seq(S)
    BY <1>5, SeqMonotonic
  <2> HIDE DEF S
  <2>2. /\ v \in Seq(S) /\ Len(v) = Len(ms) + 1 /\ v[Len(ms) + 1] = more
        /\ \A i \in 1..Len(ms) : v[i] = ms[i]
    BY <2>1, AppendProperties
  <2>3. v = [i \in 1..Len(v) |-> v[i]]
    <3> HIDE DEF v
    <3>1. QED
      BY <2>2, LenProperties
  <2>4. u = [i \in 1..Len(t) |-> IF i = Len(t) THEN more ELSE t[i]]
    BY <1>5, LenProperties
  <2> HIDE DEF v, u
  <2>5. u = v
    BY <1>5, <2>2, <2>3, <2>4
  <2>6. QED
    BY <2>5 DEF u, v
<1>11. QED
  BY <1>7, <1>8, <1>9, <1>10 DEF s, t, m, calls

\* The first opens one.
LEMMA CallOpens ==
    ASSUME NEW ms \in Seq(CanonicalMessage), Settled(ms), NEW pending, NEW c \in CallPiece
    PROVE  AfterItem(State(ms, pending), Message("assistant", <<c>>)) =
               State(Append(ms, Assistant(None, pending, <<ToolCall(c.id, c.text)>>)), None)
<1> DEFINE s == State(ms, pending)
           m == Message("assistant", <<c>>)
           calls == <<ToolCall(c.id, c.text)>>
<1>1. c \in AnswerPiece /\ c.kind = "call"
  BY DEF CallPiece
<1>2. ToolCalls(<<c>>) = calls
  BY <1>1, OneRead
<1>3. m.pieces = <<c>> /\ m.pieces[1] = c
  BY DEF Message
<1>4. s.messages = ms /\ s.pending = pending
  BY StateParts
<1> HIDE DEF s, m, calls
<1>5. AfterItem(s, m) = AfterCall(s, m.pieces)
  BY <1>1, <1>3 DEF AfterItem
<1>6. ~AnswersOpenTurn(s)
  BY <1>4 DEF AnswersOpenTurn, Settled, Last
<1>7. AfterCall(s, m.pieces) = State(Append(ms, Assistant(None, pending, calls)), None)
  BY <1>2, <1>3, <1>4, <1>6 DEF AfterCall
<1>8. QED
  BY <1>5, <1>7 DEF s, m, calls

\* What a turn that says or calls something becomes, of any calls.
TurnOfPieces(answer, cs) ==
    Assistant(IF answer.text = <<>> THEN None ELSE answer.text,
              IF answer.reasoning = <<>> THEN None ELSE answer.reasoning,
              CallsOf(cs))

\* A text closes what was thought; calls join it.
LEMMA PiecesParsed ==
    ASSUME NEW h \in Seq(Utterable("responses")), h # <<>>, Last(h).role \in {"user", "tool"},
           NEW answer \in CanonicalAnswer, NEW cs \in Seq(CallPiece)
    PROVE  ParseOf("responses")[h \o Items(Made(answer, "summary", "parts", cs))] =
               IF answer.text = <<>> /\ cs = <<>>
               THEN State(ParseOf("responses")[h].messages,
                          IF answer.reasoning = <<>> THEN None ELSE answer.reasoning)
               ELSE State(Append(ParseOf("responses")[h].messages, TurnOfPieces(answer, cs)), None)
<1> DEFINE P == ParseOf("responses")
           f == "summary"
           g == "parts"
           p == Piece("reasoning", None, answer.reasoning, f)
           q == Piece("text", None, answer.text, g)
           t == Thought(answer, f)
           u == t \o Spoken(answer, g)
           s == P[h]
           ms == s.messages
           r == IF answer.reasoning = <<>> THEN None ELSE answer.reasoning
<1>1. f \in Form /\ g \in Form /\ answer.reasoning \in Seq(Nat) /\ answer.text \in Seq(Nat)
  BY AnswerPieces DEF Form
<1>2. p \in AnswerPiece /\ q \in AnswerPiece
  <2>1. "reasoning" \in PieceKind /\ "text" \in PieceKind
    BY DEF PieceKind
  <2> HIDE DEF f, g
  <2>2. QED
    BY <1>1, <2>1, PieceTyped
<1>3. p.kind = "reasoning" /\ p.text = answer.reasoning /\ q.kind = "text" /\ q.text = answer.text
  BY PieceParts
<1>4. s \in ParserState /\ s.pending = None /\ Settled(ms)
  BY AnswerableParsed
<1>5. /\ t = IF answer.reasoning # <<>> THEN <<p>> ELSE <<>>
      /\ u = t \o (IF answer.text # <<>> THEN <<q>> ELSE <<>>)
  BY DEF Thought, Spoken, When
<1>6. \A ps \in Seq(AnswerPiece) : \A x \in AnswerPiece :
         P[h \o Items(Append(ps, x))] = AfterItem(P[h \o Items(ps)], Message("assistant", <<x>>))
  BY NextItem
<1>7. t \in Seq(AnswerPiece) /\ u \in Seq(AnswerPiece)
  <2> HIDE DEF f, g
  <2>1. QED
    BY <1>1, MadeTyped
<1>8. P[h \o Items(<<>>)] = s
  BY EmptySeq, ConcatEmptySeq DEF Items
<1> HIDE DEF P, t, u, s, f, g, p, q
<1>9. s = State(ms, None) /\ ms \in Seq(CanonicalMessage)
  BY <1>4, StateParts
<1> HIDE DEF ms
<1>10. P[h \o Items(t)] = State(ms, r)
  <2>1. CASE answer.reasoning = <<>>
    BY <1>5, <1>8, <1>9, <2>1
  <2>2. CASE answer.reasoning # <<>>
    <3>1. t = Append(<<>>, p) /\ <<>> \in Seq(AnswerPiece)
      <4>1. <<p>> = Append(<<>>, p)
        OBVIOUS
      <4>2. QED
        BY <1>5, <2>2, <4>1, EmptySeq
    <3>2. P[h \o Items(t)] = AfterItem(State(ms, None), Message("assistant", <<p>>))
      BY <1>2, <1>6, <1>8, <1>9, <3>1
    <3>3. AfterItem(State(ms, None), Message("assistant", <<p>>)) = State(ms, answer.reasoning)
      BY <1>3, <2>2, StateParts DEF AfterItem, Message
    <3>4. QED
      BY <2>2, <3>2, <3>3
  <2>3. QED
    BY <2>1, <2>2
<1> HIDE DEF r
<1> DEFINE said == IF answer.text = <<>> THEN State(ms, r) ELSE State(Append(ms, Assistant(answer.text, r, <<>>)), None)
<1>11. P[h \o Items(u)] = said
  <2>1. CASE answer.text = <<>>
    BY <1>5, <1>7, <1>10, <2>1, ConcatEmptySeq
  <2>2. CASE answer.text # <<>>
    <3>1. u = Append(t, q)
      BY <1>2, <1>5, <1>7, <2>2, AppendIsConcat
    <3>2. P[h \o Items(u)] = AfterItem(State(ms, r), Message("assistant", <<q>>))
      BY <1>2, <1>6, <1>7, <1>10, <3>1
    <3>3. /\ Message("assistant", <<q>>).pieces = <<q>> /\ Message("assistant", <<q>>).pieces[1] = q
          /\ Message("assistant", <<q>>).role = "assistant"
      BY DEF Message
    <3>4. TextOf(<<q>>) = answer.text
      BY <1>2, <1>3, OneRead
    <3> DEFINE m == Message("assistant", <<q>>)
    <3>5. m.pieces = <<q>> /\ m.pieces[1].kind = "text" /\ m.role = "assistant"
      BY <1>3, <3>3
    <3> HIDE DEF m
    <3>6. AfterItem(State(ms, r), m) = State(Append(ms, Assistant(answer.text, r, <<>>)), None)
      BY <3>4, <3>5, StateParts DEF AfterItem, AfterText
    <3>7. QED
      BY <2>2, <3>2, <3>6 DEF m
  <2>3. QED
    BY <2>1, <2>2
<1> HIDE DEF said
<1> DEFINE turn(ds) == TurnOfPieces(answer, ds)
           made(ds) == IF answer.text = <<>> /\ ds = <<>> THEN State(ms, r) ELSE State(Append(ms, turn(ds)), None)
           T == {ds \in Seq(CallPiece) : P[h \o Items(u \o ds)] = made(ds)}
<1>12. CallsOf(<<>>) = <<>>
  BY EmptySeq DEF CallsOf
<1>13. <<>> \in T
  BY <1>7, <1>11, <1>12, ConcatEmptySeq, EmptySeq DEF said, TurnOfPieces, r
<1>14. ASSUME NEW ds \in Seq(CallPiece), NEW c \in CallPiece, ds \in T PROVE Append(ds, c) \in T
  <2>1. ds \in Seq(AnswerPiece) /\ c \in AnswerPiece
    BY SeqMonotonic DEF CallPiece
  <2>2. u \o Append(ds, c) = Append(u \o ds, c) /\ u \o ds \in Seq(AnswerPiece)
    BY <1>7, <2>1, BehindBoth, ConcatProperties
  <2>3. P[h \o Items(u \o ds)] = made(ds)
    BY <1>14
  <2>4. P[h \o Items(Append(u \o ds, c))] = AfterItem(made(ds), Message("assistant", <<c>>))
    <3> DEFINE v == u \o ds
               x == made(ds)
    <3>1. v \in Seq(AnswerPiece) /\ P[h \o Items(v)] = x
      BY <2>2, <2>3
    <3> HIDE DEF v, x
    <3>2. QED
      BY <1>6, <2>1, <3>1 DEF v, x
  <2>5. /\ CallsOf(Append(ds, c)) = CallsOf(ds) \o <<ToolCall(c.id, c.text)>>
        /\ CallsOf(ds) \in Seq(CanonicalCall)
        /\ CallsOf(<<>>) \o <<ToolCall(c.id, c.text)>> = <<ToolCall(c.id, c.text)>>
    BY MoreCalls
  <2>6. Append(ds, c) \in Seq(CallPiece) /\ Append(ds, c) # <<>>
    BY AppendProperties, EmptySeq
  <2>7. AfterItem(made(ds), Message("assistant", <<c>>)) = State(Append(ms, turn(Append(ds, c))), None)
    <3>1. CASE answer.text = <<>> /\ ds = <<>>
      <4>1. made(ds) = State(ms, r)
        BY <3>1
      <4>2. AfterItem(State(ms, r), Message("assistant", <<c>>)) =
                State(Append(ms, Assistant(None, r, <<ToolCall(c.id, c.text)>>)), None)
        BY <1>4, <1>9, CallOpens DEF ms
      <4>3. turn(Append(ds, c)) = Assistant(None, r, <<ToolCall(c.id, c.text)>>)
        BY <2>5, <3>1 DEF TurnOfPieces, r
      <4> HIDE DEF made, turn
      <4>4. QED
        BY <4>1, <4>2, <4>3
    <3>2. CASE ~(answer.text = <<>> /\ ds = <<>>)
      <4>1. made(ds) = State(Append(ms, turn(ds)), None)
        BY <3>2
      <4> DEFINE x == IF answer.text = <<>> THEN None ELSE answer.text
                 y == turn(ds)
      <4>2. y = Assistant(x, r, CallsOf(ds)) /\ turn(Append(ds, c)) = Assistant(x, r, CallsOf(Append(ds, c)))
        BY DEF TurnOfPieces, r
      <4>3. x \in Seq(Nat) \cup {None} /\ r \in Seq(Nat) \cup {None}
        BY <1>1 DEF r
      <4> HIDE DEF made, turn, x, y
      <4>4. y \in CanonicalMessage /\ y.role = "assistant"
        BY <2>5, <4>2, <4>3, MessagesTyped
      <4>5. AfterItem(State(Append(ms, y), None), Message("assistant", <<c>>)) =
                State(Append(ms, Assistant(y.text, y.reasoning, y.calls \o <<ToolCall(c.id, c.text)>>)), None)
        BY <1>9, <4>4, CallTaken
      <4>6. QED
        BY <2>5, <4>1, <4>2, <4>5 DEF y, Assistant
    <3>3. QED
      BY <3>1, <3>2
  <2>8. made(Append(ds, c)) = State(Append(ms, turn(Append(ds, c))), None)
    BY <2>6
  <2> HIDE DEF made, turn
  <2>9. QED
    BY <2>2, <2>4, <2>6, <2>7, <2>8
<1>15. cs \in T
  <2> HIDE DEF T
  <2>1. QED
    BY <1>13, <1>14, Appending
<1>16. P[h \o Items(u \o cs)] = IF answer.text = <<>> /\ cs = <<>> THEN State(ms, r)
                                ELSE State(Append(ms, turn(cs)), None)
  BY <1>15
<1>17. Made(answer, "summary", "parts", cs) = u \o cs
  BY DEF Made, u, t, f, g
<1>18. QED
  BY <1>16, <1>17 DEF P, ms, s, r

\* A turn through a Responses client's history (parse_input_item).
LEMMA ResponsesTurn ==
    ASSUME NEW answer \in CanonicalAnswer, dialect = "responses", repeats, Memorable(answer),
           NEW h \in Seq(Utterable("responses")), h # <<>>, Last(h).role \in {"user", "tool"}
    PROVE  ParseOf("responses")[h \o Echo(answer)] =
               State(Append(ParseOf("responses")[h].messages, Remembered(answer)), None)
<1> DEFINE is == FinalItems(answer)
           kept == {m \in ToSet(is) : repeats \/ m.pieces[1].kind # "call"}
           cs == CallPieces(answer)
<1>1. is \in Seq(Utterable("responses"))
  BY FinalItemsTyped
<1>2. Echo(answer) = Among(is, kept)
  BY DEF Echo
<1>3. \A i \in 1..Len(is) : is[i] \in kept
  <2>1. \A i \in 1..Len(is) : is[i] \in ToSet(is)
    <3> HIDE DEF is
    <3>1. QED
      BY <1>1, LenProperties DEF ToSet
  <2> HIDE DEF is
  <2>2. QED
    BY <2>1
<1>4. is = Items(Deltas(answer))
  BY DEF FinalItems, Items, Message
<1> HIDE DEF is, kept
<1>5. Echo(answer) = is
  BY <1>1, <1>2, <1>3, AmongAll
<1>6. answer.key # "hidden" /\ (answer.text # <<>> \/ answer.calls # <<>>)
  BY DEF Memorable
<1>7. Deltas(answer) = Made(answer, "summary", "parts", cs)
  BY <1>6 DEF Deltas, ReasoningOf, Made, Thought, Spoken
<1>8. /\ cs \in Seq(CallPiece) /\ (cs = <<>> <=> answer.calls = <<>>)
      /\ CallsOf(cs) = [c \in 1..Len(answer.calls) |-> ToolCall(answer.calls[c].id, answer.calls[c].body)]
  BY AskedTyped
<1>9. TurnOfPieces(answer, cs) = Remembered(answer)
  <2>1. Remembered(answer) = Assistant(IF answer.text = <<>> THEN None ELSE answer.text,
                                       IF answer.reasoning = <<>> THEN None ELSE answer.reasoning,
                                       [c \in 1..Len(answer.calls) |->
                                           ToolCall(answer.calls[c].id, answer.calls[c].body)])
    BY DEF Remembered
  <2> HIDE DEF cs
  <2>2. QED
    BY <1>8, <2>1 DEF TurnOfPieces
<1> HIDE DEF cs
<1>10. ParseOf("responses")[h \o Items(Made(answer, "summary", "parts", cs))] =
           State(Append(ParseOf("responses")[h].messages, TurnOfPieces(answer, cs)), None)
  BY <1>6, <1>8, PiecesParsed
<1>11. QED
  BY <1>4, <1>5, <1>7, <1>9, <1>10

-----------------------------------------------------------------------------
\* What was remembered of a history goes out.

\* The parser made that message of it.
Holds(h, m) == \E j \in 1..Len(ParseOf(dialect)[h].messages) : ParseOf(dialect)[h].messages[j] = m

\* A history that goes on with one message of a turn holds that turn.
LEMMA TurnHeld ==
    ASSUME NEW d \in Dialect, NEW h \in Seq(Utterable(d)), NEW m \in Utterable(d), NEW turn,
           \/ d = "anthropic" /\ AnthropicAdds(m) = <<turn>>
           \/ d = "chat" /\ ChatAdds(m) = <<turn>>
    PROVE  ParseOf(d)[Append(h, m)].messages = Append(ParseOf(d)[h].messages, turn)
<1> DEFINE s == ParseOf(d)[h]
<1>1. s \in ParserState /\ ParseOf(d)[Append(h, m)] = After(d, s, m)
  BY ParseLaws
<1> HIDE DEF s
<1>2. After(d, s, m) = State(s.messages \o <<turn>>, s.pending)
  BY DEF After
<1>3. s.messages \in Seq(CanonicalMessage)
  BY <1>1, StateParts
<1>4. s.messages \o <<turn>> = Append(s.messages, turn)
  <2> DEFINE S == CanonicalMessage \cup {turn}
  <2>1. s.messages \in Seq(S) /\ turn \in S
    BY <1>3, SeqMonotonic
  <2> HIDE DEF S
  <2>2. QED
    BY <2>1, AppendIsConcat
<1>5. After(d, s, m).messages = s.messages \o <<turn>>
  BY <1>2, StateParts
<1>6. QED
  BY <1>1, <1>4, <1>5 DEF s

\* What comes back holds the answer, in every dialect.
LEMMA EchoHolds ==
    ASSUME dialect \in Dialect, history \in Seq(Utterable(dialect)), repeats,
           history # <<>>, Last(history).role \in {"user", "tool"},
           NEW answer \in CanonicalAnswer, Memorable(answer)
    PROVE  Holds(history \o Echo(answer), Remembered(answer))
<1> DEFINE d == dialect
           ms == ParseOf(d)[history].messages
           turn == Remembered(answer)
           more == Append(ms, turn)
<1>1. ms \in Seq(CanonicalMessage)
  BY RequestTyped
<1>2. ParseOf(d)[history \o Echo(answer)].messages = more
  <2>1. CASE d = "responses"
    <3>1. ParseOf(d)[history \o Echo(answer)] = State(more, None)
      BY <2>1, ResponsesTurn
    <3> HIDE DEF more, d
    <3>2. QED
      BY <3>1, StateParts
  <2>2. CASE d = "anthropic"
    <3>1. PICK m \in Utterable("anthropic") : Echo(answer) = <<m>> /\ AnthropicAdds(m) = <<turn>>
      BY <2>2, AnthropicTurn
    <3>2. m \in Utterable(d) /\ history \o <<m>> = Append(history, m)
      BY <2>2, <3>1, AppendIsConcat
    <3> HIDE DEF turn
    <3>3. ParseOf(d)[Append(history, m)].messages = Append(ms, turn)
      BY <2>2, <3>1, <3>2, TurnHeld
    <3>4. QED
      BY <3>1, <3>2, <3>3
  <2>3. CASE d = "chat"
    <3>1. PICK m \in Utterable("chat") : Echo(answer) = <<m>> /\ ChatAdds(m) = <<turn>>
      BY <2>3, ChatTurn
    <3>2. m \in Utterable(d) /\ history \o <<m>> = Append(history, m)
      BY <2>3, <3>1, AppendIsConcat
    <3> HIDE DEF turn
    <3>3. ParseOf(d)[Append(history, m)].messages = Append(ms, turn)
      BY <2>3, <3>1, <3>2, TurnHeld
    <3>4. QED
      BY <3>1, <3>2, <3>3
  <2>4. QED
    BY <2>1, <2>2, <2>3 DEF Dialect
<1> HIDE DEF ms, turn
<1>3. Len(more) \in 1..Len(more) /\ more[Len(more)] = turn
  <2> DEFINE S == CanonicalMessage \cup {turn}
  <2>1. ms \in Seq(S) /\ turn \in S
    BY <1>1, SeqMonotonic
  <2> HIDE DEF S
  <2>2. QED
    BY <2>1, AppendProperties, LenProperties
<1> HIDE DEF more
<1>4. QED
  BY <1>2, <1>3 DEF Holds, turn

\* A message that is placed stands at the end.
LEMMA PlacedLast ==
    ASSUME NEW s \in LoopState, NEW m \in CanonicalMessage
    PROVE  \E k \in 1..Len(Placed(s, m).out) : Placed(s, m).out[k] = m
<1>1. s.out \in Seq(CanonicalMessage) /\ Len(s.out) \in Nat
  BY LoopParts, LenProperties
<1>2. Append(s.out, m)[Len(s.out) + 1] = m /\ Len(Append(s.out, m)) = Len(s.out) + 1
  BY <1>1, AppendProperties
<1>3. CASE m.role = "tool" /\ m.id \notin s.announced \ {NoId}
  <2> DEFINE parent == Parents!Parent(m.id)
             both == <<parent, m>>
             more == s.out \o both
  <2>1. Placed(s, m).out = more
    BY <1>3, LoopParts DEF Placed
  <2>2. parent \in CanonicalMessage
    BY <1>3, CanonicalParts, ParentTyped
  <2> HIDE DEF parent
  <2>3. both \in Seq(CanonicalMessage) /\ Len(both) = 2 /\ both[2] = m
    BY <2>2
  <2> HIDE DEF both
  <2>4. /\ Len(more) = Len(s.out) + 2
        /\ \A i \in 1..(Len(s.out) + 2) : more[i] = IF i <= Len(s.out) THEN s.out[i] ELSE both[i - Len(s.out)]
    BY <1>1, <2>3, ConcatProperties, SMTT(30)
  <2> HIDE DEF more
  <2>5. QED
    BY <1>1, <2>1, <2>3, <2>4
<1>4. CASE ~(m.role = "tool" /\ m.id \notin s.announced \ {NoId})
  <2>1. Placed(s, m).out = Append(s.out, m)
    BY <1>4, LoopParts DEF Placed
  <2>2. QED
    BY <1>1, <1>2, <2>1
<1>5. QED
  BY <1>3, <1>4

\* Whatever the parser made goes out (normalize_tool_parents).
LEMMA AllGoOut ==
    ASSUME NEW ms \in Seq(CanonicalMessage)
    PROVE  \A j \in 1..Len(ms) : \E k \in 1..Len(NormalOf[ms].out) : NormalOf[ms].out[k] = ms[j]
<1> DEFINE GoOut(s) == \A j \in 1..Len(s) : \E k \in 1..Len(NormalOf[s].out) : NormalOf[s].out[k] = s[j]
           T == {s \in Seq(CanonicalMessage) : GoOut(s)}
<1>1. <<>> \in T
  BY EmptySeq
<1>2. ASSUME NEW s \in Seq(CanonicalMessage), NEW m \in CanonicalMessage, s \in T PROVE Append(s, m) \in T
  <2> DEFINE a == Append(s, m)
             old == NormalOf[s]
             new == NormalOf[a]
  <2>1. /\ a \in Seq(CanonicalMessage) /\ Len(s) \in Nat /\ Len(a) = Len(s) + 1
        /\ \A i \in 1..Len(s) : a[i] = s[i]
        /\ a[Len(s) + 1] = m
    BY AppendProperties, LenProperties
  <2>2. old \in LoopState /\ new = Placed(old, m)
    BY NormalLaws
  <2>3. \A j \in 1..Len(s) : \E k \in 1..Len(old.out) : old.out[k] = s[j]
    BY <1>2
  <2> HIDE DEF a, old, new, T
  <2>4. Extends(old.out, new.out)
    BY <2>2, PlacedTyped
  <2>5. \E k \in 1..Len(new.out) : new.out[k] = m
    BY <2>2, PlacedLast
  <2>6. Len(old.out) \in Nat /\ Len(new.out) \in Nat
    BY <2>2, LenProperties, PlacedTyped, LoopParts
  <2>7. ASSUME NEW j \in 1..Len(a) PROVE \E k \in 1..Len(new.out) : new.out[k] = a[j]
    <3>1. CASE j = Len(s) + 1
      BY <2>1, <2>5, <3>1
    <3>2. CASE j # Len(s) + 1
      <4>1. j \in 1..Len(s) /\ a[j] = s[j]
        BY <2>1, <3>2
      <4>2. PICK k \in 1..Len(old.out) : old.out[k] = s[j]
        BY <2>3, <4>1
      <4>3. QED
        BY <2>4, <2>6, <4>1, <4>2 DEF Extends
    <3>3. QED
      BY <3>1, <3>2
  <2>8. QED
    BY <2>1, <2>7 DEF T, a, new
<1>3. \A s \in Seq(CanonicalMessage) : s \in T
  <2> HIDE DEF T
  <2>1. QED
    BY <1>1, <1>2, Appending
<1>4. QED
  BY <1>3

-----------------------------------------------------------------------------
\* What is remembered is kept.

\* It was made of the history up to a message that the model was to answer, so
\* it stays.
Kept(h, m) ==
    \E k \in 1..Len(h) : h[k].role \in {"user", "tool"} /\ Holds(SubSeq(h, 1, k), m)

Standing(m) == Kept(history, m) \/ (pc = "client" /\ Holds(history, m))

ComesBackInv ==
    /\ answers \in Seq(CanonicalAnswer)
    /\ pc = "upstream" => out = seen /\ Answerable(Len(history))
    /\ repeats => \A n \in 1..Len(answers) : Memorable(answers[n]) => Standing(Remembered(answers[n]))

\* A message that the model is to answer only puts more behind what there was.
LEMMA PutBehind ==
    ASSUME NEW d \in Dialect, NEW h \in Seq(Utterable(d)), NEW m \in Utterable(d),
           m.role \in {"user", "tool"}
    PROVE  Extends(ParseOf(d)[h].messages, ParseOf(d)[Append(h, m)].messages)
<1> DEFINE s == ParseOf(d)[h]
<1>1. s \in ParserState /\ ParseOf(d)[Append(h, m)] = After(d, s, m)
  BY ParseLaws
<1> HIDE DEF s
<1>2. CASE d # "responses"
  BY <1>1, <1>2, AfterTyped DEF s
<1>3. CASE d = "responses"
  <2> SUFFICES Extends(s.messages, After(d, s, m).messages)
    BY <1>1 DEF s
  <2> DEFINE ms == s.messages
  <2>1. m \in Utterable("responses")
    BY <1>3
  <2>2. ms \in Seq(CanonicalMessage) /\ m.pieces \in Seq(HistoryPiece) /\ Named(m.pieces)
    BY <1>1, <2>1, StateParts, Uttered
  <2>3. ASSUME NEW x \in CanonicalMessage, After(d, s, m) = State(Append(ms, x), None)
        PROVE  Extends(ms, After(d, s, m).messages)
    <3> HIDE DEF ms
    <3>1. State(Append(ms, x), None).messages = Append(ms, x)
      BY StateParts
    <3>2. QED
      BY <2>2, <2>3, <3>1, ExtendedByOne
  <2>4. /\ m.pieces[1] \in HistoryPiece
        /\ m.pieces[1].kind = "output" => m.pieces[1].id \in CallId
        /\ m.role = "tool" <=> m.pieces[1].kind = "output"
        /\ m.pieces[1].kind \in {"call", "reasoning", "other"} => m.role = "assistant"
    BY <2>1, Uttered
  <2>5. m.pieces[1].text \in Seq(Nat) /\ m.pieces[1].kind \in {"text", "reasoning", "call", "output", "other"}
    BY <2>4 DEF HistoryPiece, PieceKind
  <2>6. CASE m.pieces[1].kind = "text"
    BY <1>3, <2>2, <2>3, <2>4, <2>6, TextTyped, MessagesTyped DEF After, AfterItem, AfterText
  <2>7. CASE m.pieces[1].kind = "output"
    BY <1>3, <2>3, <2>4, <2>5, <2>7, MessagesTyped DEF After, AfterItem
  <2>8. QED
    BY <2>4, <2>5, <2>6, <2>7
<1>4. QED
  BY <1>2, <1>3

\* What is put behind takes nothing away.
LEMMA StillHeld ==
    ASSUME NEW h, NEW g, NEW m, Holds(h, m),
           ParseOf(dialect)[h].messages \in Seq(CanonicalMessage),
           ParseOf(dialect)[g].messages \in Seq(CanonicalMessage),
           Extends(ParseOf(dialect)[h].messages, ParseOf(dialect)[g].messages)
    PROVE  Holds(g, m)
<1> DEFINE s == ParseOf(dialect)[h].messages
           t == ParseOf(dialect)[g].messages
<1>1. Len(s) \in Nat /\ Len(t) \in Nat
  BY LenProperties
<1>2. \E j \in 1..Len(s) : s[j] = m
  BY DEF Holds
<1>3. Extends(s, t)
  OBVIOUS
<1> HIDE DEF s, t
<1>4. QED
  BY <1>1, <1>2, <1>3 DEF Holds, t, Extends

\* What was made of a history that the model is to answer is kept.
LEMMA KeptNow ==
    ASSUME NEW d, NEW h \in Seq(Utterable(d)), Len(h) \in 1..Len(h), h[Len(h)].role \in {"user", "tool"},
           NEW m, Holds(h, m)
    PROVE  Kept(h, m)
  BY UpTo DEF Kept

\* It is kept when the history goes on.
LEMMA KeptOn ==
    ASSUME NEW d, NEW h \in Seq(Utterable(d)), NEW more \in Seq(Utterable(d)), NEW m, Kept(h, m)
    PROVE  Kept(h \o more, m)
<1> DEFINE g == h \o more
<1>1. /\ Len(h) \in Nat /\ Len(g) \in Nat /\ Len(h) <= Len(g) /\ g \in Seq(Utterable(d))
      /\ \A i \in 1..Len(h) : g[i] = h[i]
  <2>1. g \in Seq(Utterable(d)) /\ Extends(h, g)
    BY ConcatProperties, ExtendedByMore
  <2> HIDE DEF g
  <2>2. QED
    BY <2>1, LenProperties DEF Extends
<1> HIDE DEF g
<1>2. PICK k \in 1..Len(h) : h[k].role \in {"user", "tool"} /\ Holds(SubSeq(h, 1, k), m)
  BY DEF Kept
<1>3. k \in 1..Len(g) /\ g[k] = h[k]
  BY <1>1
<1>4. SubSeq(g, 1, k) = SubSeq(h, 1, k)
  <2>1. SubSeq(g, 1, k) = [i \in 1..k |-> g[i]] /\ SubSeq(h, 1, k) = [i \in 1..k |-> h[i]]
    BY <1>1
  <2>2. \A i \in 1..k : i \in 1..Len(h)
    BY <1>1
  <2>3. QED
    BY <1>1, <2>1, <2>2
<1>5. Kept(g, m)
  BY <1>2, <1>3, <1>4 DEF Kept
<1>6. QED
  BY <1>5 DEF g

\* What the client has only now becomes kept, when it goes on with something
\* that the model is to answer.
LEMMA KeptSoon ==
    ASSUME dialect \in Dialect, NEW h \in Seq(Utterable(dialect)), NEW more \in Seq(Utterable(dialect)),
           more # <<>>, more[1].role \in {"user", "tool"}, NEW m, Holds(h, m)
    PROVE  Kept(h \o more, m)
<1> DEFINE U == Utterable(dialect)
           g == h \o more
           next == more[1]
           one == Append(h, next)
           n == Len(h) + 1
<1>1. Len(h) \in Nat /\ Len(more) \in Nat /\ Len(more) # 0 /\ next \in U
  BY LenProperties, EmptySeq, ElementOfSeq
<1>2. /\ Len(g) = Len(h) + Len(more) /\ g \in Seq(U)
      /\ \A i \in 1..(Len(h) + Len(more)) : g[i] = IF i <= Len(h) THEN h[i] ELSE more[i - Len(h)]
  BY ConcatProperties
<1>3. one \in Seq(U) /\ Len(one) = n /\ (\A i \in 1..Len(h) : one[i] = h[i]) /\ one[n] = next
  BY <1>1, AppendProperties
<1> HIDE DEF g, one
<1>4. n \in 1..Len(g) /\ g[n] = next
  BY <1>1, <1>2
<1>5. SubSeq(g, 1, n) = one
  <2>1. one = [i \in 1..n |-> one[i]]
    BY <1>3, LenProperties
  <2>2. ASSUME NEW i \in 1..n PROVE g[i] = one[i]
    BY <1>1, <1>2, <1>3, <1>4
  <2>3. QED
    BY <1>1, <1>4, <2>1, <2>2
<1>6. Holds(one, m)
  <2>1. Extends(ParseOf(dialect)[h].messages, ParseOf(dialect)[one].messages)
    BY <1>1, PutBehind DEF one
  <2>2. QED
    BY <1>3, <2>1, StillHeld, RequestTyped
<1>7. QED
  BY <1>4, <1>5, <1>6 DEF g, Kept

\* What is kept is in the request.
LEMMA KeptGoesOut ==
    ASSUME dialect \in Dialect, NEW h \in Seq(Utterable(dialect)), NEW m, Kept(h, m)
    PROVE  \E k \in 1..Len(Request(dialect, h)) : Request(dialect, h)[k] = m
<1> DEFINE ms == ParseOf(dialect)[h].messages
<1>1. PICK k \in 1..Len(h) : h[k].role \in {"user", "tool"} /\ Holds(SubSeq(h, 1, k), m)
  BY DEF Kept
<1>2. SubSeq(h, 1, k) \in Seq(Utterable(dialect))
  BY UpTo, LenProperties
<1>3. /\ ParseOf(dialect)[SubSeq(h, 1, k)].messages \in Seq(CanonicalMessage)
      /\ ParseOf(dialect)[h].messages \in Seq(CanonicalMessage)
  BY <1>2, RequestTyped
<1>4. Holds(h, m)
  BY <1>1, <1>3, StillHeld, ParseGrows
<1>5. PICK j \in 1..Len(ms) : ms[j] = m
  BY <1>4 DEF Holds
<1>6. ms \in Seq(CanonicalMessage)
  BY <1>3
<1>7. Request(dialect, h) = NormalOf[ms].out
  BY DEF Request
<1> HIDE DEF ms
<1>8. \E n \in 1..Len(NormalOf[ms].out) : NormalOf[ms].out[n] = m
  BY <1>5, <1>6, AllGoOut
<1>9. QED
  BY <1>7, <1>8

\* What the client adds leaves everything kept, if the model is to answer it.
LEMMA MoreComesBack ==
    ASSUME RequestInv, ComesBackInv, NEW more \in Seq(Utterable(dialect)), history' = history \o more,
           more # <<>>, more[1].role \in {"user", "tool"},
           dialect' = dialect, repeats' = repeats, answers' = answers, pc' = "client"
    PROVE  ComesBackInv'
<1>1. dialect \in Dialect /\ history \in Seq(Utterable(dialect))
  BY DEF RequestInv, Typed
<1>2. answers' \in Seq(CanonicalAnswer)
  BY DEF ComesBackInv
<1>3. ASSUME repeats, NEW n \in 1..Len(answers), Memorable(answers[n])
      PROVE  Standing(Remembered(answers[n]))'
  <2> DEFINE m == Remembered(answers[n])
  <2>1. Standing(m)
    BY <1>3 DEF ComesBackInv
  <2>2. m' = m
    BY DEF Remembered
  <2> HIDE DEF m
  <2>3. Kept(history \o more, m)
    BY <1>1, <2>1, KeptOn, KeptSoon DEF Standing
  <2>4. Standing(m)'
    BY <2>2, <2>3 DEF Standing, Kept, Holds
  <2>5. QED
    BY <2>4 DEF m
<1>4. QED
  BY <1>2, <1>3 DEF ComesBackInv, Memorable

\* As long as nothing is said, everything that was kept is.
LEMMA NothingIsLost ==
    ASSUME RequestInv, ComesBackInv, UNCHANGED <<dialect, repeats, history, answers>>,
           \/ pc # "client" \/ pc' = "client"
           \/ Len(history) \in 1..Len(history) /\ history[Len(history)].role \in {"user", "tool"},
           pc' = "upstream" => (out = seen /\ Answerable(Len(history)))'
    PROVE  ComesBackInv'
<1>1. dialect \in Dialect /\ history \in Seq(Utterable(dialect))
  BY DEF RequestInv, Typed
<1>2. answers' \in Seq(CanonicalAnswer)
  BY DEF ComesBackInv
<1>3. ASSUME repeats, NEW n \in 1..Len(answers), Memorable(answers[n])
      PROVE  Standing(Remembered(answers[n]))'
  <2> DEFINE m == Remembered(answers[n])
  <2>1. Standing(m)
    BY <1>3 DEF ComesBackInv
  <2>2. m' = m
    BY DEF Remembered
  <2> HIDE DEF m
  <2>3. Kept(history, m)' <=> Kept(history, m)
    BY <2>2 DEF Kept, Holds
  <2>4. CASE Kept(history, m)
    BY <2>3, <2>4 DEF Standing, m
  <2>5. CASE pc = "client" /\ Holds(history, m) /\ ~Kept(history, m)
    BY <1>1, <2>2, <2>5, KeptNow DEF Standing, m, Holds
  <2>6. QED
    BY <2>1, <2>4, <2>5 DEF Standing
<1>4. QED
  BY <1>2, <1>3 DEF ComesBackInv, Memorable

\* A new answer stands in what the client keeps of it.
LEMMA AnswerStands ==
    ASSUME RequestInv, ComesBackInv, NEW answer \in CanonicalAnswer, pc = "upstream", pc' = "client",
           dialect' = dialect, repeats' = repeats,
           answers' = Append(answers, answer), history' = history \o Echo(answer)
    PROVE  ComesBackInv'
<1>1. dialect \in Dialect /\ history \in Seq(Utterable(dialect))
  BY DEF RequestInv, Typed
<1>2. /\ answers' \in Seq(CanonicalAnswer) /\ Len(answers) \in Nat /\ Len(answers') = Len(answers) + 1
      /\ \A n \in 1..Len(answers) : answers'[n] = answers[n]
      /\ answers'[Len(answers) + 1] = answer
  BY AppendProperties, LenProperties DEF ComesBackInv
<1>3. history # <<>> /\ Last(history).role \in {"user", "tool"}
  BY <1>1, EmptySeq DEF ComesBackInv, Answerable, Last
<1>4. ASSUME repeats, NEW a, Memorable(a), a = answer \/ Kept(history, Remembered(a))
      PROVE  Standing(Remembered(a))'
  <2> DEFINE m == Remembered(a)
  <2>1. m' = m
    BY DEF Remembered
  <2>2. CASE a = answer
    <3>1. Holds(history \o Echo(answer), m)
      BY <1>1, <1>3, <1>4, <2>2, EchoHolds
    <3> HIDE DEF m
    <3>2. QED
      BY <2>1, <3>1 DEF Standing, m, Holds
  <2>3. CASE Kept(history, m)
    <3> HIDE DEF m
    <3>1. Kept(history \o Echo(answer), m)
      BY <1>1, <2>3, KeptOn, EchoTyped
    <3>2. Kept(history, m)'
      BY <2>1, <3>1 DEF Kept, Holds
    <3>3. QED
      BY <3>2 DEF Standing, m
  <2>4. QED
    BY <1>4, <2>2, <2>3
<1>5. ASSUME NEW n \in 1..Len(answers'), repeats, NEW a, a = answers'[n], Memorable(a)
      PROVE  Standing(Remembered(a))'
  BY <1>2, <1>4, <1>5 DEF ComesBackInv, Standing
<1>6. repeats' => \A n \in 1..Len(answers') : Memorable(answers[n])' => Standing(Remembered(answers[n]))'
  <2>1. \A a : Memorable(a)' <=> Memorable(a)
    BY DEF Memorable
  <2> SUFFICES ASSUME repeats, NEW n \in 1..Len(answers'), Memorable(answers[n])'
               PROVE  Standing(Remembered(answers[n]))'
    OBVIOUS
  <2>2. PICK a : a = answers'[n]
    OBVIOUS
  <2>3. Standing(Remembered(a))'
    BY <1>5, <2>1, <2>2 DEF Memorable
  <2>4. PICK r : r = Remembered(a)'
    OBVIOUS
  <2>5. r = Remembered(answers[n])'
    BY <2>2, <2>4 DEF Remembered
  <2>6. QED
    BY <2>3, <2>4, <2>5 DEF Standing, Kept, Holds
<1>7. QED
  BY <1>2, <1>6 DEF ComesBackInv

-----------------------------------------------------------------------------
\* Nothing was answered.
LEMMA InitComesBack == Init => ComesBackInv
<1> SUFFICES ASSUME Init PROVE ComesBackInv
  OBVIOUS
<1>1. answers = <<>> /\ pc = "client"
  BY DEF Init
<1>2. QED
  BY <1>1, EmptySeq DEF ComesBackInv

\* Every step keeps what was answered.
LEMMA NextComesBack == RequestInv /\ ComesBackInv /\ [Next]_vars => ComesBackInv'
<1> SUFFICES ASSUME RequestInv, ComesBackInv, [Next]_vars PROVE ComesBackInv'
  OBVIOUS
<1>1. /\ dialect \in Dialect /\ history \in Seq(Utterable(dialect)) /\ clock \in Nat /\ owed \in Seq(CallId)
      /\ Len(history) \in Nat
  BY LenProperties DEF RequestInv, Typed
<1>2. CASE Say
  <2> DEFINE text == <<Fragment(clock + 1, 1)>>
             m == Message("user", <<Piece("text", None, text, "string")>>)
  <2>1. /\ history' = Append(history, m)
        /\ pc' = "client" /\ dialect' = dialect /\ repeats' = repeats /\ answers' = answers
    BY <1>2 DEF Say, given
  <2>2. text \in Seq(Nat)
    <3>1. clock + 1 \in Nat
      BY <1>1
    <3>2. QED
      BY <3>1, FragmentTyped
  <2>3. m.role = "user"
    BY DEF Message
  <2> HIDE DEF text
  <2>4. m \in Utterable(dialect)
    BY <2>2, SaidIsUtterable
  <2> HIDE DEF m
  <2>5. history' = history \o <<m>> /\ <<m>> \in Seq(Utterable(dialect))
    BY <1>1, <2>1, <2>4, AppendIsConcat
  <2>6. QED
    BY <2>1, <2>3, <2>5, MoreComesBack
<1>3. CASE ReturnResults
  <2>1. PICK more \in Seq(Utterable(dialect)) :
            /\ history' = history \o more
            /\ more # <<>> /\ more[1].role \in {"user", "tool"}
    BY <1>1, <1>3, ReturnedIsUtterable
  <2>2. QED
    BY <1>3, <2>1, MoreComesBack DEF ReturnResults, given
<1>4. CASE Send
  BY <1>1, <1>4, EmptySeq, NothingIsLost DEF Send, given, client, Awaiting, Last
<1>5. CASE Parse \/ Parsed \/ Normalize
  BY <1>5, NothingIsLost DEF Parse, Parsed, Normalize, given, client
<1>6. CASE Dispatch
  BY <1>1, <1>6, WholeRequest, NothingIsLost DEF Dispatch, given, client, RequestInv, Answerable
<1>7. CASE Respond
  <2>1. PICK shape \in Shapes :
            /\ answers' = Append(answers, Answer(shape))
            /\ history' = history \o Echo(Answer(shape))
    BY <1>7 DEF Respond
  <2>2. Answer(shape) \in CanonicalAnswer
    BY <1>1, AnswerTyped
  <2>3. QED
    BY <1>7, <2>1, <2>2, AnswerStands DEF Respond, given
<1>8. CASE Fail
  BY <1>8, NothingIsLost DEF Fail, given, client
<1>9. CASE Over \/ UNCHANGED vars
  BY <1>9, NothingIsLost DEF Over, vars, given, client, ComesBackInv, Answerable
<1>10. QED
  BY <1>2, <1>3, <1>4, <1>5, <1>6, <1>7, <1>8, <1>9 DEF Next

\* What stands when the upstream is asked goes out.
LEMMA StandingGoesOut == RequestInv /\ ComesBackInv => AnswersComeBack
<1> SUFFICES ASSUME RequestInv, ComesBackInv, pc = "upstream", repeats,
                    NEW n \in 1..Len(answers), Memorable(answers[n])
             PROVE  \E k \in 1..Len(out) : out[k] = Remembered(answers[n])
  BY DEF AnswersComeBack
<1> DEFINE m == Remembered(answers[n])
<1>1. dialect \in Dialect /\ history \in Seq(Utterable(dialect))
  BY DEF RequestInv, Typed
<1>2. out = Request(dialect, history)
  BY DEF RequestInv, Building, ComesBackInv
<1>3. Kept(history, m)
  BY DEF ComesBackInv, Standing
<1> HIDE DEF m
<1>4. QED
  BY <1>1, <1>2, <1>3, KeptGoesOut DEF m

\* Every memorable answer of the conversation, however long it gets and
\* whatever fails, is in every later request as one turn: the emitters, the
\* client's history and the parser together lose nothing of it
\* (parse_input_item, the Anthropic and Chat parsers, normalize_tool_parents).
THEOREM AnswersAreRemembered == Spec => []AnswersComeBack
<1>1. Init => RequestInv /\ ComesBackInv
  BY InitRequestInv, InitComesBack
<1>2. RequestInv /\ ComesBackInv /\ [Next]_vars => (RequestInv /\ ComesBackInv)'
  BY NextRequestInv, NextComesBack
<1>3. RequestInv /\ ComesBackInv => AnswersComeBack
  BY StandingGoesOut
<1>4. QED
  BY <1>1, <1>2, <1>3, PTL DEF Spec

-----------------------------------------------------------------------------
\* Results right behind their turn.

\* The last turn calls it, and only results came since.
Follows(ms, id) ==
    \E j \in 1..Len(ms) :
        /\ ms[j].role = "assistant" /\ Calls(ms[j], id)
        /\ \A i \in (j + 1)..Len(ms) : ms[i].role = "tool"

\* What a strict upstream accepts.
Accepted(ms) ==
    \A k \in 1..Len(ms) : ms[k].role = "tool" =>
        \E j \in 1..(k - 1) :
            /\ ms[j].role = "assistant" /\ Calls(ms[j], ms[k].id)
            /\ \A i \in (j + 1)..k : ms[i].role = "tool"

Results(ms) == {k \in 1..Len(ms) : ms[k].role = "tool"}

\* A conversation with its calls.
Structured(ms) == Accepted(ms) /\ \A k \in Results(ms) : ms[k].id # NoId

\* One without, each result once.
Unclaimed(ms) ==
    /\ \A k \in 1..Len(ms) : ms[k].role = "assistant" => ms[k].calls = <<>>
    /\ \A k \in Results(ms) : ms[k].id # NoId
    /\ \A j, k \in Results(ms) : ms[j].id = ms[k].id => j = k

\* One more message is accepted, unless it is a result that is out of place.
LEMMA AcceptedOne ==
    ASSUME NEW ms \in Seq(CanonicalMessage), NEW m \in CanonicalMessage
    PROVE  Accepted(Append(ms, m)) <=> Accepted(ms) /\ (m.role = "tool" => Follows(ms, m.id))
<1> DEFINE a == Append(ms, m)
           n == Len(ms)
           Within(s, j, k, id) == /\ s[j].role = "assistant" /\ Calls(s[j], id)
                                  /\ \A i \in (j + 1)..k : s[i].role = "tool"
<1>1. /\ n \in Nat /\ Len(a) = n + 1
      /\ \A i \in 1..n : a[i] = ms[i]
      /\ a[n + 1] = m
  BY AppendProperties, LenProperties
<1> HIDE DEF a
<1>2. ASSUME NEW k \in 0..n, NEW j \in 1..k, NEW id PROVE Within(a, j, k, id) <=> Within(ms, j, k, id)
  BY <1>1 DEF Calls
<1>3. ASSUME NEW j \in 1..n, NEW id, m.role = "tool" PROVE Within(a, j, n + 1, id) <=> Within(ms, j, n, id)
  <2>1. Within(a, j, n, id) <=> Within(ms, j, n, id)
    <3>1. n \in 0..n /\ j \in 1..n
      BY <1>1
    <3> HIDE DEF Within
    <3>2. QED
      BY <1>2, <3>1
  <2>2. QED
    BY <1>1, <1>3, <2>1
<1>4. \A s : Accepted(s) <=> \A k \in 1..Len(s) : s[k].role = "tool" =>
                                \E j \in 1..(k - 1) : Within(s, j, k, s[k].id)
  BY DEF Accepted
<1>5. Follows(ms, m.id) <=> \E j \in 1..n : Within(ms, j, n, m.id)
  BY DEF Follows
<1>6. ASSUME NEW k \in 1..n, NEW j \in 1..(k - 1), NEW id PROVE Within(a, j, k, id) <=> Within(ms, j, k, id)
  <2>1. k \in 0..n /\ j \in 1..k
    BY <1>1
  <2> HIDE DEF Within
  <2>2. QED
    BY <1>2, <2>1
<1> HIDE DEF Within
<1>7. ASSUME Accepted(a) PROVE Accepted(ms) /\ (m.role = "tool" => Follows(ms, m.id))
  <2>1. ASSUME NEW k \in 1..n, ms[k].role = "tool" PROVE \E j \in 1..(k - 1) : Within(ms, j, k, ms[k].id)
    <3>1. k \in 1..Len(a) /\ a[k] = ms[k]
      BY <1>1
    <3>2. PICK j \in 1..(k - 1) : Within(a, j, k, a[k].id)
      BY <1>4, <1>7, <2>1, <3>1
    <3>3. QED
      BY <1>6, <3>1, <3>2
  <2>2. ASSUME m.role = "tool" PROVE \E j \in 1..n : Within(ms, j, n, m.id)
    <3>1. PICK j \in 1..n : Within(a, j, n + 1, m.id)
      BY <1>1, <1>4, <1>7, <2>2
    <3>2. QED
      BY <1>3, <2>2, <3>1
  <2>3. QED
    BY <1>4, <1>5, <2>1, <2>2
<1>8. ASSUME Accepted(ms), m.role = "tool" => Follows(ms, m.id) PROVE Accepted(a)
  <2>1. ASSUME NEW k \in 1..Len(a), a[k].role = "tool" PROVE \E j \in 1..(k - 1) : Within(a, j, k, a[k].id)
    <3>1. CASE k \in 1..n
      <4>1. a[k] = ms[k]
        BY <1>1, <3>1
      <4>2. PICK j \in 1..(k - 1) : Within(ms, j, k, ms[k].id)
        BY <1>4, <1>8, <2>1, <3>1, <4>1
      <4>3. QED
        BY <1>6, <3>1, <4>1, <4>2
    <3>2. CASE k \notin 1..n
      <4>1. k = n + 1 /\ k - 1 = n /\ a[k] = m
        BY <1>1, <3>2
      <4>2. PICK j \in 1..n : Within(ms, j, n, m.id)
        BY <1>5, <1>8, <2>1, <4>1
      <4>3. QED
        BY <1>3, <2>1, <4>1, <4>2
    <3>3. QED
      BY <3>1, <3>2
  <2>2. QED
    BY <1>4, <2>1
<1>9. QED
  BY <1>7, <1>8 DEF a

\* A turn is followed by the results of its calls, one after the other.
LEMMA FollowsOn ==
    ASSUME NEW ms \in Seq(CanonicalMessage), NEW m \in CanonicalMessage, NEW id
    PROVE  /\ m.role = "assistant" /\ Calls(m, id) => Follows(Append(ms, m), id)
           /\ m.role = "tool" /\ Follows(ms, id) => Follows(Append(ms, m), id)
<1> DEFINE a == Append(ms, m)
           n == Len(ms)
<1>1. /\ n \in Nat /\ Len(a) = n + 1
      /\ \A i \in 1..n : a[i] = ms[i]
      /\ a[n + 1] = m
  BY AppendProperties, LenProperties
<1> HIDE DEF a
<1>2. ASSUME m.role = "assistant", Calls(m, id) PROVE Follows(a, id)
  BY <1>1, <1>2 DEF Follows
<1>3. ASSUME m.role = "tool", Follows(ms, id) PROVE Follows(a, id)
  <2>1. PICK j \in 1..n : /\ ms[j].role = "assistant" /\ Calls(ms[j], id)
                          /\ \A i \in (j + 1)..n : ms[i].role = "tool"
    BY <1>3 DEF Follows
  <2>2. ASSUME NEW i \in (j + 1)..Len(a) PROVE a[i].role = "tool"
    BY <1>1, <1>3, <2>1
  <2>3. QED
    BY <1>1, <2>1, <2>2 DEF Follows
<1>4. QED
  BY <1>2, <1>3 DEF a

\* The same of a conversation with its calls.
LEMMA StructuredOne ==
    ASSUME NEW ms \in Seq(CanonicalMessage), NEW m \in CanonicalMessage
    PROVE  Structured(Append(ms, m)) <=>
               Structured(ms) /\ (m.role = "tool" => m.id # NoId /\ Follows(ms, m.id))
<1> DEFINE a == Append(ms, m)
           n == Len(ms)
<1>1. /\ n \in Nat /\ Len(a) = n + 1
      /\ \A i \in 1..n : a[i] = ms[i]
      /\ a[n + 1] = m
  BY AppendProperties, LenProperties
<1>2. Accepted(a) <=> Accepted(ms) /\ (m.role = "tool" => Follows(ms, m.id))
  BY AcceptedOne
<1> HIDE DEF a
<1>3. QED
  BY <1>1, <1>2 DEF Structured, a, Results

\* And of one without.
LEMMA UnclaimedOne ==
    ASSUME NEW ms \in Seq(CanonicalMessage), NEW m \in CanonicalMessage
    PROVE  Unclaimed(Append(ms, m)) <=>
               /\ Unclaimed(ms)
               /\ m.role = "assistant" => m.calls = <<>>
               /\ m.role = "tool" => m.id # NoId /\ \A k \in Results(ms) : ms[k].id # m.id
<1> DEFINE a == Append(ms, m)
           n == Len(ms)
<1>1. /\ n \in Nat /\ Len(a) = n + 1
      /\ \A i \in 1..n : a[i] = ms[i]
      /\ a[n + 1] = m
  BY AppendProperties, LenProperties
<1> HIDE DEF a
<1>2. /\ \A k \in 1..Len(a) : k \in 1..n \/ k = n + 1
      /\ n + 1 \in 1..Len(a) /\ \A k \in 1..n : k \in 1..Len(a) /\ k # n + 1
  BY <1>1
<1>3. /\ \A k \in Results(a) : k \in Results(ms) \/ (k = n + 1 /\ m.role = "tool")
      /\ \A k \in Results(ms) : k \in Results(a) /\ k # n + 1 /\ a[k] = ms[k]
      /\ m.role = "tool" => n + 1 \in Results(a)
  BY <1>1, <1>2 DEF Results
<1>4. (\A k \in Results(a) : a[k].id # NoId) <=>
          (\A k \in Results(ms) : ms[k].id # NoId) /\ (m.role = "tool" => m.id # NoId)
  BY <1>1, <1>3
<1>5. (\A j, k \in Results(a) : a[j].id = a[k].id => j = k) <=>
          /\ \A j, k \in Results(ms) : ms[j].id = ms[k].id => j = k
          /\ m.role = "tool" => \A k \in Results(ms) : ms[k].id # m.id
  BY <1>1, <1>3
<1>6. QED
  BY <1>1, <1>2, <1>4, <1>5 DEF Unclaimed, a

\* Without a result out of place nothing is put in: the fast path, and the loop
\* when every id is announced.
LEMMA StructuredNormal ==
    ASSUME NEW ms \in Seq(CanonicalMessage), Structured(ms)
    PROVE  Accepted(NormalOf[ms].out)
<1> DEFINE CallsKnown(s) ==
               \A k \in 1..Len(s) : \A id \in CallId :
                   s[k].role = "assistant" /\ Calls(s[k], id) /\ id # NoId => id \in NormalOf[s].announced
           T == {s \in Seq(CanonicalMessage) : Structured(s) => NormalOf[s].out = s /\ CallsKnown(s)}
<1>1. <<>> \in T
  BY EmptySeq, NormalLaws, LoopParts DEF Idle
<1>2. ASSUME NEW s \in Seq(CanonicalMessage), NEW m \in CanonicalMessage, s \in T PROVE Append(s, m) \in T
  <2> DEFINE a == Append(s, m)
             old == NormalOf[s]
             new == NormalOf[a]
  <2>1. /\ a \in Seq(CanonicalMessage) /\ Len(s) \in Nat /\ Len(a) = Len(s) + 1
        /\ \A i \in 1..Len(s) : a[i] = s[i]
        /\ a[Len(s) + 1] = m
    BY AppendProperties, LenProperties
  <2>2. Structured(a) => Structured(s) /\ (m.role = "tool" => m.id # NoId /\ Follows(s, m.id))
    BY StructuredOne
  <2>3. SUFFICES ASSUME Structured(a) PROVE new.out = a /\ CallsKnown(a)
    BY <2>1
  <2>4. /\ old.out = s
        /\ \A k \in 1..Len(s) : \A id \in CallId :
              s[k].role = "assistant" /\ Calls(s[k], id) /\ id # NoId => id \in old.announced
    BY <1>2, <2>2, <2>3
  <2>5. m.role = "tool" => m.id \in old.announced /\ m.id # NoId
    BY <2>2, <2>3, <2>4, CanonicalParts DEF Follows
  <2>6. \A id : Calls(m, id) <=> id \in Parents!CalledBy(m)
    BY DEF Calls, Parents!CalledBy
  <2>7. new = Outgoing(Append(old.out, m), IF m.role = "assistant"
                                           THEN old.announced \cup (Parents!CalledBy(m) \ {NoId})
                                           ELSE old.announced)
    BY <2>5, NormalLaws DEF Placed
  <2>8. new.out = a /\ new.announced = IF m.role = "assistant"
                                        THEN old.announced \cup (Parents!CalledBy(m) \ {NoId})
                                        ELSE old.announced
    <3> DEFINE more == IF m.role = "assistant"
                       THEN old.announced \cup (Parents!CalledBy(m) \ {NoId})
                       ELSE old.announced
               x == Append(old.out, m)
    <3>1. new = Outgoing(x, more)
      BY <2>7
    <3>2. x = a
      BY <2>4
    <3> HIDE DEF more, x, new
    <3>3. QED
      BY <3>1, <3>2, LoopParts, ZenonT(30) DEF more
  <2>9. ASSUME NEW k \in 1..Len(a), NEW id \in CallId, a[k].role = "assistant", Calls(a[k], id), id # NoId
         PROVE  id \in new.announced
    <3> HIDE DEF a, new, old
    <3>1. CASE k = Len(s) + 1
      BY <2>1, <2>6, <2>8, <2>9, <3>1
    <3>2. CASE k # Len(s) + 1
      BY <2>1, <2>4, <2>8, <2>9, <3>2
    <3>3. QED
      BY <3>1, <3>2
  <2>10. QED
    BY <2>8, <2>9
<1>3. \A s \in Seq(CanonicalMessage) : s \in T
  <2> HIDE DEF T
  <2>1. QED
    BY <1>1, <1>2, Appending
<1>4. QED
  BY <1>3 DEF Structured

\* Without calls, each result gets its own.
LEMMA UnclaimedNormal ==
    ASSUME NEW ms \in Seq(CanonicalMessage), Unclaimed(ms)
    PROVE  Accepted(NormalOf[ms].out)
<1> DEFINE Placings(s) == /\ Accepted(NormalOf[s].out)
                          /\ \A id \in NormalOf[s].announced : \E k \in Results(s) : s[k].id = id
           T == {s \in Seq(CanonicalMessage) : Unclaimed(s) => Placings(s)}
<1>1. <<>> \in T
  BY EmptySeq, NormalLaws, LoopParts DEF Idle, Accepted
<1>2. ASSUME NEW s \in Seq(CanonicalMessage), NEW m \in CanonicalMessage, s \in T PROVE Append(s, m) \in T
  <2> DEFINE a == Append(s, m)
             old == NormalOf[s]
             new == NormalOf[a]
  <2>1. /\ a \in Seq(CanonicalMessage) /\ Len(s) \in Nat /\ Len(a) = Len(s) + 1
        /\ \A i \in 1..Len(s) : a[i] = s[i]
        /\ a[Len(s) + 1] = m
    BY AppendProperties, LenProperties
  <2>2. old \in LoopState /\ new = Placed(old, m)
    BY NormalLaws
  <2>3. Unclaimed(a) => /\ Unclaimed(s)
                        /\ m.role = "assistant" => m.calls = <<>>
                        /\ m.role = "tool" => m.id # NoId /\ \A k \in Results(s) : s[k].id # m.id
    BY UnclaimedOne
  <2>4. SUFFICES ASSUME Unclaimed(a) PROVE Placings(a)
    BY <2>1
  <2>5. Accepted(old.out) /\ \A id \in old.announced : \E k \in Results(s) : s[k].id = id
    BY <1>2, <2>3, <2>4
  <2>6. /\ m.role \in {"user", "assistant", "tool"}
        /\ m.role = "tool" => m.id \in CallId
    BY CanonicalParts
  <2>7. old.out \in Seq(CanonicalMessage)
    BY <2>2, LoopParts
  <2>8. /\ \A k \in Results(s) : k \in Results(a) /\ a[k] = s[k]
        /\ m.role = "tool" => Len(s) + 1 \in Results(a) /\ a[Len(s) + 1] = m
    <3> HIDE DEF a
    <3>1. QED
      BY <2>1 DEF Results
  <2> HIDE DEF a, old, new
  <2>9. CASE m.role # "tool"
    <3>1. m.role = "assistant" => Parents!CalledBy(m) = {}
      BY <2>3, <2>4, EmptySeq DEF Parents!CalledBy
    <3>2. new.out = Append(old.out, m) /\ new.announced = old.announced
      BY <2>2, <2>9, <3>1, LoopParts, ZenonT(30) DEF Placed
    <3>3. Accepted(new.out)
      BY <2>5, <2>7, <2>9, <3>2, AcceptedOne
    <3>4. QED
      BY <2>5, <2>8, <3>2, <3>3 DEF new
  <2>10. CASE m.role = "tool"
    <3> DEFINE p == Parents!Parent(m.id)
               o == old.out
    <3>1. m.id \notin old.announced /\ m.id # NoId
      BY <2>3, <2>4, <2>5, <2>10
    <3>2. new.out = o \o <<p, m>> /\ new.announced = old.announced \cup ({m.id} \ {NoId})
      <4>1. new = Outgoing(o \o <<p, m>>, old.announced \cup ({m.id} \ {NoId}))
        BY <2>2, <2>10, <3>1 DEF Placed
      <4> HIDE DEF p, o
      <4>2. QED
        BY <4>1, LoopParts
    <3>3. p \in CanonicalMessage /\ p.role = "assistant" /\ Calls(p, m.id)
      BY <2>6, <2>10, ParentTyped DEF Parents!Parent, Parents!Assistant, Parents!ToolCall,
         Assistant, ToolCall, Calls
    <3> HIDE DEF p, o
    <3>4. o \in Seq(CanonicalMessage)
      BY <2>7 DEF o
    <3>5. o \o <<p, m>> = Append(Append(o, p), m)
      BY <3>3, <3>4, AppendIsConcat, ConcatAssociative
    <3>6. Append(o, p) \in Seq(CanonicalMessage)
      BY <3>3, <3>4, AppendProperties
    <3>7. Accepted(Append(o, p)) /\ Follows(Append(o, p), m.id)
      BY <2>5, <3>3, <3>4, AcceptedOne, FollowsOn DEF o
    <3> DEFINE q == Append(o, p)
    <3> HIDE DEF q
    <3>8. Accepted(new.out)
      BY <3>2, <3>5, <3>6, <3>7, AcceptedOne DEF q
    <3>9. QED
      BY <2>5, <2>8, <2>10, <3>2, <3>8 DEF new
  <2>11. QED
    BY <2>9, <2>10
<1>3. \A s \in Seq(CanonicalMessage) : s \in T
  <2> HIDE DEF T
  <2>1. QED
    BY <1>1, <1>2, Appending
<1>4. QED
  BY <1>3

\* A part of it is one, too.
LEMMA PartOfIt ==
    ASSUME NEW ms \in Seq(CanonicalMessage), NEW n \in 0..Len(ms)
    PROVE  /\ Structured(ms) => Structured(SubSeq(ms, 1, n))
           /\ Unclaimed(ms) => Unclaimed(SubSeq(ms, 1, n))
<1> DEFINE t == SubSeq(ms, 1, n)
<1>1. Len(ms) \in Nat /\ Len(t) = n /\ \A i \in 1..n : t[i] = ms[i] /\ i \in 1..Len(ms)
  BY LenProperties
<1> HIDE DEF t
<1>2. \A k \in Results(t) : k \in Results(ms) /\ k \in 1..n /\ t[k] = ms[k]
  BY <1>1 DEF Results
<1>3. ASSUME Accepted(ms) PROVE Accepted(t)
  <2> SUFFICES ASSUME NEW k \in 1..n, t[k].role = "tool"
               PROVE  \E j \in 1..(k - 1) : /\ t[j].role = "assistant" /\ Calls(t[j], t[k].id)
                                            /\ \A i \in (j + 1)..k : t[i].role = "tool"
    BY <1>1 DEF Accepted
  <2>1. k \in 1..Len(ms) /\ ms[k] = t[k]
    BY <1>1
  <2>2. PICK j \in 1..(k - 1) : /\ ms[j].role = "assistant" /\ Calls(ms[j], ms[k].id)
                                /\ \A i \in (j + 1)..k : ms[i].role = "tool"
    BY <1>3, <2>1 DEF Accepted
  <2>3. t[j] = ms[j] /\ \A i \in (j + 1)..k : t[i] = ms[i]
    BY <1>1
  <2>4. QED
    BY <2>1, <2>2, <2>3
<1>4. Unclaimed(ms) => Unclaimed(t)
  BY <1>1, <1>2 DEF Unclaimed
<1>5. QED
  BY <1>2, <1>3, <1>4 DEF t, Structured

ResultsOf(ids) == {m \in CanonicalMessage : m.role = "tool" /\ m.id \in ids}

\* Results behind the turn that calls them.
LEMMA ResultsBehind ==
    ASSUME NEW ms \in Seq(CanonicalMessage), Structured(ms),
           NEW ids, NoId \notin ids, \A id \in ids : Follows(ms, id),
           NEW ts \in Seq(ResultsOf(ids))
    PROVE  Structured(ms \o ts)
<1> DEFINE R == ResultsOf(ids)
           Fits(r) == /\ ms \o r \in Seq(CanonicalMessage)
                      /\ Structured(ms \o r) /\ \A id \in ids : Follows(ms \o r, id)
           T == {r \in Seq(R) : Fits(r)}
<1>1. R \subseteq CanonicalMessage /\ \A m \in R : m.role = "tool" /\ m.id \in ids
  BY DEF ResultsOf
<1> HIDE DEF R
<1>2. <<>> \in T
  BY EmptySeq, ConcatEmptySeq
<1>3. ASSUME NEW r \in Seq(R), NEW m \in R, r \in T PROVE Append(r, m) \in T
  <2> DEFINE s == ms \o r
  <2>1. Append(r, m) \in Seq(R)
    BY AppendProperties
  <2>2. s \in Seq(CanonicalMessage) /\ Structured(s) /\ \A id \in ids : Follows(s, id)
    BY <1>3
  <2>3. m \in CanonicalMessage /\ m.role = "tool" /\ m.id \in ids
    BY <1>1
  <2>4. ms \o Append(r, m) = Append(s, m)
    BY <1>1, <2>3, SeqMonotonic, BehindBoth
  <2> HIDE DEF s
  <2>5. Append(s, m) \in Seq(CanonicalMessage)
    BY <2>2, <2>3, AppendProperties
  <2>6. Structured(Append(s, m))
    BY <2>2, <2>3, StructuredOne
  <2>7. \A id \in ids : Follows(Append(s, m), id)
    BY <2>2, <2>3, FollowsOn
  <2>8. QED
    BY <2>1, <2>4, <2>5, <2>6, <2>7
<1>4. \A r \in Seq(R) : r \in T
  <2> HIDE DEF T
  <2>1. QED
    BY <1>2, <1>3, Appending
<1>5. ts \in T
  BY <1>4 DEF R
<1>6. QED
  BY <1>5

\* Results of calls that are not in the conversation.
LEMMA UnclaimedBehind ==
    ASSUME NEW ms \in Seq(CanonicalMessage), Unclaimed(ms), NEW ts \in Seq(CanonicalMessage),
           \A i \in 1..Len(ts) : ts[i].role = "tool" /\ ts[i].id # NoId,
           \A i, j \in 1..Len(ts) : ts[i].id = ts[j].id => i = j,
           \A k \in Results(ms) : \A i \in 1..Len(ts) : ms[k].id # ts[i].id
    PROVE  /\ Unclaimed(ms \o ts)
           /\ \A k \in Results(ms \o ts) : \/ \E j \in Results(ms) : ms[j].id = (ms \o ts)[k].id
                                           \/ \E i \in 1..Len(ts) : ts[i].id = (ms \o ts)[k].id
<1> DEFINE s == ms \o ts
           n == Len(ms)
<1>1. /\ n \in Nat /\ Len(ts) \in Nat /\ Len(s) = n + Len(ts)
      /\ \A i \in 1..(n + Len(ts)) : s[i] = IF i <= n THEN ms[i] ELSE ts[i - n]
  BY ConcatProperties, LenProperties
<1> HIDE DEF s
<1>2. \A k \in 1..Len(s) : \/ k \in 1..n /\ s[k] = ms[k]
                           \/ k \notin 1..n /\ k - n \in 1..Len(ts) /\ s[k] = ts[k - n]
  BY <1>1
<1>3. \A k \in Results(s) : \/ k \in Results(ms) /\ s[k] = ms[k]
                            \/ k \notin 1..n /\ k - n \in 1..Len(ts) /\ s[k] = ts[k - n]
  BY <1>2 DEF Results
<1>4. \A k \in Results(s) : s[k].id # NoId
  BY <1>3 DEF Unclaimed
<1>5. ASSUME NEW j \in Results(s), NEW k \in Results(s), s[j].id = s[k].id PROVE j = k
  <2>1. CASE j \in Results(ms) /\ s[j] = ms[j] /\ k \in Results(ms) /\ s[k] = ms[k]
    BY <1>5, <2>1 DEF Unclaimed
  <2>2. CASE j - n \in 1..Len(ts) /\ s[j] = ts[j - n] /\ k - n \in 1..Len(ts) /\ s[k] = ts[k - n]
    BY <1>1, <1>5, <2>2 DEF Results
  <2>3. QED
    BY <1>3, <1>5, <2>1, <2>2
<1>6. Unclaimed(s)
  BY <1>2, <1>4, <1>5 DEF Unclaimed
<1>7. QED
  BY <1>3, <1>6 DEF s

-----------------------------------------------------------------------------
\* What a history is parsed to, one utterance at a time: results, answers and
\* what the user says.

\* A result of a Responses or Chat history.
LEMMA OneResult ==
    ASSUME NEW d \in Dialect, d # "anthropic", NEW m \in Utterable(d), m.role = "tool", NEW s \in ParserState
    PROVE  \E t \in CanonicalMessage :
              /\ t.role = "tool" /\ t.id = m.pieces[1].id
              /\ After(d, s, m).messages = Append(s.messages, t)
<1>1. s.messages \in Seq(CanonicalMessage)
  BY StateParts
<1>2. \A id, text : Tool(id, text).role = "tool" /\ Tool(id, text).id = id
  BY DEF Tool
<1>3. CASE d = "responses"
  <2> DEFINE p == m.pieces[1]
             t == Tool(p.id, p.text)
  <2>1. p \in HistoryPiece /\ p.kind = "output" /\ p.id \in CallId
    BY <1>3, Uttered
  <2>2. After(d, s, m) = State(Append(s.messages, t), None)
    BY <1>3, <2>1 DEF After, AfterItem
  <2>3. t \in CanonicalMessage
    BY <2>1, MessagesTyped DEF HistoryPiece
  <2>4. t.role = "tool" /\ t.id = p.id
    BY <1>2
  <2> HIDE DEF t
  <2>5. After(d, s, m).messages = Append(s.messages, t)
    BY <2>2, StateParts
  <2>6. QED
    BY <2>3, <2>4, <2>5
<1>4. CASE d = "chat"
  <2> DEFINE t == Tool(m.pieces[1].id, Chat!Content(m))
  <2>1. ChatAdds(m) = <<t>>
    BY DEF ChatAdds
  <2>2. t.role = "tool" /\ t.id = m.pieces[1].id
    BY <1>2
  <2>3. ChatAdds(m) \in Seq(CanonicalMessage)
    BY <1>4, ChatTyped
  <2> HIDE DEF t
  <2>4. t \in CanonicalMessage
    BY <2>1, <2>3, ElementOfSeq
  <2>5. After(d, s, m).messages = s.messages \o <<t>>
    BY <1>4, <2>1, StateParts DEF After
  <2>6. QED
    BY <1>1, <2>2, <2>4, <2>5, AppendIsConcat
<1>5. QED
  BY <1>3, <1>4 DEF Dialect

\* The results that are told by a history.
Tell(ts, r) ==
    /\ Len(ts) = Len(r)
    /\ \A i \in 1..Len(r) : ts[i].role = "tool" /\ ts[i].id = r[i].pieces[1].id

\* All results of one.
LEMMA ToolsRead ==
    ASSUME NEW d \in Dialect, d # "anthropic", NEW h \in Seq(Utterable(d)),
           NEW r \in Seq({m \in Utterable(d) : m.role = "tool"})
    PROVE  \E ts \in Seq(CanonicalMessage) :
              Tell(ts, r) /\ ParseOf(d)[h \o r].messages = ParseOf(d)[h].messages \o ts
<1> DEFINE R == {m \in Utterable(d) : m.role = "tool"}
           ms == ParseOf(d)[h].messages
           Good(q, ts) == Tell(ts, q) /\ ParseOf(d)[h \o q].messages = ms \o ts
           T == {q \in Seq(R) : \E ts \in Seq(CanonicalMessage) : Good(q, ts)}
<1>1. ms \in Seq(CanonicalMessage)
  BY RequestTyped
<1>2. R \subseteq Utterable(d) /\ \A m \in R : m.role = "tool"
  OBVIOUS
<1> HIDE DEF R, ms
<1>3. <<>> \in T
  <2>1. <<>> \in Seq(R) /\ <<>> \in Seq(CanonicalMessage) /\ Len(<<>>) = 0 /\ 1..0 = {}
    BY EmptySeq
  <2>2. Tell(<<>>, <<>>)
    BY <2>1 DEF Tell
  <2>3. Good(<<>>, <<>>)
    BY <1>1, <2>2, ConcatEmptySeq DEF ms
  <2>4. QED
    BY <2>1, <2>3
<1>4. ASSUME NEW q \in Seq(R), NEW m \in R, q \in T PROVE Append(q, m) \in T
  <2>1. PICK ts \in Seq(CanonicalMessage) : Good(q, ts)
    BY <1>4
  <2> DEFINE a == Append(q, m)
             g == h \o q
             s == ParseOf(d)[g]
  <2>2. /\ a \in Seq(R) /\ Len(q) \in Nat /\ Len(a) = Len(q) + 1
        /\ \A i \in 1..Len(q) : a[i] = q[i]
        /\ a[Len(q) + 1] = m
    BY AppendProperties, LenProperties
  <2>3. g \in Seq(Utterable(d)) /\ h \o a = Append(g, m) /\ m \in Utterable(d)
    BY <1>2, SeqMonotonic, BehindBoth, ConcatProperties
  <2> HIDE DEF g
  <2>4. s \in ParserState /\ ParseOf(d)[Append(g, m)] = After(d, s, m)
    BY <2>3, ParseLaws
  <2>5. s.messages = ms \o ts
    BY <2>1 DEF g
  <2> HIDE DEF s
  <2>6. PICK t \in CanonicalMessage : /\ t.role = "tool" /\ t.id = m.pieces[1].id
                                      /\ After(d, s, m).messages = Append(s.messages, t)
    BY <1>2, <2>3, <2>4, OneResult
  <2> DEFINE more == Append(ts, t)
  <2>7. /\ more \in Seq(CanonicalMessage) /\ Len(ts) \in Nat /\ Len(more) = Len(ts) + 1
        /\ \A i \in 1..Len(ts) : more[i] = ts[i]
        /\ more[Len(ts) + 1] = t
    BY AppendProperties, LenProperties
  <2>8. ms \o more = Append(ms \o ts, t)
    BY <1>1, BehindBoth
  <2> HIDE DEF a, more
  <2>9. ParseOf(d)[h \o a].messages = ms \o more
    BY <2>3, <2>4, <2>5, <2>6, <2>8
  <2>10. Tell(more, a)
    <3>1. Len(ts) = Len(q) /\ \A i \in 1..Len(q) : ts[i].role = "tool" /\ ts[i].id = q[i].pieces[1].id
      BY <2>1 DEF Tell
    <3>2. ASSUME NEW i \in 1..Len(a) PROVE more[i].role = "tool" /\ more[i].id = a[i].pieces[1].id
      <4>1. CASE i = Len(q) + 1
        BY <2>2, <2>6, <2>7, <3>1, <4>1
      <4>2. CASE i # Len(q) + 1
        <5>1. i \in 1..Len(q) /\ i \in 1..Len(ts)
          BY <2>2, <3>1, <4>2
        <5>2. QED
          BY <2>2, <2>7, <3>1, <5>1
      <4>3. QED
        BY <4>1, <4>2
    <3>3. QED
      BY <2>2, <2>7, <3>1, <3>2 DEF Tell
  <2>11. Good(a, more)
    BY <2>9, <2>10
  <2> HIDE DEF Good
  <2>12. QED
    BY <2>2, <2>7, <2>11 DEF a
<1>5. \A q \in Seq(R) : q \in T
  <2> HIDE DEF T
  <2>1. QED
    BY <1>3, <1>4, Appending
<1>6. r \in T
  BY <1>5 DEF R
<1>7. QED
  BY <1>6 DEF ms

\* Results with a text behind them.
LEMMA OutputsPicked ==
    ASSUME NEW u \in Seq(NamedPiece), NEW v \in Seq(NamedPiece),
           \A i \in 1..Len(u) : u[i].kind = "output", \A i \in 1..Len(v) : v[i].kind # "output"
    PROVE  OfKind(u \o v, "output") = u
<1> DEFINE b == u \o v
           S == {p \in ToSet(b) : p.kind = "output"}
<1>1. DOMAIN u = 1..Len(u) /\ DOMAIN v = 1..Len(v)
  BY LenProperties
<1>2. Range(b) = Range(u) \cup Range(v)
  BY RangeConcatenation
<1>3. ToSet(b) = Range(b)
  BY DEF ToSet, Range
<1>4. Among(b, S) = Among(u, S) \o Among(v, S)
  <2> HIDE DEF S
  <2>1. QED
    BY AmongJoins
<1> HIDE DEF b
<1>5. \A i \in 1..Len(u) : u[i] \in S
  BY <1>1, <1>2, <1>3 DEF Range
<1>6. \A i \in 1..Len(v) : v[i] \notin S
  OBVIOUS
<1> HIDE DEF S
<1>7. Among(b, S) = u
  BY <1>4, <1>5, <1>6, ConcatEmptySeq, AmongAll
<1>8. QED
  BY <1>7 DEF OfKind, S, b

\* What the results of all calls become (ReturnResults).
LEMMA ResultsMade ==
    ASSUME dialect \in Dialect, history \in Seq(Utterable(dialect)), clock \in Nat, owed \in Seq(CallId),
           ReturnResults
    PROVE  \E ts \in Seq(CanonicalMessage) :
              /\ Len(ts) = Len(owed)
              /\ \A i \in 1..Len(owed) : ts[i].role = "tool" /\ ts[i].id = owed[i]
              /\ \/ ParseOf(dialect)[history'].messages = ParseOf(dialect)[history].messages \o ts
                 \/ \E u \in CanonicalMessage :
                       /\ u.role = "user"
                       /\ ParseOf(dialect)[history'].messages = Append(ParseOf(dialect)[history].messages \o ts, u)
<1> DEFINE d == dialect
           ms == ParseOf(d)[history].messages
           results == [i \in 1..Len(owed) |-> Result(i)]
           remark == <<Piece("text", None, <<Fragment(clock + Len(owed), 2)>>, "parts")>>
<1>1. ms \in Seq(CanonicalMessage)
  BY RequestTyped
<1>2. Len(owed) \in Nat /\ \A i \in 1..Len(owed) : Result(i) \in NamedPiece /\ Result(i).kind = "output"
  BY ResultTyped, LenProperties
<1>3. results \in Seq(NamedPiece) /\ Len(results) = Len(owed) /\ \A i \in 1..Len(owed) : results[i] = Result(i)
  BY <1>2
<1>4. \A i \in 1..Len(owed) : results[i].id = owed[i]
  BY DEF Result, Piece
<1>5. CASE dialect = "anthropic"
  <2>1. PICK text \in {<<>>, remark} : history' = Append(history, Message("user", results \o text))
    BY <1>5 DEF ReturnResults
  <2>2. text \in Seq(NamedPiece) /\ \A i \in 1..Len(text) : text[i].kind # "output"
    <3>1. "text" \in PieceKind /\ "parts" \in Form
      BY DEF PieceKind, Form
    <3>2. <<Fragment(clock + Len(owed), 2)>> \in Seq(Nat)
      BY <1>2, FragmentTyped
    <3> DEFINE p == Piece("text", None, <<Fragment(clock + Len(owed), 2)>>, "parts")
    <3>3. p \in NamedPiece /\ p.kind = "text"
      BY <3>1, <3>2, PieceTyped DEF Piece
    <3> HIDE DEF p
    <3>4. <<>> \in Seq(NamedPiece) /\ \A i \in 1..Len(<<>>) : <<>>[i].kind # "output"
      BY EmptySeq
    <3>5. <<p>> \in Seq(NamedPiece) /\ \A i \in 1..Len(<<p>>) : <<p>>[i].kind # "output"
      BY <3>3
    <3>6. text = <<>> \/ text = <<p>>
      BY DEF p
    <3>7. QED
      BY <3>4, <3>5, <3>6
  <2> HIDE DEF remark, results
  <2> DEFINE blocks == results \o text
             m == Message("user", blocks)
  <2>3. blocks \in Seq(NamedPiece)
    BY <1>3, <2>2, ConcatProperties
  <2>4. OfKind(blocks, "output") = results
    BY <1>2, <1>3, <2>2, OutputsPicked
  <2> HIDE DEF blocks
  <2>5. m \in Utterable("anthropic")
    BY <2>3, MakesUtterable
  <2>6. m.role = "user" /\ m.pieces = blocks
    BY DEF Message
  <2>7. history' = Append(history, m)
    BY <2>1 DEF blocks
  <2> HIDE DEF m
  <2> DEFINE ts == [i \in 1..Len(results) |-> Tool(results[i].id, results[i].text)]
             more == Anthropic!UserText(blocks)
  <2>8. Anthropic!ToolResults(blocks) = ts
    BY <2>4, AnthropicReads DEF Anthropic!ToolResults
  <2>9. ts \in Seq(CanonicalMessage) /\ more \in Seq(CanonicalMessage)
    BY <2>5, <2>6, <2>8, AnthropicParts
  <2>10. more = <<>> \/ more = <<User(TextOf(blocks))>>
    BY AnthropicReads DEF Anthropic!UserText
  <2>11. AnthropicAdds(m) = ts \o more
    BY <2>6, <2>8 DEF AnthropicAdds
  <2>12. Len(ts) = Len(owed) /\ \A i \in 1..Len(owed) : ts[i].role = "tool" /\ ts[i].id = owed[i]
    BY <1>2, <1>3, <1>4 DEF Tool
  <2> HIDE DEF ts, more
  <2>13. ParseOf(d)[history'].messages = ms \o (ts \o more)
    <3>1. /\ ParseOf(d)[history] \in ParserState
          /\ ParseOf(d)[Append(history, m)] = After(d, ParseOf(d)[history], m)
      BY <1>5, <2>5, ParseLaws
    <3>2. After(d, ParseOf(d)[history], m).messages = ms \o (ts \o more)
      BY <1>5, <2>11, StateParts DEF After
    <3> HIDE DEF ms, d
    <3>3. QED
      BY <2>7, <3>1, <3>2
  <2> HIDE DEF ms, d
  <2>14. CASE more = <<>>
    BY <2>9, <2>12, <2>13, <2>14, ConcatEmptySeq DEF ms, d
  <2>15. CASE more = <<User(TextOf(blocks))>>
    <3> DEFINE u == User(TextOf(blocks))
    <3>1. u.role = "user"
      BY DEF User
    <3> HIDE DEF u
    <3>2. more = <<u>>
      BY <2>15 DEF u
    <3>3. u \in CanonicalMessage
      BY <2>9, <3>2, ElementOfSeq
    <3>4. ts \o more = Append(ts, u)
      BY <2>9, <3>2, <3>3, AppendIsConcat
    <3>5. ms \o Append(ts, u) = Append(ms \o ts, u)
      BY <1>1, <2>9, <3>3, BehindBoth
    <3>6. ParseOf(d)[history'].messages = Append(ms \o ts, u)
      BY <2>13, <3>4, <3>5
    <3>7. QED
      BY <2>9, <2>12, <3>1, <3>3, <3>6 DEF ms, d
  <2>16. QED
    BY <2>10, <2>14, <2>15
<1>6. CASE dialect # "anthropic"
  <2> DEFINE e(i) == Message("tool", <<results[i]>>)
             R == {m \in Utterable(d) : m.role = "tool"}
             r == [i \in 1..Len(owed) |-> e(i)]
  <2>1. history' = history \o r
    BY <1>6 DEF ReturnResults
  <2>2. ASSUME NEW i \in 1..Len(owed) PROVE e(i) \in R /\ e(i).pieces[1].id = owed[i]
    <3> DEFINE p == results[i]
    <3>1. p \in NamedPiece /\ p.kind = "output" /\ p.id = owed[i]
      BY <1>2, <1>4
    <3> HIDE DEF p
    <3>2. <<p>> \in Seq(NamedPiece) /\ Len(<<p>>) = 1 /\ <<p>>[1] = p
      BY <3>1, OnePiece
    <3> DEFINE m == Message("tool", <<p>>)
    <3>3. m \in Utterable(d)
      BY <1>6, <3>1, <3>2, MakesUtterable
    <3>4. m.role = "tool" /\ m.pieces[1] = p
      BY DEF Message
    <3>5. e(i) = m
      BY DEF p
    <3> HIDE DEF m, e
    <3>6. QED
      BY <3>1, <3>3, <3>4, <3>5
  <2> HIDE DEF e, results, R
  <2>3. r \in Seq(R) /\ Len(r) = Len(owed) /\ \A i \in 1..Len(owed) : r[i] = e(i)
    BY <1>2, <2>2
  <2> HIDE DEF r
  <2>4. PICK ts \in Seq(CanonicalMessage) :
            Tell(ts, r) /\ ParseOf(d)[history \o r].messages = ParseOf(d)[history].messages \o ts
    BY <1>6, <2>3, ToolsRead DEF R
  <2>5. QED
    BY <2>1, <2>2, <2>3, <2>4 DEF Tell
<1>7. QED
  BY <1>5, <1>6

\* As the emitters see an answer: its reasoning under the first name.
Plain(answer) ==
    [reasoning |-> ReasoningOf(answer), key |-> "reasoning_content",
     text |-> answer.text, calls |-> answer.calls]

\* To them the two are one.
LEMMA PlainIsSame ==
    ASSUME NEW answer \in CanonicalAnswer
    PROVE  /\ Plain(answer) \in CanonicalAnswer
           /\ Plain(answer).key # "hidden"
           /\ Plain(answer).text = answer.text
           /\ Plain(answer).calls = answer.calls
           /\ CallPieces(Plain(answer)) = CallPieces(answer)
           /\ Deltas(Plain(answer)) = Deltas(answer)
           /\ Deltas(answer) = Made(Plain(answer), "summary", "parts", CallPieces(answer))
<1> DEFINE p == Plain(answer)
           Calling == Seq([id : CallId, body : Seq(Nat), form : {"json", "broken"}])
<1>1. /\ p.reasoning = ReasoningOf(answer) /\ p.key = "reasoning_content"
      /\ p.text = answer.text /\ p.calls = answer.calls
      /\ p = [reasoning |-> ReasoningOf(answer), key |-> "reasoning_content",
              text |-> answer.text, calls |-> answer.calls]
  BY DEF Plain
<1>2. answer.reasoning \in Seq(Nat) /\ answer.text \in Seq(Nat) /\ answer.calls \in Calling
  <2> HIDE DEF Calling
  <2>1. QED
    BY DEF CanonicalAnswer, Calling
<1>3. ReasoningOf(answer) \in Seq(Nat)
  BY <1>2, EmptySeq DEF ReasoningOf
<1>4. p \in CanonicalAnswer
  <2> HIDE DEF Calling, p
  <2>1. QED
    BY <1>1, <1>2, <1>3 DEF CanonicalAnswer, Calling, ReasoningKey
<1> HIDE DEF p
<1>5. CallPieces(p) = CallPieces(answer)
  BY <1>1 DEF CallPieces
<1>6. Deltas(p) = Deltas(answer)
  BY <1>1, <1>5 DEF Deltas, ReasoningOf
<1>7. Deltas(answer) = Made(p, "summary", "parts", CallPieces(answer))
  BY <1>1 DEF Deltas, Made, Thought, Spoken
<1>8. QED
  BY <1>1, <1>4, <1>5, <1>6, <1>7 DEF p

\* Items of two parts.
LEMMA ItemsJoin ==
    ASSUME NEW u \in Seq(AnswerPiece), NEW v \in Seq(AnswerPiece)
    PROVE  Items(u \o v) = Items(u) \o Items(v)
<1> DEFINE e(x) == Message("assistant", <<x>>)
           b == u \o v
           m == Items(u)
           n == Items(v)
           c == m \o n
           M == {e(x) : x \in AnswerPiece}
<1>1. /\ b \in Seq(AnswerPiece) /\ Len(u) \in Nat /\ Len(v) \in Nat /\ Len(b) = Len(u) + Len(v)
      /\ \A i \in 1..(Len(u) + Len(v)) : b[i] = IF i <= Len(u) THEN u[i] ELSE v[i - Len(u)]
  BY ConcatProperties, LenProperties
<1>2. (\A i \in 1..Len(u) : u[i] \in AnswerPiece) /\ (\A i \in 1..Len(v) : v[i] \in AnswerPiece)
  BY ElementOfSeq
<1>3. m = [i \in 1..Len(u) |-> e(u[i])] /\ n = [i \in 1..Len(v) |-> e(v[i])] /\ Items(b) = [i \in 1..Len(b) |-> e(b[i])]
  BY DEF Items
<1> HIDE DEF b, m, n
<1>4. (\A i \in 1..Len(u) : e(u[i]) \in M) /\ (\A i \in 1..Len(v) : e(v[i]) \in M)
  BY <1>2
<1> HIDE DEF e, M
<1>5. /\ m \in Seq(M) /\ Len(m) = Len(u) /\ \A i \in 1..Len(u) : m[i] = e(u[i])
      /\ n \in Seq(M) /\ Len(n) = Len(v) /\ \A i \in 1..Len(v) : n[i] = e(v[i])
  BY <1>1, <1>3, <1>4
<1>6. /\ c \in Seq(M) /\ Len(c) = Len(m) + Len(n)
      /\ \A i \in 1..(Len(m) + Len(n)) : c[i] = IF i <= Len(m) THEN m[i] ELSE n[i - Len(m)]
  <2>1. m \in Seq(M) /\ n \in Seq(M)
    BY <1>5
  <2>2. QED
    BY <2>1, ConcatProperties
<1> HIDE DEF c
<1>7. c = [i \in 1..Len(b) |-> c[i]]
  BY <1>1, <1>5, <1>6, LenProperties
<1>8. ASSUME NEW i \in 1..Len(b) PROVE c[i] = e(b[i])
  <2>1. i \in 1..(Len(u) + Len(v)) /\ i \in 1..(Len(m) + Len(n))
    BY <1>1, <1>5
  <2>2. CASE i <= Len(u)
    BY <1>1, <1>5, <1>6, <2>1, <2>2
  <2>3. CASE ~(i <= Len(u))
    <3>1. i - Len(u) \in 1..Len(v) /\ b[i] = v[i - Len(u)] /\ c[i] = n[i - Len(u)]
      BY <1>1, <1>5, <1>6, <2>1, <2>3
    <3>2. QED
      BY <1>5, <3>1
  <2>4. QED
    BY <2>2, <2>3
<1>9. Items(b) = c
  BY <1>3, <1>7, <1>8
<1>10. QED
  BY <1>9 DEF b, c, m, n

\* They are items, and of the kinds of the pieces.
LEMMA ItemsTyped ==
    ASSUME NEW u \in Seq(AnswerPiece)
    PROVE  /\ Items(u) \in Seq(Utterable("responses")) /\ Len(Items(u)) = Len(u)
           /\ \A i \in 1..Len(u) : Items(u)[i].pieces[1] = u[i]
<1>1. Items(u) = [i \in 1..Len(u) |-> Message("assistant", <<u[i]>>)] /\ Len(u) \in Nat
  BY LenProperties DEF Items
<1>2. ASSUME NEW i \in 1..Len(u)
      PROVE  Message("assistant", <<u[i]>>) \in Utterable("responses") /\ Message("assistant", <<u[i]>>).pieces[1] = u[i]
  <2>1. PICK x : x = u[i]
    OBVIOUS
  <2>2. x \in NamedPiece /\ x.kind # "output"
    BY <2>1, ElementOfSeq DEF AnswerPiece
  <2>3. Message("assistant", <<x>>) \in Utterable("responses")
    BY <2>2, MakesUtterable, OnePiece
  <2>4. QED
    BY <2>1, <2>3 DEF Message
<1> DEFINE e(i) == Message("assistant", <<u[i]>>)
<1>3. Items(u) = [i \in 1..Len(u) |-> e(i)] /\ \A i \in 1..Len(u) : e(i) \in Utterable("responses") /\ e(i).pieces[1] = u[i]
  BY <1>1, <1>2
<1> HIDE DEF e
<1>4. QED
  BY <1>1, <1>3

\* What a Responses client keeps: all, or all but the calls.
LEMMA ResponsesKeeps ==
    ASSUME NEW answer \in CanonicalAnswer, dialect = "responses"
    PROVE  Echo(answer) =
               Items(Made(Plain(answer), "summary", "parts", IF repeats THEN CallPieces(answer) ELSE <<>>))
<1> DEFINE a == Plain(answer)
           cs == CallPieces(answer)
           u == Thought(a, "summary") \o Spoken(a, "parts")
           is == Items(u)
           js == Items(cs)
           b == is \o js
           S == {m \in ToSet(b) : repeats \/ m.pieces[1].kind # "call"}
<1>1. a \in CanonicalAnswer /\ Deltas(answer) = Made(a, "summary", "parts", cs)
  BY PlainIsSame
<1>2. cs \in Seq(CallPiece)
  BY AskedTyped
<1>3. "summary" \in Form /\ "parts" \in Form
  BY DEF Form
<1>4. cs \in Seq(AnswerPiece) /\ u \in Seq(AnswerPiece)
  <2> HIDE DEF a, cs
  <2>1. QED
    BY <1>1, <1>2, <1>3, MadeTyped
<1>5. \A i \in 1..Len(u) : u[i].kind # "call"
  <2> DEFINE N == {x \in AnswerPiece : x.kind # "call"}
             t == Thought(a, "summary")
             s == Spoken(a, "parts")
             p == Piece("reasoning", None, a.reasoning, "summary")
             q == Piece("text", None, a.text, "parts")
  <2>1. p \in N /\ q \in N
    <3>1. a.reasoning \in Seq(Nat) /\ a.text \in Seq(Nat)
      BY <1>1, AnswerPieces
    <3>2. "reasoning" \in PieceKind /\ "text" \in PieceKind
      BY DEF PieceKind
    <3> HIDE DEF a
    <3>3. p \in AnswerPiece /\ q \in AnswerPiece
      BY <1>3, <3>1, <3>2, PieceTyped
    <3>4. QED
      BY <3>3, PieceParts
  <2>2. t \in {<<p>>, <<>>} /\ s \in {<<q>>, <<>>}
    BY DEF Thought, Spoken, When
  <2> HIDE DEF N, t, s, p, q
  <2>3. <<p>> \in Seq(N) /\ <<q>> \in Seq(N) /\ <<>> \in Seq(N)
    BY <2>1, EmptySeq
  <2>4. t \o s \in Seq(N)
    BY <2>2, <2>3, ConcatProperties
  <2> DEFINE w == t \o s
  <2>5. w \in Seq(N) /\ w = u
    BY <2>4 DEF t, s
  <2> HIDE DEF w, u
  <2>6. QED
    BY <2>5, ElementOfSeq DEF N
<1>6. Made(a, "summary", "parts", cs) = u \o cs /\ Made(a, "summary", "parts", <<>>) = u \o <<>>
  BY DEF Made
<1> HIDE DEF a, cs, u
<1>7. \A i \in 1..Len(cs) : cs[i].kind = "call"
  BY <1>2, ElementOfSeq DEF CallPiece
<1>8. FinalItems(answer) = b
  BY <1>1, <1>4, <1>6, ItemsJoin DEF FinalItems, Items, Message
<1>9. Echo(answer) = Among(b, S)
  BY <1>8 DEF Echo
<1> DEFINE U == Utterable("responses")
<1>10. /\ is \in Seq(U) /\ js \in Seq(U) /\ b \in Seq(U)
       /\ \A i \in 1..Len(is) : is[i].pieces[1].kind # "call"
       /\ \A i \in 1..Len(js) : js[i].pieces[1].kind = "call"
  <2>1. is \in Seq(U) /\ Len(is) = Len(u) /\ \A i \in 1..Len(u) : is[i].pieces[1] = u[i]
    BY <1>4, ItemsTyped
  <2>2. js \in Seq(U) /\ Len(js) = Len(cs) /\ \A i \in 1..Len(cs) : js[i].pieces[1] = cs[i]
    BY <1>4, ItemsTyped
  <2> HIDE DEF is, js, U
  <2>3. QED
    BY <1>5, <1>7, <2>1, <2>2, ConcatProperties
<1> HIDE DEF is, js, U
<1>11. /\ \A i \in 1..Len(is) : is[i] \in ToSet(b)
       /\ \A i \in 1..Len(js) : js[i] \in ToSet(b)
  <2>1. DOMAIN is = 1..Len(is) /\ DOMAIN js = 1..Len(js)
    BY <1>10, LenProperties
  <2>2. Range(b) = Range(is) \cup Range(js)
    BY <1>10, RangeConcatenation
  <2>3. ToSet(b) = Range(b)
    BY DEF ToSet, Range
  <2> HIDE DEF b
  <2>4. QED
    BY <2>1, <2>2, <2>3 DEF Range
<1>12. \A i \in 1..Len(is) : is[i] \in S
  BY <1>10, <1>11
<1>13. /\ repeats => \A i \in 1..Len(js) : js[i] \in S
       /\ ~repeats => \A i \in 1..Len(js) : js[i] \notin S
  BY <1>10, <1>11
<1> HIDE DEF S
<1>14. Among(b, S) = Among(is, S) \o Among(js, S)
  BY <1>10, AmongJoins
<1>15. Among(is, S) = is
  BY <1>10, <1>12, AmongAll
<1>16. CASE repeats
  <2>1. Among(js, S) = js
    BY <1>10, <1>13, <1>16, AmongAll
  <2>2. Echo(answer) = is \o js
    BY <1>9, <1>14, <1>15, <2>1
  <2>3. is \o js = Items(u \o cs)
    BY <1>4, ItemsJoin DEF is, js
  <2>4. QED
    BY <1>6, <1>16, <2>2, <2>3 DEF a, cs
<1>17. CASE ~repeats
  <2>1. Among(js, S) = <<>>
    BY <1>10, <1>13, <1>17, AmongAll
  <2>2. Echo(answer) = is
    BY <1>9, <1>10, <1>14, <1>15, <2>1, ConcatEmptySeq
  <2>3. QED
    BY <1>4, <1>6, <1>17, <2>2, ConcatEmptySeq DEF a, is
<1>18. QED
  BY <1>16, <1>17

\* A turn that asks for what the answer asked for, or the client kept none of it.
TurnFor(t, answer) ==
    /\ t.role = "assistant"
    /\ IF repeats THEN \A c \in 1..Len(answer.calls) : Calls(t, answer.calls[c].id) ELSE t.calls = <<>>

\* The ids of the calls come through.
LEMMA IdsKept ==
    ASSUME NEW answer \in CanonicalAnswer
    PROVE  /\ Len(CallsOf(CallPieces(answer))) = Len(answer.calls)
           /\ \A c \in 1..Len(answer.calls) : CallsOf(CallPieces(answer))[c].id = answer.calls[c].id
           /\ Len(CallsOf(Inputs(answer))) = Len(answer.calls)
           /\ \A c \in 1..Len(answer.calls) : CallsOf(Inputs(answer))[c].id = answer.calls[c].id
<1> DEFINE calls == answer.calls
           f(c) == ToolCall(calls[c].id, calls[c].body)
           g(c) == ToolCall(calls[c].id, IF calls[c].form # "json" THEN <<>> ELSE calls[c].body)
           Calling == [id : CallId, body : Seq(Nat), form : {"json", "broken"}]
<1>1. Len(calls) \in Nat
  <2>1. calls \in Seq(Calling)
    <3> HIDE DEF Calling
    <3>1. QED
      BY DEF CanonicalAnswer, Calling
  <2> HIDE DEF Calling, calls
  <2>2. QED
    BY <2>1, LenProperties
<1>2. CallsOf(CallPieces(answer)) = [c \in 1..Len(calls) |-> f(c)]
  BY AskedTyped
<1>3. CallsOf(Inputs(answer)) = [c \in 1..Len(calls) |-> g(c)]
  BY InputsTyped
<1>4. \A c \in 1..Len(calls) : f(c).id = calls[c].id /\ g(c).id = calls[c].id
  BY DEF ToolCall
<1> HIDE DEF f, g, calls
<1>5. QED
  BY <1>1, <1>2, <1>3, <1>4 DEF calls

\* So the turn is one for the answer.
LEMMA CallsAsked ==
    ASSUME NEW answer, NEW x, NEW y, NEW calls,
           IF repeats
           THEN Len(calls) = Len(answer.calls) /\ \A c \in 1..Len(answer.calls) : calls[c].id = answer.calls[c].id
           ELSE calls = <<>>
    PROVE  TurnFor(Assistant(x, y, calls), answer)
<1> DEFINE t == Assistant(x, y, calls)
<1>1. t.role = "assistant" /\ t.calls = calls
  BY DEF Assistant
<1> HIDE DEF t
<1>2. CASE repeats
  BY <1>1, <1>2 DEF TurnFor, Calls, t
<1>3. CASE ~repeats
  BY <1>1, <1>3 DEF TurnFor, t
<1>4. QED
  BY <1>2, <1>3

\* What is made of an answer in a Responses history: a turn, or nothing.
LEMMA ResponsesEcho ==
    ASSUME NEW answer \in CanonicalAnswer, dialect = "responses",
           NEW h \in Seq(Utterable("responses")), h # <<>>, Last(h).role \in {"user", "tool"}
    PROVE  \/ /\ ParseOf("responses")[h \o Echo(answer)].messages = ParseOf("responses")[h].messages
              /\ repeats => answer.calls = <<>>
           \/ \E t : /\ TurnFor(t, answer)
                     /\ ParseOf("responses")[h \o Echo(answer)].messages = Append(ParseOf("responses")[h].messages, t)
<1> DEFINE a == Plain(answer)
           cs == CallPieces(answer)
           ks == IF repeats THEN cs ELSE <<>>
           ms == ParseOf("responses")[h].messages
           turn == TurnOfPieces(a, ks)
<1>1. a \in CanonicalAnswer /\ a.text = answer.text
  BY PlainIsSame
<1>2. cs \in Seq(CallPiece) /\ (cs = <<>> <=> answer.calls = <<>>)
  BY AskedTyped
<1>3. Echo(answer) = Items(Made(a, "summary", "parts", ks))
  BY ResponsesKeeps
<1>4. ks \in Seq(CallPiece)
  BY <1>2, EmptySeq
<1>5. TurnFor(turn, answer)
  <2>1. IF repeats
        THEN /\ Len(CallsOf(ks)) = Len(answer.calls)
             /\ \A c \in 1..Len(answer.calls) : CallsOf(ks)[c].id = answer.calls[c].id
        ELSE CallsOf(ks) = <<>>
    <3>1. CallsOf(<<>>) = <<>>
      <4>1. Len(<<>>) = 0 /\ 1..0 = {}
        BY EmptySeq
      <4>2. QED
        BY <4>1 DEF CallsOf
    <3>2. QED
      BY <3>1, IdsKept
  <2> HIDE DEF a, ks
  <2>2. QED
    BY <2>1, CallsAsked DEF TurnOfPieces
<1> HIDE DEF a, ks
<1>6. ParseOf("responses")[h \o Items(Made(a, "summary", "parts", ks))] =
          IF a.text = <<>> /\ ks = <<>>
          THEN State(ms, IF a.reasoning = <<>> THEN None ELSE a.reasoning)
          ELSE State(Append(ms, turn), None)
  BY <1>1, <1>4, PiecesParsed
<1>7. repeats /\ ks = <<>> => answer.calls = <<>>
  BY <1>2 DEF ks
<1> DEFINE Q == ParseOf("responses")[h \o Echo(answer)]
<1>8. Q = IF a.text = <<>> /\ ks = <<>>
          THEN State(ms, IF a.reasoning = <<>> THEN None ELSE a.reasoning)
          ELSE State(Append(ms, turn), None)
  BY <1>3, <1>6
<1> HIDE DEF Q, ms, turn
<1>9. CASE a.text = <<>> /\ ks = <<>>
  BY <1>7, <1>8, <1>9, StateParts DEF Q, ms
<1>10. CASE ~(a.text = <<>> /\ ks = <<>>)
  <2>1. Q.messages = Append(ms, turn)
    BY <1>8, <1>10, StateParts
  <2>2. QED
    BY <1>5, <2>1 DEF Q, ms
<1>11. QED
  BY <1>9, <1>10

\* In an Anthropic history, a turn.
LEMMA AnthropicEcho ==
    ASSUME NEW answer \in CanonicalAnswer, dialect = "anthropic", repeats
    PROVE  \E m \in Utterable("anthropic") : \E t :
              Echo(answer) = <<m>> /\ AnthropicAdds(m) = <<t>> /\ TurnFor(t, answer)
<1> DEFINE a == Plain(answer)
           is == Inputs(a)
           pieces == Made(a, "summary", "parts", is)
           m == Message("assistant", pieces)
           t == Assistant(Anthropic!AssistantText(pieces), Anthropic!Thinking(pieces), ToolCalls(pieces))
<1>1. "summary" \in Form /\ "parts" \in Form
  BY DEF Form
<1>2. /\ a \in CanonicalAnswer /\ a.key # "hidden" /\ a.calls = answer.calls
      /\ Deltas(a) = Deltas(answer)
  BY PlainIsSame
<1>3. Echo(answer) = <<m>>
  <2>1. Echo(answer) = FinalMessage(a)
    <3> HIDE DEF a
    <3>1. QED
      BY <1>2 DEF Echo, FinalMessage
  <2> HIDE DEF m, a
  <2>2. QED
    BY <1>2, <2>1, MadeAsInput DEF m
<1>4. m \in Utterable("anthropic")
  <2>1. <<m>> \in Seq(Utterable("anthropic"))
    BY <1>3, FinalMessageTyped DEF Echo
  <2> HIDE DEF m
  <2>2. QED
    BY <2>1, ElementOfSeq
<1>5. m.role = "assistant" /\ m.pieces = pieces
  BY DEF Message
<1> HIDE DEF m, a
<1>6. is \in Seq(CallPiece)
  BY <1>2, InputsTyped
<1>7. OfKind(pieces, "call") = is
  <2> HIDE DEF is
  <2>1. QED
    BY <1>1, <1>2, <1>6, AnswerRead
<1> HIDE DEF pieces
<1>8. ToolCalls(pieces) = CallsOf(is)
  BY <1>7, CallsRead
<1>9. /\ Len(CallsOf(is)) = Len(answer.calls)
      /\ \A c \in 1..Len(answer.calls) : CallsOf(is)[c].id = answer.calls[c].id
  BY <1>2, IdsKept
<1> HIDE DEF is
<1>10. TurnFor(t, answer)
  BY <1>8, <1>9, CallsAsked
<1>11. QED
  BY <1>3, <1>4, <1>5, <1>10 DEF AnthropicAdds

\* And so in a Chat history.
LEMMA ChatEcho ==
    ASSUME NEW answer \in CanonicalAnswer, dialect = "chat", repeats
    PROVE  \E m \in Utterable("chat") : \E t :
              Echo(answer) = <<m>> /\ ChatAdds(m) = <<t>> /\ TurnFor(t, answer)
<1> DEFINE f == IF answer.key = "reasoning_content" THEN answer.key ELSE "reasoning"
           cs == CallPieces(answer)
           pieces == Made(answer, f, "string", cs)
           m == Message("assistant", pieces)
           t == Assistant(IF Chat!Content(m) = <<>> THEN None ELSE Chat!Content(m),
                          Chat!ReasoningContent(m), ToolCalls(pieces))
<1>1. f \in Form /\ "string" \in Form
  BY DEF Form
<1>2. Echo(answer) = <<m>>
  BY DEF Echo, Passthrough, Message, Made, Thought, Spoken
<1>3. m \in Utterable("chat")
  <2>1. <<m>> \in Seq(Utterable("chat"))
    BY <1>2, PassthroughTyped DEF Echo
  <2> HIDE DEF m
  <2>2. QED
    BY <2>1, ElementOfSeq
<1>4. m.role = "assistant" /\ m.pieces = pieces
  BY DEF Message
<1> HIDE DEF m, f
<1>5. OfKind(pieces, "call") = cs
  BY <1>1, AnswerRead, AskedTyped
<1> HIDE DEF pieces
<1>6. ToolCalls(pieces) = CallsOf(cs)
  BY <1>5, CallsRead
<1>7. /\ Len(CallsOf(cs)) = Len(answer.calls)
      /\ \A c \in 1..Len(answer.calls) : CallsOf(cs)[c].id = answer.calls[c].id
  BY IdsKept
<1> HIDE DEF cs
<1>8. TurnFor(t, answer)
  BY <1>6, <1>7, CallsAsked
<1>9. QED
  BY <1>2, <1>3, <1>4, <1>8 DEF ChatAdds

\* What comes back adds the turn of the answer to what there was, if anything.
LEMMA EchoMade ==
    ASSUME dialect \in Dialect, history \in Seq(Utterable(dialect)), ~repeats => dialect = "responses",
           history # <<>>, Last(history).role \in {"user", "tool"}, NEW answer \in CanonicalAnswer
    PROVE  \/ /\ ParseOf(dialect)[history \o Echo(answer)].messages = ParseOf(dialect)[history].messages
              /\ repeats => answer.calls = <<>>
           \/ \E t \in CanonicalMessage :
                 /\ TurnFor(t, answer)
                 /\ ParseOf(dialect)[history \o Echo(answer)].messages = Append(ParseOf(dialect)[history].messages, t)
<1> DEFINE d == dialect
           ms == ParseOf(d)[history].messages
           ns == ParseOf(d)[history \o Echo(answer)].messages
<1>1. ms \in Seq(CanonicalMessage) /\ ns \in Seq(CanonicalMessage)
  <2> DEFINE g == history \o Echo(answer)
  <2>1. g \in Seq(Utterable(d))
    BY EchoTyped, ConcatProperties
  <2> HIDE DEF g
  <2>2. QED
    BY <2>1, RequestTyped DEF g
<1>2. \/ ns = ms /\ (repeats => answer.calls = <<>>)
      \/ \E t : TurnFor(t, answer) /\ ns = Append(ms, t)
  <2>1. CASE d = "responses"
    BY <2>1, ResponsesEcho
  <2>2. CASE d = "anthropic"
    <3>1. PICK m \in Utterable("anthropic") : \E t :
              Echo(answer) = <<m>> /\ AnthropicAdds(m) = <<t>> /\ TurnFor(t, answer)
      BY <2>2, AnthropicEcho
    <3>2. PICK t : Echo(answer) = <<m>> /\ AnthropicAdds(m) = <<t>> /\ TurnFor(t, answer)
      BY <3>1
    <3>3. m \in Utterable(d) /\ history \o <<m>> = Append(history, m)
      BY <2>2, <3>1, AppendIsConcat
    <3>4. ParseOf(d)[Append(history, m)].messages = Append(ms, t)
      BY <2>2, <3>2, <3>3, TurnHeld
    <3>5. QED
      BY <3>2, <3>3, <3>4
  <2>3. CASE d = "chat"
    <3>1. PICK m \in Utterable("chat") : \E t :
              Echo(answer) = <<m>> /\ ChatAdds(m) = <<t>> /\ TurnFor(t, answer)
      BY <2>3, ChatEcho
    <3>2. PICK t : Echo(answer) = <<m>> /\ ChatAdds(m) = <<t>> /\ TurnFor(t, answer)
      BY <3>1
    <3>3. m \in Utterable(d) /\ history \o <<m>> = Append(history, m)
      BY <2>3, <3>1, AppendIsConcat
    <3>4. ParseOf(d)[Append(history, m)].messages = Append(ms, t)
      BY <2>3, <3>2, <3>3, TurnHeld
    <3>5. QED
      BY <3>2, <3>3, <3>4
  <2>4. QED
    BY <2>1, <2>2, <2>3 DEF Dialect
<1> HIDE DEF ms, ns
<1>3. ASSUME NEW t, ns = Append(ms, t) PROVE t \in CanonicalMessage
  <2> DEFINE S == CanonicalMessage \cup {t}
  <2>1. ms \in Seq(S) /\ t \in S
    BY <1>1, SeqMonotonic
  <2> HIDE DEF S
  <2>2. Len(ns) = Len(ms) + 1 /\ ns[Len(ms) + 1] = t /\ Len(ms) \in Nat
    BY <1>3, <2>1, AppendProperties, LenProperties
  <2>3. QED
    BY <1>1, <2>2, ElementOfSeq
<1>4. QED
  BY <1>2, <1>3 DEF ns, ms

-----------------------------------------------------------------------------
\* The structure is kept by whatever a history goes on with.

\* What the user says is one message, if any.
LEMMA SayMade ==
    ASSUME NEW d \in Dialect, NEW h \in Seq(Utterable(d)), NEW text \in Seq(Nat),
           NEW m, m = Message("user", <<Piece("text", None, text, "string")>>)
    PROVE  \/ ParseOf(d)[Append(h, m)].messages = ParseOf(d)[h].messages
           \/ \E u \in CanonicalMessage :
                 u.role = "user" /\ ParseOf(d)[Append(h, m)].messages = Append(ParseOf(d)[h].messages, u)
<1> DEFINE p == Piece("text", None, text, "string")
           s == ParseOf(d)[h]
           ms == s.messages
           g == ParseOf(d)[Append(h, m)]
<1>1. p \in NamedPiece /\ p.kind = "text"
  BY PieceTyped DEF PieceKind, Form, Piece
<1>2. m \in Utterable(d)
  BY SaidIsUtterable
<1>3. m.role = "user" /\ m.pieces = <<p>> /\ m.pieces[1] = p
  BY DEF Message
<1> HIDE DEF p
<1>4. s \in ParserState /\ g = After(d, s, m)
  BY <1>2, ParseLaws
<1>5. ms \in Seq(CanonicalMessage)
  BY <1>4, StateParts
<1>6. \A t : User(t).role = "user"
  BY DEF User
<1>7. /\ d = "responses" => g = State(Append(ms, User(TextOf(m.pieces))), None)
      /\ d = "anthropic" => g = State(ms \o AnthropicAdds(m), s.pending)
      /\ d = "chat" => g = State(ms \o <<User(Chat!Content(m))>>, s.pending)
  BY <1>1, <1>3, <1>4 DEF After, AfterItem, AfterText, ChatAdds
<1> HIDE DEF s, ms, g
<1>8. CASE d = "responses"
  <2> DEFINE u == User(TextOf(m.pieces))
  <2>1. u \in CanonicalMessage
    BY <1>2, Uttered, TextTyped, MessagesTyped
  <2>2. u.role = "user"
    BY <1>6
  <2> HIDE DEF u
  <2>3. g.messages = Append(ms, u)
    BY <1>7, <1>8, StateParts DEF u
  <2>4. QED
    BY <2>1, <2>2, <2>3 DEF g, ms, s
<1>9. CASE d = "anthropic"
  <2> DEFINE blocks == m.pieces
  <2>1. OfKind(blocks, "output") = <<>>
    <3>1. <<>> \in Seq(NamedPiece) /\ Len(<<>>) = 0 /\ 1..0 = {}
      BY EmptySeq
    <3>2. <<p>> \in Seq(NamedPiece) /\ Len(<<p>>) = 1 /\ <<p>>[1] = p
      BY <1>1, OnePiece
    <3> DEFINE v == <<p>>
    <3>3. v \in Seq(NamedPiece) /\ \A i \in 1..Len(v) : v[i].kind # "output"
      BY <1>1, <3>2
    <3>4. \A i \in 1..Len(<<>>) : <<>>[i].kind = "output"
      BY <3>1
    <3> HIDE DEF v
    <3>5. OfKind(<<>> \o v, "output") = <<>>
      BY <3>1, <3>3, <3>4, OutputsPicked
    <3>6. QED
      BY <1>3, <3>3, <3>5, ConcatEmptySeq DEF v
  <2> DEFINE more == Anthropic!UserText(blocks)
  <2>2. Anthropic!ToolResults(blocks) = <<>>
    BY <2>1, AnthropicReads, EmptySeq DEF Anthropic!ToolResults
  <2>3. more = <<>> \/ more = <<User(TextOf(blocks))>>
    BY AnthropicReads DEF Anthropic!UserText
  <2>4. more \in Seq(CanonicalMessage)
    BY <1>2, <1>9, AnthropicParts
  <2>5. AnthropicAdds(m) = <<>> \o more
    BY <1>3, <2>2 DEF AnthropicAdds
  <2> HIDE DEF more
  <2>6. AnthropicAdds(m) = more
    BY <2>4, <2>5, ConcatEmptySeq
  <2>7. g.messages = ms \o more
    BY <1>7, <1>9, <2>6, StateParts
  <2>8. CASE more = <<>>
    BY <1>5, <2>7, <2>8, ConcatEmptySeq DEF g, ms, s
  <2>9. CASE more = <<User(TextOf(blocks))>>
    <3> DEFINE u == User(TextOf(blocks))
    <3>1. u.role = "user"
      BY <1>6
    <3> HIDE DEF u
    <3>2. more = <<u>>
      BY <2>9 DEF u
    <3>3. u \in CanonicalMessage
      BY <2>4, <3>2, ElementOfSeq
    <3>4. g.messages = Append(ms, u)
      BY <1>5, <2>7, <3>2, <3>3, AppendIsConcat
    <3>5. QED
      BY <3>1, <3>3, <3>4 DEF g, ms, s
  <2>10. QED
    BY <2>3, <2>8, <2>9
<1>10. CASE d = "chat"
  <2> DEFINE u == User(Chat!Content(m))
  <2>1. u.role = "user"
    BY <1>6
  <2>2. ChatAdds(m) = <<u>>
    BY <1>3 DEF ChatAdds
  <2> HIDE DEF u
  <2>3. u \in CanonicalMessage
    BY <1>2, <1>10, <2>2, ChatTyped, ElementOfSeq
  <2>4. g.messages = ms \o <<u>>
    BY <1>7, <1>10, StateParts DEF u
  <2>5. QED
    BY <1>5, <2>1, <2>3, <2>4, AppendIsConcat DEF g, ms, s
<1>11. QED
  BY <1>8, <1>9, <1>10 DEF Dialect

-----------------------------------------------------------------------------
\* Messages, results that are owed and ids that were used.

Consistent(kept, ms, os, ids) ==
    /\ \A i \in 1..Len(os) : os[i] \in ids
    /\ kept => Structured(ms) /\ \A i \in 1..Len(os) : Follows(ms, os[i])
    /\ ~kept => /\ Unclaimed(ms)
                /\ \A k \in Results(ms) : ms[k].id \in ids /\ \A i \in 1..Len(os) : os[i] # ms[k].id
                /\ \A i, j \in 1..Len(os) : os[i] = os[j] => i = j

\* A message that is no result leaves the results alone.
LEMMA SameResults ==
    ASSUME NEW ms \in Seq(CanonicalMessage), NEW m \in CanonicalMessage, m.role # "tool"
    PROVE  \A k \in Results(Append(ms, m)) : k \in Results(ms) /\ Append(ms, m)[k] = ms[k]
<1> DEFINE a == Append(ms, m)
           n == Len(ms)
<1>1. /\ n \in Nat /\ Len(a) = n + 1
      /\ \A i \in 1..n : a[i] = ms[i]
      /\ a[n + 1] = m
  BY AppendProperties, LenProperties
<1> HIDE DEF a
<1>2. \A k \in Results(a) : k \in Results(ms) /\ a[k] = ms[k]
  BY <1>1 DEF Results
<1>3. QED
  BY <1>2 DEF a

\* The user speaks when nothing is owed.
LEMMA UserIsConsistent ==
    ASSUME NEW kept, NEW ids, NEW ms \in Seq(CanonicalMessage), Consistent(kept, ms, <<>>, ids),
           NEW u \in CanonicalMessage, u.role = "user"
    PROVE  Consistent(kept, Append(ms, u), <<>>, ids)
<1> DEFINE a == Append(ms, u)
<1>1. \A i \in 1..Len(<<>>) : FALSE
  BY EmptySeq
<1>2. kept => Structured(a)
  BY StructuredOne DEF Consistent
<1>3. ~kept => Unclaimed(a)
  BY UnclaimedOne DEF Consistent
<1>4. \A k \in Results(a) : k \in Results(ms) /\ a[k] = ms[k]
  BY SameResults
<1> HIDE DEF a
<1>5. Consistent(kept, a, <<>>, ids)
  BY <1>1, <1>2, <1>3, <1>4 DEF Consistent
<1>6. QED
  BY <1>5 DEF a

\* All results come at once.
LEMMA ResultsAreConsistent ==
    ASSUME NEW kept, NEW ids, NoId \notin ids, NEW ms \in Seq(CanonicalMessage), NEW os,
           Consistent(kept, ms, os, ids), NEW ts \in Seq(CanonicalMessage), Len(ts) = Len(os),
           \A i \in 1..Len(os) : ts[i].role = "tool" /\ ts[i].id = os[i]
    PROVE  Consistent(kept, ms \o ts, <<>>, ids)
<1> DEFINE a == ms \o ts
<1>1. \A i \in 1..Len(<<>>) : FALSE
  BY EmptySeq
<1>2. \A i \in 1..Len(ts) : ts[i].role = "tool" /\ ts[i].id = os[i] /\ os[i] \in ids
  BY DEF Consistent
<1>3. kept => Structured(a)
  <2> SUFFICES ASSUME kept PROVE Structured(a)
    OBVIOUS
  <2> DEFINE I == {os[i] : i \in 1..Len(os)}
  <2>1. Structured(ms) /\ NoId \notin I /\ \A id \in I : Follows(ms, id)
    BY DEF Consistent
  <2>2. \A i \in 1..Len(ts) : os[i] \in I
    OBVIOUS
  <2> HIDE DEF I
  <2>3. ts \in Seq(ResultsOf(I))
    BY <1>2, <2>2, LenProperties, ElementOfSeq DEF ResultsOf
  <2>4. QED
    BY <2>1, <2>3, ResultsBehind
<1>4. ~kept => Unclaimed(a) /\ \A k \in Results(a) : a[k].id \in ids
  <2> SUFFICES ASSUME ~kept PROVE Unclaimed(a) /\ \A k \in Results(a) : a[k].id \in ids
    OBVIOUS
  <2>1. /\ Unclaimed(ms)
        /\ \A k \in Results(ms) : ms[k].id \in ids /\ \A i \in 1..Len(os) : os[i] # ms[k].id
        /\ \A i, j \in 1..Len(os) : os[i] = os[j] => i = j
    BY DEF Consistent
  <2>2. \A i \in 1..Len(ts) : ts[i].role = "tool" /\ ts[i].id # NoId
    BY <1>2
  <2>3. \A i, j \in 1..Len(ts) : ts[i].id = ts[j].id => i = j
    BY <1>2, <2>1
  <2>4. \A k \in Results(ms) : \A i \in 1..Len(ts) : ms[k].id # ts[i].id
    BY <1>2, <2>1
  <2>5. /\ Unclaimed(a)
        /\ \A k \in Results(a) : \/ \E j \in Results(ms) : ms[j].id = a[k].id
                                 \/ \E i \in 1..Len(ts) : ts[i].id = a[k].id
    BY <2>1, <2>2, <2>3, <2>4, UnclaimedBehind
  <2> HIDE DEF a
  <2>6. QED
    BY <1>2, <2>1, <2>5
<1> HIDE DEF a
<1>5. QED
  BY <1>1, <1>3, <1>4 DEF a, Consistent

\* A turn with calls that are new.
LEMMA TurnIsConsistent ==
    ASSUME NEW kept, NEW ids, NEW ms \in Seq(CanonicalMessage), NEW os, Consistent(kept, ms, os, ids),
           NEW x, NEW more, ids \subseteq more, \A i \in 1..Len(x) : x[i] \in more /\ x[i] \notin ids,
           \A i, j \in 1..Len(x) : x[i] = x[j] => i = j
    PROVE  /\ (kept => x = <<>>) => Consistent(kept, ms, x, more)
           /\ \A t \in CanonicalMessage :
                 /\ t.role = "assistant"
                 /\ IF kept THEN \A i \in 1..Len(x) : Calls(t, x[i]) ELSE t.calls = <<>>
                 => Consistent(kept, Append(ms, t), x, more)
<1>1. /\ kept => Structured(ms)
      /\ ~kept => Unclaimed(ms) /\ \A k \in Results(ms) : ms[k].id \in ids
  BY DEF Consistent
<1>2. \A k \in Results(ms) : ms[k].id \in ids => ms[k].id \in more /\ \A i \in 1..Len(x) : x[i] # ms[k].id
  OBVIOUS
<1>3. (kept => x = <<>>) => Consistent(kept, ms, x, more)
  BY <1>1, <1>2, EmptySeq DEF Consistent
<1>4. ASSUME NEW t \in CanonicalMessage, t.role = "assistant",
             IF kept THEN \A i \in 1..Len(x) : Calls(t, x[i]) ELSE t.calls = <<>>
      PROVE  Consistent(kept, Append(ms, t), x, more)
  <2> DEFINE a == Append(ms, t)
  <2>1. \A k \in Results(a) : k \in Results(ms) /\ a[k] = ms[k]
    BY <1>4, SameResults
  <2>2. kept => Structured(a) /\ \A i \in 1..Len(x) : Follows(a, x[i])
    BY <1>1, <1>4, StructuredOne, FollowsOn
  <2>3. ~kept => Unclaimed(a)
    BY <1>1, <1>4, UnclaimedOne
  <2> HIDE DEF a
  <2>4. QED
    BY <1>1, <1>2, <2>1, <2>2, <2>3 DEF a, Consistent
<1>5. QED
  BY <1>3, <1>4

\* What goes out of it is accepted, from the first message on.
LEMMA ConsistentGoesOut ==
    ASSUME NEW kept, NEW ids, NEW ms \in Seq(CanonicalMessage), NEW os, Consistent(kept, ms, os, ids),
           NEW n \in 0..Len(ms)
    PROVE  Accepted(NormalOf[SubSeq(ms, 1, n)].out)
<1> DEFINE t == SubSeq(ms, 1, n)
<1>1. t \in Seq(CanonicalMessage)
  BY UpTo
<1>2. /\ kept => Structured(t)
      /\ ~kept => Unclaimed(t)
  BY PartOfIt DEF Consistent
<1> HIDE DEF t
<1>3. QED
  BY <1>1, <1>2, StructuredNormal, UnclaimedNormal DEF t

-----------------------------------------------------------------------------
\* The ids of the calls that were answered.

IdsOf(answer) == [c \in 1..Len(answer.calls) |-> answer.calls[c].id]

\* An answer adds its own.
LEMMA MoreAnswered ==
    ASSUME answers \in Seq(CanonicalAnswer), NEW answer \in CanonicalAnswer, answers' = Append(answers, answer)
    PROVE  /\ AnsweredIds \in Seq(CallId) /\ IdsOf(answer) \in Seq(CallId)
           /\ AnsweredIds' = AnsweredIds \o IdsOf(answer)
<1> DEFINE as == Append(answers, answer)
           n == Len(answers)
           s == [i \in 1..n |-> IdsOf(answers[i])]
           t == [i \in 1..Len(as) |-> IdsOf(as[i])]
           Calling == [id : CallId, body : Seq(Nat), form : {"json", "broken"}]
<1>1. \A a \in CanonicalAnswer : IdsOf(a) \in Seq(CallId)
  <2> SUFFICES ASSUME NEW a \in CanonicalAnswer PROVE IdsOf(a) \in Seq(CallId)
    OBVIOUS
  <2> DEFINE calls == a.calls
  <2>1. calls \in Seq(Calling)
    <3> HIDE DEF Calling
    <3>1. QED
      BY DEF CanonicalAnswer, Calling
  <2>2. \A c \in Calling : c.id \in CallId
    OBVIOUS
  <2>3. IdsOf(a) = [c \in 1..Len(calls) |-> calls[c].id]
    BY DEF IdsOf
  <2> HIDE DEF Calling, calls
  <2>4. Len(calls) \in Nat /\ \A c \in 1..Len(calls) : calls[c] \in Calling
    BY <2>1, LenProperties, ElementOfSeq
  <2>5. [c \in 1..Len(calls) |-> calls[c].id] \in Seq(CallId)
    BY <2>2, <2>4
  <2>6. QED
    BY <2>3, <2>5
<1>2. AnsweredIds = FlattenSeq(s) /\ AnsweredIds' = FlattenSeq(t)
  BY DEF AnsweredIds, IdsOf
<1>3. /\ n \in Nat /\ Len(as) = n + 1
      /\ \A i \in 1..n : as[i] = answers[i] /\ answers[i] \in CanonicalAnswer
      /\ as[n + 1] = answer
  BY AppendProperties, LenProperties, ElementOfSeq
<1> HIDE DEF as
<1> DEFINE e(i) == IdsOf(answers[i])
           x == IdsOf(answer)
           C == Seq(CallId)
<1>4. s = [i \in 1..n |-> e(i)] /\ \A i \in 1..n : e(i) \in C
  BY <1>1, <1>3
<1>5. x \in C
  BY <1>1
<1>6. \A i \in 1..n : IdsOf(as[i]) = e(i)
  BY <1>3
<1>7. IdsOf(as[n + 1]) = x
  BY <1>3
<1> HIDE DEF s, e, x, C
<1>8. s \in Seq(C) /\ Len(s) = n /\ \A i \in 1..n : s[i] = e(i)
  BY <1>3, <1>4
<1>9. t = Append(s, x)
  <2> DEFINE b == Append(s, x)
  <2>1. /\ b \in Seq(C) /\ Len(b) = n + 1 /\ b[n + 1] = x
        /\ \A i \in 1..n : b[i] = s[i]
    BY <1>5, <1>8, AppendProperties
  <2>2. b = [i \in 1..Len(b) |-> b[i]]
    <3> HIDE DEF b
    <3>1. QED
      BY <2>1, LenProperties
  <2> HIDE DEF b
  <2>3. ASSUME NEW i \in 1..(n + 1) PROVE b[i] = IdsOf(as[i])
    <3>1. CASE i = n + 1
      BY <1>7, <2>1, <3>1
    <3>2. CASE i # n + 1
      <4>1. i \in 1..n
        BY <1>3, <3>2
      <4>2. QED
        BY <1>6, <1>8, <2>1, <4>1
    <3>3. QED
      BY <3>1, <3>2
  <2>4. t = [i \in 1..(n + 1) |-> IdsOf(as[i])] /\ b = [i \in 1..(n + 1) |-> b[i]]
    BY <1>3, <2>1, <2>2
  <2> HIDE DEF t
  <2>5. t = b
    BY <2>3, <2>4
  <2>6. QED
    BY <2>5 DEF b
<1>10. FlattenSeq(Append(s, x)) = FlattenSeq(s) \o x /\ FlattenSeq(s) \in C
  BY <1>5, <1>8, FlattenAppend, FlattenTyped DEF C
<1>11. QED
  BY <1>2, <1>5, <1>9, <1>10 DEF x, C

-----------------------------------------------------------------------------
\* A conversation that the bridge carried from its start.

\* It did, and the calls can be told apart.
Apart ==
    /\ recalled = 0 /\ Len(AnsweredIds) = Cardinality(ToSet(AnsweredIds))
    /\ NoId \notin ToSet(AnsweredIds)

StrictInv ==
    /\ ~repeats => dialect = "responses"
    /\ Apart => /\ Accepted(out)
                /\ Consistent(repeats, ParseOf(dialect)[history].messages, owed, ToSet(AnsweredIds))

\* Nothing was said: there is nothing to accept.
LEMMA InitStrict == Init => StrictInv
<1> SUFFICES ASSUME Init PROVE StrictInv
  OBVIOUS
<1>1. /\ dialect \in Dialect /\ owed = <<>> /\ out = <<>> /\ recalled = Len(history)
      /\ history \in Histories[dialect] /\ (~repeats => dialect = "responses")
  BY DEF Init
<1>2. \A i \in 1..Len(<<>>) : FALSE
  BY EmptySeq
<1>3. ASSUME recalled = 0 PROVE ParseOf(dialect)[history].messages = <<>>
  BY <1>1, <1>3, ConversationAssumption, EmptySeq, ParseLaws, StateParts, ZenonT(30) DEF Fresh
<1>4. \A ids : Consistent(repeats, <<>>, <<>>, ids)
  BY <1>2 DEF Accepted, Results, Consistent, Structured, Unclaimed
<1>5. QED
  BY <1>1, <1>2, <1>3, <1>4 DEF StrictInv, Apart, Accepted

\* What is between is left as it is.
LEMMA StrictStays ==
    ASSUME StrictInv, UNCHANGED <<dialect, repeats, history, recalled, owed, answers>>,
           Apart => Accepted(out')
    PROVE  StrictInv'
<1>1. AnsweredIds' = AnsweredIds
  BY DEF AnsweredIds
<1>2. ParseOf(dialect')[history'].messages = ParseOf(dialect)[history].messages
  OBVIOUS
<1>3. ASSUME Apart'
      PROVE  /\ Accepted(out')
             /\ Consistent(repeats', ParseOf(dialect')[history'].messages, owed', ToSet(AnsweredIds'))
  BY <1>1, <1>2, <1>3 DEF StrictInv, Apart
<1>4. QED
  BY <1>3 DEF StrictInv, Accepted, Calls

-----------------------------------------------------------------------------
\* The structure is kept by every step.

\* The history moves on while nothing goes out.
LEMMA StrictMoves ==
    ASSUME StrictInv, UNCHANGED <<dialect, repeats, out>>, Apart' => Apart,
           Apart' => Consistent(repeats, ParseOf(dialect)[history'].messages, owed', ToSet(AnsweredIds'))
    PROVE  StrictInv'
<1>1. ASSUME Apart'
      PROVE  /\ Accepted(out)
             /\ Consistent(repeats', ParseOf(dialect')[history'].messages, owed', ToSet(AnsweredIds'))
  BY <1>1 DEF StrictInv
<1>2. QED
  BY <1>1 DEF StrictInv, Accepted, Calls

\* What is placed so far is accepted, however far that is.
LEMMA PlacedIsAccepted ==
    ASSUME RequestInv', dialect' \in Dialect, history' \in Seq(Utterable(dialect')), pc' = "normalize",
           NEW kept, NEW os, NEW ids, Consistent(kept, ParseOf(dialect')[history'].messages, os, ids)
    PROVE  Accepted(out')
<1> DEFINE ms == ParseOf(dialect')[history'].messages
           n == at' - 1
<1>1. /\ messages' = ms /\ at' \in 1..(Len(messages') + 1)
      /\ Outgoing(out', announced') = NormalOf[SubSeq(messages', 1, at' - 1)]
  BY DEF RequestInv, Building
<1>2. ms \in Seq(CanonicalMessage) /\ Len(ms) \in Nat
  BY RequestTyped, LenProperties
<1>3. n \in 0..Len(ms)
  <2> DEFINE k == at'
             l == Len(ms)
  <2>1. k \in 1..(l + 1) /\ l \in Nat /\ n = k - 1
    BY <1>1, <1>2
  <2> HIDE DEF k, l, n
  <2>2. QED
    BY <2>1 DEF l
<1>4. out' = NormalOf[SubSeq(ms, 1, n)].out
  BY <1>1, LoopParts
<1> HIDE DEF ms, n
<1>5. Accepted(NormalOf[SubSeq(ms, 1, n)].out)
  BY <1>2, <1>3, ConsistentGoesOut DEF ms
<1>6. QED
  BY <1>4, <1>5

\* Every step keeps to the structure.
LEMMA NextStrict ==
    RequestInv /\ RequestInv' /\ ComesBackInv /\ StrictInv /\ [Next]_vars => StrictInv'
<1> SUFFICES ASSUME RequestInv, RequestInv', ComesBackInv, StrictInv, [Next]_vars PROVE StrictInv'
  OBVIOUS
<1> DEFINE ms == ParseOf(dialect)[history].messages
           ids == ToSet(AnsweredIds)
<1>1. /\ dialect \in Dialect /\ history \in Seq(Utterable(dialect)) /\ clock \in Nat /\ owed \in Seq(CallId)
      /\ Len(history) \in Nat /\ ms \in Seq(CanonicalMessage)
  BY LenProperties, RequestTyped DEF RequestInv, Typed
<1>a. ~repeats => dialect = "responses"
  BY DEF StrictInv
<1>b. Apart => Consistent(repeats, ms, owed, ids) /\ NoId \notin ids
  BY DEF StrictInv, Apart
<1>c. ASSUME answers' = answers, recalled' = recalled PROVE AnsweredIds' = AnsweredIds /\ (Apart' => Apart)
  BY <1>c DEF AnsweredIds, Apart
<1> HIDE DEF ms, ids
<1>2. CASE Say
  <2> DEFINE text == <<Fragment(clock + 1, 1)>>
             m == Message("user", <<Piece("text", None, text, "string")>>)
             ns == ParseOf(dialect)[history'].messages
  <2>1. /\ history' = Append(history, m) /\ owed = <<>> /\ owed' = owed
        /\ UNCHANGED <<dialect, repeats, recalled, out, answers>>
    BY <1>2 DEF Say, given
  <2>2. text \in Seq(Nat)
    <3>1. clock + 1 \in Nat
      BY <1>1
    <3>2. QED
      BY <3>1, FragmentTyped
  <2> HIDE DEF text
  <2>3. PICK x : x = Message("user", <<Piece("text", None, text, "string")>>)
    OBVIOUS
  <2>3a. x = m
    BY <2>3
  <2> HIDE DEF m
  <2>4. \/ ParseOf(dialect)[Append(history, x)].messages = ms
        \/ \E u \in CanonicalMessage :
              u.role = "user" /\ ParseOf(dialect)[Append(history, x)].messages = Append(ms, u)
    <3> HIDE DEF ns
    <3>1. \/ ParseOf(dialect)[Append(history, x)].messages = ParseOf(dialect)[history].messages
          \/ \E u \in CanonicalMessage :
                u.role = "user"
                /\ ParseOf(dialect)[Append(history, x)].messages = Append(ParseOf(dialect)[history].messages, u)
      <4>1. PICK d \in Dialect : d = dialect
        BY <1>1
      <4>2. PICK h \in Seq(Utterable(d)) : h = history
        BY <1>1, <4>1
      <4>3. PICK txt \in Seq(Nat) : txt = text
        BY <2>2
      <4>4. x = Message("user", <<Piece("text", None, txt, "string")>>)
        BY <2>3, <4>3
      <4>5. \/ ParseOf(d)[Append(h, x)].messages = ParseOf(d)[h].messages
            \/ \E u \in CanonicalMessage :
                  u.role = "user" /\ ParseOf(d)[Append(h, x)].messages = Append(ParseOf(d)[h].messages, u)
        <5> DEFINE Says(a, b, z) ==
                       \/ ParseOf(a)[Append(b, z)].messages = ParseOf(a)[b].messages
                       \/ \E u \in CanonicalMessage :
                             u.role = "user"
                             /\ ParseOf(a)[Append(b, z)].messages = Append(ParseOf(a)[b].messages, u)
                   Said(y) == Message("user", <<Piece("text", None, y, "string")>>)
        <5>1. \A a \in Dialect : \A b \in Seq(Utterable(a)), y \in Seq(Nat) : \A z :
                  z = Said(y) => Says(a, b, z)
          BY SayMade
        <5>2. x = Said(txt)
          BY <4>4
        <5> HIDE DEF Says, Said
        <5>3. QED
          BY <5>1, <5>2, SMTT(30) DEF Says
      <4>6. QED
        BY <4>1, <4>2, <4>5
    <3>2. QED
      BY <3>1 DEF ms
  <2>5. \/ ns = ms
        \/ \E u \in CanonicalMessage : u.role = "user" /\ ns = Append(ms, u)
    BY <2>1, <2>3a, <2>4
  <2>6. Apart => Consistent(repeats, ns, owed', ids)
    <3>1. Apart => Consistent(repeats, ms, <<>>, ids)
      BY <1>b, <2>1
    <3> HIDE DEF ns
    <3>2. QED
      BY <1>1, <2>1, <2>5, <3>1, UserIsConsistent
  <2>7. AnsweredIds' = AnsweredIds /\ (Apart' => Apart)
    BY <1>c, <2>1
  <2>8. QED
    BY <2>1, <2>6, <2>7, StrictMoves DEF ids
<1>3. CASE ReturnResults
  <2> DEFINE ns == ParseOf(dialect)[history'].messages
  <2>1. owed' = <<>> /\ UNCHANGED <<dialect, repeats, recalled, out, answers>>
    BY <1>3 DEF ReturnResults, given
  <2>2. PICK ts \in Seq(CanonicalMessage) :
            /\ Len(ts) = Len(owed)
            /\ \A i \in 1..Len(owed) : ts[i].role = "tool" /\ ts[i].id = owed[i]
            /\ \/ ns = ms \o ts
               \/ \E u \in CanonicalMessage : u.role = "user" /\ ns = Append(ms \o ts, u)
    BY <1>1, <1>3, ResultsMade DEF ms
  <2> HIDE DEF ns
  <2>3. Apart => Consistent(repeats, ms \o ts, <<>>, ids)
    BY <1>1, <1>b, <2>2, ResultsAreConsistent
  <2> DEFINE rs == ms \o ts
  <2>4. rs \in Seq(CanonicalMessage)
    BY <1>1, ConcatProperties
  <2>5. ns = rs \/ \E u \in CanonicalMessage : u.role = "user" /\ ns = Append(rs, u)
    BY <2>2
  <2>6. Apart => Consistent(repeats, rs, <<>>, ids)
    BY <2>3
  <2> HIDE DEF rs
  <2>7. Apart => Consistent(repeats, ns, owed', ids)
    BY <2>1, <2>4, <2>5, <2>6, UserIsConsistent
  <2>8. AnsweredIds' = AnsweredIds /\ (Apart' => Apart)
    BY <1>c, <2>1
  <2>9. QED
    BY <2>1, <2>7, <2>8, StrictMoves DEF ns, ids
<1>4. CASE Respond
  <2>1. PICK shape \in Shapes :
            /\ answers' = Append(answers, Answer(shape))
            /\ history' = history \o Echo(Answer(shape))
            /\ owed' = [i \in 1..Len(shape.calls) |-> shape.calls[i].id]
    BY <1>4 DEF Respond
  <2>2. pc = "upstream" /\ UNCHANGED <<dialect, repeats, recalled, out>>
    BY <1>4 DEF Respond, given
  <2>3. PICK answer : answer = Answer(shape)
    OBVIOUS
  <2>4. answer \in CanonicalAnswer
    BY <1>1, <2>3, AnswerTyped
  <2>5. owed' = IdsOf(answer)
    <3>1. answer.calls = [i \in 1..Len(shape.calls) |->
              [id |-> shape.calls[i].id, body |-> <<Fragment(clock + 1, 2 + i)>>, form |-> shape.calls[i].form]]
      BY <2>3 DEF Answer
    <3> DEFINE calls == answer.calls
               asked == shape.calls
               e(i) == [id |-> asked[i].id, body |-> <<Fragment(clock + 1, 2 + i)>>, form |-> asked[i].form]
    <3>2. calls = [i \in 1..Len(asked) |-> e(i)] /\ \A i \in 1..Len(asked) : e(i).id = asked[i].id
      BY <3>1
    <3>3. Len(asked) \in Nat
      <4>1. asked \in Seq([id : CallId, form : {"json", "broken"}])
        BY ConversationAssumption
      <4> HIDE DEF asked
      <4>2. QED
        BY <4>1, LenProperties
    <3>4. owed' = [i \in 1..Len(asked) |-> asked[i].id] /\ IdsOf(answer) = [c \in 1..Len(calls) |-> calls[c].id]
      BY <2>1 DEF IdsOf
    <3> HIDE DEF calls, asked, e
    <3>5. QED
      BY <3>2, <3>3, <3>4
  <2> DEFINE ns == ParseOf(dialect)[history'].messages
             x == IdsOf(answer)
             s == AnsweredIds
             t == AnsweredIds'
  <2>6. s \in Seq(CallId) /\ x \in Seq(CallId) /\ t = s \o x
    BY <2>1, <2>3, <2>4, MoreAnswered DEF ComesBackInv
  <2>7. history # <<>> /\ Last(history).role \in {"user", "tool"}
    BY <1>1, <2>2, EmptySeq DEF ComesBackInv, Answerable, Last
  <2>8. \/ ns = ms /\ (repeats => answer.calls = <<>>)
        \/ \E m \in CanonicalMessage : TurnFor(m, answer) /\ ns = Append(ms, m)
    BY <1>1, <1>a, <2>1, <2>3, <2>4, <2>7, EchoMade DEF ms
  <2>9. answer.calls = <<>> => x = <<>>
    BY EmptySeq DEF IdsOf
  <2>10. \A m : TurnFor(m, answer) =>
             /\ m.role = "assistant"
             /\ IF repeats THEN \A i \in 1..Len(x) : Calls(m, x[i]) ELSE m.calls = <<>>
    <3>1. Len(x) = Len(answer.calls) /\ \A i \in 1..Len(answer.calls) : x[i] = answer.calls[i].id
      <4>1. x = [c \in 1..Len(answer.calls) |-> answer.calls[c].id]
        BY DEF IdsOf
      <4>2. Len(answer.calls) \in Nat
        <5> DEFINE Calling == [id : CallId, body : Seq(Nat), form : {"json", "broken"}]
        <5>1. answer.calls \in Seq(Calling)
          <6> HIDE DEF Calling
          <6>1. QED
            BY <2>4 DEF CanonicalAnswer, Calling
        <5> HIDE DEF Calling
        <5>2. QED
          BY <5>1, LenProperties
      <4> HIDE DEF x
      <4>3. QED
        BY <4>1, <4>2
    <3> HIDE DEF x
    <3>2. QED
      BY <3>1 DEF TurnFor
  <2> HIDE DEF ns, x
  <2>11. recalled' = recalled /\ owed' = x
    BY <2>2, <2>5 DEF x
  <2>12. ASSUME Apart' PROVE Apart /\ Consistent(repeats, ns, owed', ToSet(AnsweredIds'))
    <3>1. recalled = 0 /\ Len(t) = Cardinality(ToSet(t)) /\ NoId \notin ToSet(t)
      BY <2>11, <2>12 DEF Apart
    <3> HIDE DEF s, t
    <3>2. /\ Len(s) = Cardinality(ToSet(s)) /\ ToSet(s) \subseteq ToSet(t)
          /\ \A i \in 1..Len(x) : x[i] \in ToSet(t) /\ x[i] \notin ToSet(s)
          /\ \A i, j \in 1..Len(x) : x[i] = x[j] => i = j
      BY <2>6, <3>1, NewOnes
    <3>3. Apart
      BY <3>1, <3>2 DEF Apart, s
    <3>4. /\ (repeats => x = <<>>) => Consistent(repeats, ms, x, ToSet(t))
          /\ \A m \in CanonicalMessage :
                /\ m.role = "assistant"
                /\ IF repeats THEN \A i \in 1..Len(x) : Calls(m, x[i]) ELSE m.calls = <<>>
                => Consistent(repeats, Append(ms, m), x, ToSet(t))
      BY <1>b, <1>1, <3>2, <3>3, TurnIsConsistent DEF ids, s
    <3>5. Consistent(repeats, ns, x, ToSet(t))
      BY <2>8, <2>9, <2>10, <3>4
    <3>6. QED
      BY <2>11, <3>3, <3>5 DEF t
  <2>13. QED
    BY <2>2, <2>12, StrictMoves DEF ns
<1>5. CASE Parsed \/ Normalize
  BY <1>b, <1>1, <1>5, PlacedIsAccepted, StrictStays DEF Parsed, Normalize, given, client, ms
<1>6. CASE Send \/ Parse \/ Dispatch \/ Fail \/ Over \/ UNCHANGED vars
  BY <1>6, StrictStays DEF Send, Parse, Dispatch, Fail, Over, vars, given, client, StrictInv
<1>7. QED
  BY <1>2, <1>3, <1>4, <1>5, <1>6 DEF Next

\* What strict upstreams get is in order: in a conversation that the bridge
\* carried from its start, with any number of turns and of calls in each, every
\* tool result that goes out is right behind the turn that calls it, or behind
\* results that are (normalize_tool_parents, with the parsers and emitters).
THEOREM StrictUpstreamsDoAccept == Spec => []StrictUpstreamsAccept
<1>1. Init => RequestInv /\ ComesBackInv /\ StrictInv
  BY InitRequestInv, InitComesBack, InitStrict
<1>2. RequestInv /\ ComesBackInv /\ StrictInv /\ [Next]_vars => (RequestInv /\ ComesBackInv /\ StrictInv)'
  BY NextRequestInv, NextComesBack, NextStrict
<1>3. StrictInv => StrictUpstreamsAccept
  BY DEF StrictInv, Apart, Accepted, StrictUpstreamsAccept
<1>4. QED
  BY <1>1, <1>2, <1>3, PTL DEF Spec

-----------------------------------------------------------------------------
\* Everything an answer says is passed on.

\* What pieces say together, and what those of a kind do.
LEMMA JoinedHolds ==
    ASSUME NEW ps \in Seq(HistoryPiece), NEW S
    PROVE  /\ \A f : f \in ToSet(Joined(Among(ps, S))) <=>
                        \E i \in 1..Len(ps) : ps[i] \in S /\ f \in ToSet(ps[i].text)
           /\ NoneRepeats(ps) => OnlyOnce(Joined(Among(ps, S)))
<1> DEFINE a == Among(ps, S)
           n == Len(ps)
           k == Len(a)
           ss == [i \in 1..k |-> a[i].text]
<1>1. a \in Seq(HistoryPiece) /\ k \in Nat /\ n \in Nat
  BY AmongUnfolds, LenProperties
<1>2. Places(ps, a, S)
  BY AmongPlaces
<1>3. \A i \in 1..k : a[i].text \in Seq(Nat)
  <2> HIDE DEF a
  <2>1. \A i \in 1..k : a[i] \in HistoryPiece
    BY <1>1, ElementOfSeq
  <2>2. QED
    BY <2>1 DEF HistoryPiece
<1>4. Joined(a) = FlattenSeq(ss)
  BY DEF Joined
<1> HIDE DEF a
<1>5. ss \in Seq(Seq(Nat)) /\ Len(ss) = k /\ \A i \in 1..k : ss[i] = a[i].text
  BY <1>1, <1>3
<1>6. /\ \A i \in 1..k : \E x \in 1..n : a[i] = ps[x] /\ ps[x] \in S
      /\ \A x \in 1..n : ps[x] \in S => \E i \in 1..k : a[i] = ps[x]
      /\ \A i, j \in 1..k : i < j => \E x, y \in 1..n : x < y /\ a[i] = ps[x] /\ a[j] = ps[y]
  BY <1>2 DEF Places
<1> HIDE DEF ss, k, n
<1>7. /\ \A f : f \in ToSet(FlattenSeq(ss)) <=> \E i \in 1..k : f \in ToSet(ss[i])
      /\ PartsDiffer(ss) => OnlyOnce(FlattenSeq(ss))
  BY <1>5, FlatHolds
<1>8. ASSUME NEW f PROVE f \in ToSet(Joined(a)) <=> \E i \in 1..n : ps[i] \in S /\ f \in ToSet(ps[i].text)
  <2>1. ASSUME NEW i \in 1..k, f \in ToSet(ss[i]) PROVE \E x \in 1..n : ps[x] \in S /\ f \in ToSet(ps[x].text)
    <3>1. PICK x \in 1..n : a[i] = ps[x] /\ ps[x] \in S
      BY <1>6
    <3>2. QED
      BY <1>5, <2>1, <3>1
  <2>2. ASSUME NEW x \in 1..n, ps[x] \in S, f \in ToSet(ps[x].text) PROVE \E i \in 1..k : f \in ToSet(ss[i])
    <3>1. PICK i \in 1..k : a[i] = ps[x]
      BY <1>6, <2>2
    <3>2. QED
      BY <1>5, <2>2, <3>1
  <2>3. QED
    BY <1>4, <1>7, <2>1, <2>2
<1>9. ASSUME NoneRepeats(ps) PROVE OnlyOnce(Joined(a))
  <2>1. /\ \A x \in 1..n : OnlyOnce(ps[x].text)
        /\ \A x, y \in 1..n : x # y => ToSet(ps[x].text) \cap ToSet(ps[y].text) = {}
    BY <1>9 DEF NoneRepeats, n
  <2>2. ASSUME NEW i \in 1..k PROVE OnlyOnce(ss[i])
    <3>1. PICK x \in 1..n : a[i] = ps[x] /\ ps[x] \in S
      BY <1>6
    <3>2. QED
      BY <1>5, <2>1, <3>1
  <2>3. ASSUME NEW i \in 1..k, NEW j \in 1..k, i < j PROVE ToSet(ss[i]) \cap ToSet(ss[j]) = {}
    <3>1. PICK x \in 1..n, y \in 1..n : x < y /\ a[i] = ps[x] /\ a[j] = ps[y]
      BY <1>6, <2>3
    <3>2. x # y
      BY <3>1
    <3>3. QED
      BY <1>5, <2>1, <3>1, <3>2
  <2>4. ASSUME NEW i \in 1..k, NEW j \in 1..k, i # j PROVE ToSet(ss[i]) \cap ToSet(ss[j]) = {}
    <3>1. i < j \/ j < i
      BY <1>1, <2>4
    <3>2. QED
      BY <2>3, <3>1
  <2>5. QED
    BY <1>4, <1>5, <1>7, <2>2, <2>4 DEF PartsDiffer
<1>10. QED
  BY <1>8, <1>9 DEF a, n

-----------------------------------------------------------------------------
\* What messages say to the upstream.

Bodies(calls) == FlattenSeq([c \in 1..Len(calls) |-> calls[c].body])

Hears(ms, role, f) == \E k \in 1..Len(ms) : ms[k].role = role /\ f \in ToSet(Fragments(ms[k]))

Precedes(f, g) == f # g /\ Utterance(f) <= Utterance(g)

\* Every fragment once, in the order of their utterances.
Orderly(ms) ==
    \A j, k \in 1..Len(ms) :
        /\ OnlyOnce(Fragments(ms[k]))
        /\ j < k => \A f \in ToSet(Fragments(ms[j])), g \in ToSet(Fragments(ms[k])) : Precedes(f, g)

\* No calls, one more, and those of a history.
LEMMA BodiesLaws ==
    /\ Bodies(<<>>) = <<>>
    /\ \A calls \in Seq(CanonicalCall) : Bodies(calls) \in Seq(Nat)
    /\ \A calls \in Seq(CanonicalCall), c \in CanonicalCall : Bodies(Append(calls, c)) = Bodies(calls) \o c.body
    /\ \A ps \in Seq(HistoryPiece) : Bodies(ToolCalls(ps)) = Joined(OfKind(ps, "call"))
<1>1. Bodies(<<>>) = <<>>
  <2> DEFINE e == [c \in 1..Len(<<>>) |-> <<>>[c].body]
  <2>1. e = <<>>
    BY EmptySeq
  <2>2. FlattenSeq(<<>>) = <<>>
    BY DEF FlattenSeq
  <2>3. Bodies(<<>>) = FlattenSeq(e)
    BY DEF Bodies
  <2> HIDE DEF e
  <2>4. QED
    BY <2>1, <2>2, <2>3
<1>2. ASSUME NEW calls \in Seq(CanonicalCall)
      PROVE  [c \in 1..Len(calls) |-> calls[c].body] \in Seq(Seq(Nat))
  <2>1. Len(calls) \in Nat /\ \A c \in 1..Len(calls) : calls[c] \in CanonicalCall
    BY LenProperties, ElementOfSeq
  <2>2. QED
    BY <2>1 DEF CanonicalCall
<1>3. ASSUME NEW calls \in Seq(CanonicalCall) PROVE Bodies(calls) \in Seq(Nat)
  BY <1>2, FlattenTyped DEF Bodies
<1>4. ASSUME NEW calls \in Seq(CanonicalCall), NEW c \in CanonicalCall
      PROVE  Bodies(Append(calls, c)) = Bodies(calls) \o c.body
  <2> DEFINE more == Append(calls, c)
             ss == [i \in 1..Len(calls) |-> calls[i].body]
             ts == [i \in 1..Len(more) |-> more[i].body]
             body == c.body
  <2>1. /\ more \in Seq(CanonicalCall) /\ Len(calls) \in Nat /\ Len(more) = Len(calls) + 1
        /\ \A i \in 1..Len(calls) : more[i] = calls[i]
        /\ more[Len(calls) + 1] = c
    BY AppendProperties, LenProperties
  <2>2. body \in Seq(Nat)
    BY DEF CanonicalCall
  <2>3. ss \in Seq(Seq(Nat))
    BY <1>2
  <2>4. Bodies(calls) = FlattenSeq(ss) /\ Bodies(more) = FlattenSeq(ts)
    BY DEF Bodies
  <2>5. /\ Len(ss) = Len(calls) /\ \A i \in 1..Len(calls) : ss[i] = calls[i].body
        /\ DOMAIN ts = 1..(Len(calls) + 1) /\ \A i \in 1..(Len(calls) + 1) : ts[i] = more[i].body
        /\ ts = [i \in 1..(Len(calls) + 1) |-> ts[i]]
    BY <2>1
  <2>6. \A i \in 1..(Len(calls) + 1) : ts[i] = IF i = Len(calls) + 1 THEN body ELSE ss[i]
    <3>1. \A i \in 1..(Len(calls) + 1) : i = Len(calls) + 1 \/ i \in 1..Len(calls)
      BY <2>1
    <3> HIDE DEF ss, ts, more
    <3>2. QED
      BY <2>1, <2>5, <3>1
  <2> HIDE DEF ss, ts, body
  <2>7. ts = Append(ss, body)
    <3> DEFINE b == Append(ss, body)
    <3>1. /\ b \in Seq(Seq(Nat)) /\ Len(b) = Len(calls) + 1 /\ b[Len(calls) + 1] = body
          /\ \A i \in 1..Len(calls) : b[i] = ss[i]
      BY <2>2, <2>3, <2>5, AppendProperties
    <3>2. b = [i \in 1..Len(b) |-> b[i]]
      <4> HIDE DEF b
      <4>1. QED
        BY <3>1, LenProperties
    <3> HIDE DEF b
    <3>3. \A i \in 1..(Len(calls) + 1) : i = Len(calls) + 1 \/ i \in 1..Len(calls)
      BY <2>1
    <3>4. b = [i \in 1..(Len(calls) + 1) |-> b[i]]
      BY <3>1, <3>2
    <3>5. b = ts
      BY <2>5, <2>6, <3>1, <3>3, <3>4
    <3>6. QED
      BY <3>5 DEF b
  <2>8. QED
    BY <2>2, <2>3, <2>4, <2>7, FlattenAppend DEF body
<1>5. ASSUME NEW ps \in Seq(HistoryPiece) PROVE Bodies(ToolCalls(ps)) = Joined(OfKind(ps, "call"))
  <2> DEFINE a == OfKind(ps, "call")
             calls == [i \in 1..Len(a) |-> ToolCall(a[i].id, a[i].text)]
  <2>1. ToolCalls(ps) = calls
    BY DEF ToolCalls
  <2>2. Joined(a) = FlattenSeq([i \in 1..Len(a) |-> a[i].text])
    BY DEF Joined
  <2>a. Len(a) \in Nat
    BY AmongUnfolds, LenProperties DEF OfKind
  <2> HIDE DEF a
  <2>3. Bodies(calls) = Joined(a)
    <3>1. Len(calls) = Len(a) /\ \A i \in 1..Len(a) : calls[i].body = a[i].text
      BY <2>a DEF ToolCall
    <3> HIDE DEF calls
    <3>2. QED
      BY <2>2, <3>1 DEF Bodies
  <2>4. QED
    BY <2>1, <2>3 DEF a
<1>6. QED
  BY <1>1, <1>3, <1>4, <1>5

\* What each message says.
LEMMA Spelled ==
    /\ \A m \in CanonicalMessage : Fragments(m) \in Seq(Nat)
    /\ \A text \in Seq(Nat) : Fragments(User(text)) = text
    /\ \A id : \A text \in Seq(Nat) : Fragments(Tool(id, text)) = text
    /\ \A text \in Seq(Nat) : \A r, calls : Fragments(Assistant(text, r, calls)) = text \o Bodies(calls)
    /\ \A r : \A calls \in Seq(CanonicalCall) : Fragments(Assistant(None, r, calls)) = Bodies(calls)
    /\ \A id : Fragments(Parents!Parent(id)) = <<>>
<1>1. /\ \A text \in Seq(Nat) : text # None
      /\ \A s \in Seq(Nat) : <<>> \o s = s /\ s \o <<>> = s
  BY NumberingAssumption, ConcatEmptySeq
<1>2. \A m : Fragments(m) = (IF m.text = None THEN <<>> ELSE m.text) \o Bodies(m.calls)
  BY DEF Fragments, Bodies
<1>3. \A m \in CanonicalMessage : Fragments(m) \in Seq(Nat)
  <2> SUFFICES ASSUME NEW m \in CanonicalMessage PROVE Fragments(m) \in Seq(Nat)
    OBVIOUS
  <2> DEFINE text == IF m.text = None THEN <<>> ELSE m.text
             calls == m.calls
             b == Bodies(calls)
  <2>1. m.text \in Seq(Nat) \cup {None} /\ calls \in Seq(CanonicalCall)
    BY DEF CanonicalMessage
  <2>2. text \in Seq(Nat)
    BY <2>1, EmptySeq
  <2>3. b \in Seq(Nat)
    BY <2>1, BodiesLaws
  <2>4. Fragments(m) = text \o b
    BY <1>2
  <2> HIDE DEF text, b
  <2>5. QED
    BY <2>2, <2>3, <2>4, ConcatProperties
<1>4. ASSUME NEW text \in Seq(Nat) PROVE Fragments(User(text)) = text
  BY <1>1, <1>2, BodiesLaws DEF User
<1>5. ASSUME NEW id, NEW text \in Seq(Nat) PROVE Fragments(Tool(id, text)) = text
  BY <1>1, <1>2, BodiesLaws DEF Tool
<1>6. ASSUME NEW text \in Seq(Nat), NEW r, NEW calls PROVE Fragments(Assistant(text, r, calls)) = text \o Bodies(calls)
  BY <1>1, <1>2 DEF Assistant
<1>7. ASSUME NEW r, NEW calls \in Seq(CanonicalCall) PROVE Fragments(Assistant(None, r, calls)) = Bodies(calls)
  <2>1. Bodies(calls) \in Seq(Nat)
    BY BodiesLaws
  <2>2. Fragments(Assistant(None, r, calls)) = <<>> \o Bodies(calls)
    BY <1>2 DEF Assistant
  <2> DEFINE b == Bodies(calls)
  <2>3. b \in Seq(Nat) /\ Fragments(Assistant(None, r, calls)) = <<>> \o b
    BY <2>1, <2>2
  <2> HIDE DEF b
  <2>4. QED
    BY <1>1, <2>3 DEF b
<1>8. ASSUME NEW id PROVE Fragments(Parents!Parent(id)) = <<>>
  <2> DEFINE call == ToolCall(id, <<>>)
             calls == <<call>>
             ss == [c \in 1..Len(calls) |-> calls[c].body]
  <2>1. Fragments(Parents!Parent(id)) = <<>> \o Bodies(calls)
    BY <1>2 DEF Parents!Parent, Parents!Assistant, Parents!ToolCall, Assistant, ToolCall
  <2>2. ss = <<<<>>>>
    <3>1. Len(calls) = 1 /\ calls[1].body = <<>>
      BY DEF ToolCall
    <3> HIDE DEF calls
    <3>2. QED
      BY <3>1
  <2>3. FlattenSeq(<<<<>>>>) = <<>>
    <3> DEFINE e == <<>>
               one == <<e>>
    <3>1. Append(<<>>, e) = one /\ <<>> \in Seq(Seq(Nat)) /\ e \in Seq(Nat) /\ FlattenSeq(<<>>) = <<>>
      BY EmptySeq DEF FlattenSeq
    <3> HIDE DEF e
    <3>2. FlattenSeq(one) = <<>> \o e
      BY <3>1, FlattenAppend
    <3>3. QED
      BY <1>1, <3>1, <3>2 DEF e
  <2>4. Bodies(calls) = FlattenSeq(ss)
    BY DEF Bodies
  <2> HIDE DEF ss, calls
  <2>5. Bodies(calls) = <<>>
    BY <2>2, <2>3, <2>4
  <2>6. QED
    BY <1>1, <2>1, <2>5, EmptySeq
<1>9. QED
  BY <1>3, <1>4, <1>5, <1>6, <1>7, <1>8

\* None, one, and more behind others.
LEMMA HeardOne ==
    /\ \A role, f : ~Hears(<<>>, role, f)
    /\ Orderly(<<>>)
    /\ \A m, role, f : Hears(<<m>>, role, f) <=> m.role = role /\ f \in ToSet(Fragments(m))
    /\ \A m : OnlyOnce(Fragments(m)) => Orderly(<<m>>)
<1>1. Len(<<>>) = 0 /\ 1..0 = {}
  BY EmptySeq
<1>2. \A m : Len(<<m>>) = 1 /\ <<m>>[1] = m
  OBVIOUS
<1>3. 1..1 = {1} /\ ~(1 < 1)
  OBVIOUS
<1>4. ASSUME NEW m, NEW role, NEW f PROVE Hears(<<m>>, role, f) <=> m.role = role /\ f \in ToSet(Fragments(m))
  <2> DEFINE one == <<m>>
  <2>1. Len(one) = 1 /\ one[1] = m
    BY <1>2
  <2> HIDE DEF one
  <2>2. QED
    BY <1>3, <2>1 DEF one, Hears
<1>5. ASSUME NEW m, OnlyOnce(Fragments(m)) PROVE Orderly(<<m>>)
  <2> DEFINE one == <<m>>
  <2>1. Len(one) = 1 /\ one[1] = m
    BY <1>2
  <2> HIDE DEF one
  <2>2. QED
    BY <1>3, <1>5, <2>1 DEF one, Orderly
<1>6. QED
  BY <1>1, <1>4, <1>5 DEF Hears, Orderly

\* More behind others, or before.
LEMMA HeardMore ==
    ASSUME NEW C, NEW ms \in Seq(C), NEW ns \in Seq(C)
    PROVE  /\ \A role, f : Hears(ms \o ns, role, f) <=> Hears(ms, role, f) \/ Hears(ns, role, f)
           /\ /\ Orderly(ms) /\ Orderly(ns)
              /\ \A q, r, f, g : Hears(ms, q, f) /\ Hears(ns, r, g) => Precedes(f, g)
              => Orderly(ms \o ns)
<1> DEFINE u == ms \o ns
           n == Len(ms)
           k == Len(ns)
<1>1. /\ n \in Nat /\ k \in Nat /\ Len(u) = n + k
      /\ \A i \in 1..(n + k) : u[i] = IF i <= n THEN ms[i] ELSE ns[i - n]
  BY LenProperties, ConcatProperties
<1> HIDE DEF u
<1>2. \A i \in 1..n : i \in 1..(n + k) /\ u[i] = ms[i]
  BY <1>1
<1>3. ASSUME NEW i \in 1..k PROVE n + i \in 1..(n + k) /\ u[n + i] = ns[i]
  BY <1>1
<1>4. ASSUME NEW i \in 1..(n + k)
      PROVE  (i \in 1..n /\ u[i] = ms[i]) \/ (i - n \in 1..k /\ u[i] = ns[i - n])
  BY <1>1
<1>5. ASSUME NEW role, NEW f PROVE Hears(u, role, f) <=> Hears(ms, role, f) \/ Hears(ns, role, f)
  <2>1. ASSUME Hears(u, role, f) PROVE Hears(ms, role, f) \/ Hears(ns, role, f)
    <3>1. PICK i \in 1..(n + k) : u[i].role = role /\ f \in ToSet(Fragments(u[i]))
      BY <1>1, <2>1 DEF Hears
    <3>2. CASE i \in 1..n /\ u[i] = ms[i]
      BY <3>1, <3>2 DEF Hears
    <3>3. CASE i - n \in 1..k /\ u[i] = ns[i - n]
      BY <3>1, <3>3 DEF Hears
    <3>4. QED
      BY <1>4, <3>2, <3>3
  <2>2. ASSUME Hears(ms, role, f) PROVE Hears(u, role, f)
    <3>1. PICK i \in 1..n : ms[i].role = role /\ f \in ToSet(Fragments(ms[i]))
      BY <2>2 DEF Hears
    <3>2. QED
      BY <1>1, <1>2, <3>1 DEF Hears
  <2>3. ASSUME Hears(ns, role, f) PROVE Hears(u, role, f)
    <3>1. PICK i \in 1..k : ns[i].role = role /\ f \in ToSet(Fragments(ns[i]))
      BY <2>3 DEF Hears
    <3>2. QED
      BY <1>1, <1>3, <3>1 DEF Hears
  <2>4. QED
    BY <2>1, <2>2, <2>3
<1>6. ASSUME Orderly(ms), Orderly(ns),
             \A q, r, f, g : Hears(ms, q, f) /\ Hears(ns, r, g) => Precedes(f, g)
      PROVE  Orderly(u)
  <2>1. ASSUME NEW i \in 1..(n + k) PROVE OnlyOnce(Fragments(u[i]))
    BY <1>4, <1>6 DEF Orderly
  <2>2. ASSUME NEW i \in 1..(n + k), NEW j \in 1..(n + k), i < j,
               NEW f \in ToSet(Fragments(u[i])), NEW g \in ToSet(Fragments(u[j]))
        PROVE  Precedes(f, g)
    <3>1. CASE j \in 1..n /\ u[j] = ms[j]
      BY <1>1, <1>2, <1>6, <2>2, <3>1 DEF Orderly
    <3>2. CASE i - n \in 1..k /\ u[i] = ns[i - n]
      <4>1. j - n \in 1..k /\ u[j] = ns[j - n] /\ i - n < j - n
        BY <1>1, <2>2, <3>2
      <4>2. QED
        BY <1>6, <3>2, <4>1 DEF Orderly
    <3>3. CASE i \in 1..n /\ u[i] = ms[i] /\ j - n \in 1..k /\ u[j] = ns[j - n]
      BY <1>6, <3>3 DEF Hears
    <3>4. QED
      BY <1>4, <3>1, <3>2, <3>3
  <2>3. QED
    BY <1>1, <2>1, <2>2 DEF Orderly
<1>7. QED
  BY <1>5, <1>6 DEF u

-----------------------------------------------------------------------------
\* What a message of a history says.

Reads(d, m, p) ==
    /\ p.kind \notin {"reasoning", "other"} /\ m.role # "system"
    /\ d = "chat" /\ p.kind # "call" => p.form = "string"

Tells(d, m, role, f) ==
    \E i \in 1..Len(m.pieces) :
        /\ Reads(d, m, m.pieces[i]) /\ f \in ToSet(m.pieces[i].text)
        /\ role = IF m.pieces[i].kind = "output" THEN "tool" ELSE m.role

\* Results, in their order, are older than what is said beside them.
ResultsFirst(ps) ==
    \A i, j \in 1..Len(ps) :
        ps[i].kind = "output" /\ (ps[j].kind = "text" \/ (ps[j].kind = "output" /\ i < j)) =>
            \A f \in ToSet(ps[i].text), g \in ToSet(ps[j].text) : Utterance(f) <= Utterance(g)

Tellable(d) == {m \in Utterable(d) : InPlace(d, m) /\ NoneRepeats(m.pieces) /\ ResultsFirst(m.pieces)}

\* The pieces of a kind.
LEMMA KindHolds ==
    ASSUME NEW ps \in Seq(HistoryPiece), NEW kind
    PROVE  /\ Joined(OfKind(ps, kind)) \in Seq(Nat)
           /\ \A f : f \in ToSet(Joined(OfKind(ps, kind))) <=>
                        \E i \in 1..Len(ps) : ps[i].kind = kind /\ f \in ToSet(ps[i].text)
           /\ NoneRepeats(ps) => OnlyOnce(Joined(OfKind(ps, kind)))
<1> DEFINE S == {p \in ToSet(ps) : p.kind = kind}
<1>1. OfKind(ps, kind) = Among(ps, S)
  BY DEF OfKind
<1>2. \A i \in 1..Len(ps) : ps[i] \in S <=> ps[i].kind = kind
  BY DEF ToSet
<1>3. Among(ps, S) \in Seq(HistoryPiece)
  BY AmongUnfolds
<1> HIDE DEF S
<1>4. /\ \A f : f \in ToSet(Joined(Among(ps, S))) <=>
                   \E i \in 1..Len(ps) : ps[i] \in S /\ f \in ToSet(ps[i].text)
      /\ NoneRepeats(ps) => OnlyOnce(Joined(Among(ps, S)))
  BY JoinedHolds
<1>5. QED
  BY <1>1, <1>2, <1>3, <1>4, JoinedTyped

\* A turn: some of the pieces as its text, and its calls.
LEMMA TurnHolds ==
    ASSUME NEW ps \in Seq(HistoryPiece), NoneRepeats(ps), NEW S,
           \A i \in 1..Len(ps) : ps[i] \in S => ps[i].kind # "call"
    PROVE  /\ Joined(Among(ps, S)) \in Seq(Nat)
           /\ OnlyOnce(Joined(Among(ps, S)) \o Joined(OfKind(ps, "call")))
           /\ \A f : f \in ToSet(Joined(Among(ps, S)) \o Joined(OfKind(ps, "call"))) <=>
                        \E i \in 1..Len(ps) : (ps[i] \in S \/ ps[i].kind = "call") /\ f \in ToSet(ps[i].text)
<1> DEFINE u == Joined(Among(ps, S))
           v == Joined(OfKind(ps, "call"))
<1>1. u \in Seq(Nat)
  BY JoinedTyped, AmongUnfolds
<1>2. /\ \A f : f \in ToSet(u) <=> \E i \in 1..Len(ps) : ps[i] \in S /\ f \in ToSet(ps[i].text)
      /\ OnlyOnce(u)
  BY JoinedHolds
<1>3. /\ v \in Seq(Nat) /\ OnlyOnce(v)
      /\ \A f : f \in ToSet(v) <=> \E i \in 1..Len(ps) : ps[i].kind = "call" /\ f \in ToSet(ps[i].text)
  BY KindHolds
<1> HIDE DEF u, v
<1>4. /\ \A f : f \in ToSet(u \o v) <=> f \in ToSet(u) \/ f \in ToSet(v)
      /\ (\A f : ~(f \in ToSet(u) /\ f \in ToSet(v))) => OnlyOnce(u \o v)
  BY <1>1, <1>2, <1>3, BothHold
<1>5. ASSUME NEW f, f \in ToSet(u), f \in ToSet(v) PROVE FALSE
  <2>1. PICK i \in 1..Len(ps) : ps[i] \in S /\ f \in ToSet(ps[i].text)
    BY <1>2, <1>5
  <2>2. PICK j \in 1..Len(ps) : ps[j].kind = "call" /\ f \in ToSet(ps[j].text)
    BY <1>3, <1>5
  <2>3. i # j
    BY <2>1, <2>2
  <2>4. QED
    BY <2>1, <2>2, <2>3 DEF NoneRepeats
<1>6. QED
  BY <1>1, <1>2, <1>3, <1>4, <1>5 DEF u, v

\* What makes up the one message that is made of a message.
LEMMA OneTells ==
    ASSUME NEW d, NEW m, NEW t, OnlyOnce(Fragments(t)),
           \A f : f \in ToSet(Fragments(t)) <=>
               \E i \in 1..Len(m.pieces) : Reads(d, m, m.pieces[i]) /\ f \in ToSet(m.pieces[i].text),
           \A i \in 1..Len(m.pieces) : Reads(d, m, m.pieces[i]) =>
               t.role = IF m.pieces[i].kind = "output" THEN "tool" ELSE m.role
    PROVE  Orderly(<<t>>) /\ \A role, f : Hears(<<t>>, role, f) <=> Tells(d, m, role, f)
<1>1. ASSUME NEW role, NEW f
      PROVE  t.role = role /\ f \in ToSet(Fragments(t)) <=> Tells(d, m, role, f)
  <2>1. ASSUME t.role = role, f \in ToSet(Fragments(t)) PROVE Tells(d, m, role, f)
    <3>1. PICK i \in 1..Len(m.pieces) : Reads(d, m, m.pieces[i]) /\ f \in ToSet(m.pieces[i].text)
      BY <2>1
    <3>2. QED
      BY <2>1, <3>1 DEF Tells
  <2>2. ASSUME Tells(d, m, role, f) PROVE t.role = role /\ f \in ToSet(Fragments(t))
    <3>1. PICK i \in 1..Len(m.pieces) :
              /\ Reads(d, m, m.pieces[i]) /\ f \in ToSet(m.pieces[i].text)
              /\ role = IF m.pieces[i].kind = "output" THEN "tool" ELSE m.role
      BY <2>2 DEF Tells
    <3>2. QED
      BY <3>1
  <2>3. QED
    BY <2>1, <2>2
<1>2. QED
  BY <1>1, HeardOne

\* A Chat message.
LEMMA ChatTells ==
    ASSUME NEW m \in Tellable("chat")
    PROVE  /\ ChatAdds(m) \in Seq(CanonicalMessage) /\ Orderly(ChatAdds(m))
           /\ \A role, f : Hears(ChatAdds(m), role, f) <=> Tells("chat", m, role, f)
<1> DEFINE ps == m.pieces
           S == {p \in Chat!ToSet(ps) : p.kind \in {"text", "output"} /\ p.form = "string"}
           text == Joined(Among(ps, S))
           calls == Joined(OfKind(ps, "call"))
<1>1. /\ m \in Utterable("chat") /\ m.role \in {"user", "assistant", "tool", "system"} /\ ps \in Seq(HistoryPiece)
      /\ NoneRepeats(ps) /\ InPlace("chat", m)
  BY Uttered DEF Tellable
<1>2. Chat!Content(m) = text
  BY ChatReads DEF Chat!Content
<1>3. \A i \in 1..Len(ps) : ps[i] \in S <=> ps[i].kind \in {"text", "output"} /\ ps[i].form = "string"
  BY DEF Chat!ToSet
<1>4. \A i \in 1..Len(ps) : /\ ps[i].kind = "call" => m.role = "assistant"
                            /\ ps[i].kind = "output" => m.role = "tool"
  BY <1>1 DEF InPlace
<1>5. \A i \in 1..Len(ps) : ps[i].kind \in PieceKind
  <2> HIDE DEF ps
  <2>1. \A i \in 1..Len(ps) : ps[i] \in HistoryPiece
    BY <1>1, ElementOfSeq
  <2>2. QED
    BY <2>1 DEF HistoryPiece
<1>6. ChatAdds(m) \in Seq(CanonicalMessage)
  BY <1>1, ChatTyped
<1> HIDE DEF S
<1>7. /\ text \in Seq(Nat) /\ OnlyOnce(text)
      /\ \A f : f \in ToSet(text) <=> \E i \in 1..Len(ps) : ps[i] \in S /\ f \in ToSet(ps[i].text)
  BY <1>1, AmongUnfolds, JoinedTyped, JoinedHolds
<1>8. /\ OnlyOnce(text \o calls)
      /\ \A f : f \in ToSet(text \o calls) <=>
                   \E i \in 1..Len(ps) : (ps[i] \in S \/ ps[i].kind = "call") /\ f \in ToSet(ps[i].text)
  BY <1>1, <1>3, TurnHolds
<1>9. calls \in Seq(Nat) /\ Bodies(ToolCalls(ps)) = calls /\ ToolCalls(ps) \in Seq(CanonicalCall)
  BY <1>1, KindHolds, BodiesLaws, CallsTyped, Uttered
<1>10. \A i \in 1..Len(ps) : m.role # "system" =>
           (Reads("chat", m, ps[i]) <=> ps[i] \in S \/ ps[i].kind = "call")
  BY <1>3, <1>5 DEF Reads, PieceKind
<1> HIDE DEF text, calls
<1>11. CASE m.role = "user"
  <2> DEFINE t == User(text)
  <2>1. ChatAdds(m) = <<t>> /\ t.role = "user"
    BY <1>2, <1>11 DEF ChatAdds, User
  <2>2. Fragments(t) = text
    BY <1>7, Spelled
  <2>3. \A i \in 1..Len(ps) : ps[i].kind # "call" /\ ps[i].kind # "output"
    BY <1>4, <1>11
  <2>4. \A i \in 1..Len(ps) : Reads("chat", m, ps[i]) <=> ps[i] \in S
    BY <1>10, <1>11, <2>3
  <2> HIDE DEF t
  <2>5. Orderly(<<t>>) /\ \A role, f : Hears(<<t>>, role, f) <=> Tells("chat", m, role, f)
    BY <1>7, <1>11, <2>1, <2>2, <2>3, <2>4, OneTells
  <2>6. QED
    BY <1>6, <2>1, <2>5
<1>12. CASE m.role = "tool"
  <2> DEFINE t == Tool(ps[1].id, text)
  <2>1. ChatAdds(m) = <<t>> /\ t.role = "tool"
    BY <1>2, <1>12 DEF ChatAdds, Tool
  <2>2. Fragments(t) = text
    BY <1>7, Spelled
  <2>3. \A i \in 1..Len(ps) : ps[i].kind = "output"
    BY <1>1, <1>12 DEF Utterable
  <2>4. \A i \in 1..Len(ps) : Reads("chat", m, ps[i]) <=> ps[i] \in S
    BY <1>10, <1>12, <2>3
  <2> HIDE DEF t
  <2>5. Orderly(<<t>>) /\ \A role, f : Hears(<<t>>, role, f) <=> Tells("chat", m, role, f)
    BY <1>7, <2>1, <2>2, <2>3, <2>4, OneTells
  <2>6. QED
    BY <1>6, <2>1, <2>5
<1>13. CASE m.role = "assistant"
  <2> DEFINE r == Chat!ReasoningContent(m)
             t == Assistant(IF text = <<>> THEN None ELSE text, r, ToolCalls(ps))
  <2>1. ChatAdds(m) = <<t>> /\ t.role = "assistant"
    BY <1>2, <1>13, ChatReads DEF ChatAdds, Assistant
  <2>2. Fragments(t) = text \o calls
    <3>1. CASE text = <<>>
      BY <1>9, <3>1, Spelled, ConcatEmptySeq
    <3>2. CASE text # <<>>
      <4>1. t = Assistant(text, r, ToolCalls(ps))
        BY <3>2
      <4>2. Fragments(Assistant(text, r, ToolCalls(ps))) = text \o Bodies(ToolCalls(ps))
        BY <1>7, Spelled
      <4> HIDE DEF t
      <4>3. QED
        BY <1>9, <4>1, <4>2
    <3>3. QED
      BY <3>1, <3>2
  <2>3. \A i \in 1..Len(ps) : ps[i].kind # "output"
    BY <1>4, <1>13
  <2>4. \A i \in 1..Len(ps) : Reads("chat", m, ps[i]) <=> ps[i] \in S \/ ps[i].kind = "call"
    BY <1>10, <1>13
  <2> HIDE DEF t
  <2>5. Orderly(<<t>>) /\ \A role, f : Hears(<<t>>, role, f) <=> Tells("chat", m, role, f)
    BY <1>8, <1>13, <2>1, <2>2, <2>3, <2>4, OneTells
  <2>6. QED
    BY <1>6, <2>1, <2>5
<1>14. CASE m.role = "system"
  BY <1>6, <1>14, HeardOne DEF ChatAdds, Tells, Reads
<1>15. QED
  BY <1>1, <1>11, <1>12, <1>13, <1>14

\* The results of an Anthropic message.
LEMMA ResultsTell ==
    ASSUME NEW m \in Tellable("anthropic")
    PROVE  /\ Orderly(Anthropic!ToolResults(m.pieces))
           /\ \A role, f : Hears(Anthropic!ToolResults(m.pieces), role, f) <=>
                 /\ role = "tool"
                 /\ \E i \in 1..Len(m.pieces) : m.pieces[i].kind = "output" /\ f \in ToSet(m.pieces[i].text)
<1> DEFINE ps == m.pieces
           rs == OfKind(ps, "output")
           S == {p \in ToSet(ps) : p.kind = "output"}
           a == Anthropic!ToolResults(ps)
<1>1. ps \in Seq(HistoryPiece) /\ NoneRepeats(ps) /\ ResultsFirst(ps) /\ Named(ps)
  BY Uttered DEF Tellable
<1>2. rs = Among(ps, S)
  BY DEF OfKind
<1>3. \A i \in 1..Len(ps) : ps[i] \in S <=> ps[i].kind = "output"
  BY DEF ToSet
<1>4. a = [i \in 1..Len(rs) |-> Tool(rs[i].id, rs[i].text)]
  BY AnthropicReads DEF Anthropic!ToolResults
<1> HIDE DEF S, ps, a
<1>5. rs \in Seq(HistoryPiece) /\ Len(rs) \in Nat
  <2>1. Among(ps, S) \in Seq(HistoryPiece)
    BY <1>1, AmongUnfolds
  <2>2. rs \in Seq(HistoryPiece)
    BY <1>2, <2>1
  <2> HIDE DEF rs
  <2>3. QED
    BY <2>2, LenProperties
<1>6. Places(ps, rs, S)
  BY <1>1, <1>2, AmongPlaces
<1> HIDE DEF rs
<1>7. /\ \A i \in 1..Len(rs) : \E x \in 1..Len(ps) : rs[i] = ps[x] /\ ps[x].kind = "output"
      /\ \A x \in 1..Len(ps) : ps[x].kind = "output" => \E i \in 1..Len(rs) : rs[i] = ps[x]
      /\ \A i, j \in 1..Len(rs) : i < j => \E x, y \in 1..Len(ps) : x < y /\ rs[i] = ps[x] /\ rs[j] = ps[y]
  BY <1>3, <1>6 DEF Places
<1>8. \A i \in 1..Len(rs) : rs[i].text \in Seq(Nat) /\ rs[i].kind \in PieceKind
  <2>1. \A i \in 1..Len(rs) : rs[i] \in HistoryPiece
    BY <1>5, ElementOfSeq
  <2>2. QED
    BY <2>1 DEF HistoryPiece
<1>9. Len(a) = Len(rs) /\ \A i \in 1..Len(rs) : a[i] = Tool(rs[i].id, rs[i].text)
  BY <1>4, <1>5
<1>10. \A i \in 1..Len(rs) : a[i].role = "tool" /\ Fragments(a[i]) = rs[i].text
  <2>1. \A i \in 1..Len(rs) : Tool(rs[i].id, rs[i].text).role = "tool"
    BY DEF Tool
  <2>2. QED
    BY <1>8, <1>9, <2>1, Spelled
<1>11. Orderly(a)
  <2>1. ASSUME NEW i \in 1..Len(rs) PROVE OnlyOnce(Fragments(a[i]))
    <3>1. PICK x \in 1..Len(ps) : rs[i] = ps[x]
      BY <1>7
    <3>2. QED
      BY <1>1, <1>10, <3>1 DEF NoneRepeats
  <2>2. ASSUME NEW i \in 1..Len(rs), NEW j \in 1..Len(rs), i < j,
               NEW f \in ToSet(Fragments(a[i])), NEW g \in ToSet(Fragments(a[j]))
        PROVE  Precedes(f, g)
    <3>1. PICK x \in 1..Len(ps), y \in 1..Len(ps) : x < y /\ rs[i] = ps[x] /\ rs[j] = ps[y]
      BY <1>7, <2>2
    <3>2. f \in ToSet(ps[x].text) /\ g \in ToSet(ps[y].text)
      BY <1>10, <3>1
    <3>3. x # y
      BY <3>1
    <3>4. f # g
      BY <1>1, <3>2, <3>3 DEF NoneRepeats
    <3>5. ps[x].kind = "output" /\ ps[y].kind = "output"
      <4>1. \A k \in 1..Len(rs) : rs[k].kind = "output"
        <5> SUFFICES ASSUME NEW k \in 1..Len(rs) PROVE rs[k].kind = "output"
          OBVIOUS
        <5>1. PICK z \in 1..Len(ps) : rs[k] = ps[z] /\ ps[z].kind = "output"
          BY <1>7
        <5>2. QED
          BY <5>1
      <4>2. QED
        BY <3>1, <4>1
    <3>6. QED
      BY <1>1, <3>1, <3>2, <3>4, <3>5 DEF Precedes, ResultsFirst
  <2>3. QED
    BY <1>9, <2>1, <2>2 DEF Orderly
<1>12. ASSUME NEW role, NEW f
       PROVE  Hears(a, role, f) <=>
                 role = "tool" /\ \E i \in 1..Len(ps) : ps[i].kind = "output" /\ f \in ToSet(ps[i].text)
  <2>1. ASSUME Hears(a, role, f)
        PROVE  role = "tool" /\ \E i \in 1..Len(ps) : ps[i].kind = "output" /\ f \in ToSet(ps[i].text)
    <3>1. PICK i \in 1..Len(rs) : a[i].role = role /\ f \in ToSet(Fragments(a[i]))
      BY <1>9, <2>1 DEF Hears
    <3>2. PICK x \in 1..Len(ps) : rs[i] = ps[x] /\ ps[x].kind = "output"
      BY <1>7
    <3>3. QED
      BY <1>10, <3>1, <3>2
  <2>2. ASSUME role = "tool", NEW x \in 1..Len(ps), ps[x].kind = "output", f \in ToSet(ps[x].text)
        PROVE  Hears(a, role, f)
    <3>1. PICK i \in 1..Len(rs) : rs[i] = ps[x]
      BY <1>7, <2>2
    <3>2. QED
      BY <1>9, <1>10, <2>2, <3>1 DEF Hears
  <2>3. QED
    BY <2>1, <2>2
<1>13. QED
  BY <1>11, <1>12 DEF a, ps

\* An Anthropic message.
LEMMA AnthropicTells ==
    ASSUME NEW m \in Tellable("anthropic")
    PROVE  /\ AnthropicAdds(m) \in Seq(CanonicalMessage) /\ Orderly(AnthropicAdds(m))
           /\ \A role, f : Hears(AnthropicAdds(m), role, f) <=> Tells("anthropic", m, role, f)
<1> DEFINE ps == m.pieces
           text == TextOf(ps)
           calls == Joined(OfKind(ps, "call"))
<1>1. /\ m \in Utterable("anthropic") /\ m.role \in {"user", "assistant", "system"} /\ ps \in Seq(HistoryPiece)
      /\ NoneRepeats(ps) /\ InPlace("anthropic", m) /\ ResultsFirst(ps)
  BY Uttered DEF Tellable
<1>2. \A i \in 1..Len(ps) : /\ ps[i].kind = "call" => m.role = "assistant"
                            /\ ps[i].kind = "output" => m.role = "user"
  BY <1>1 DEF InPlace
<1>3. \A i \in 1..Len(ps) : ps[i].kind \in PieceKind
  <2> HIDE DEF ps
  <2>1. \A i \in 1..Len(ps) : ps[i] \in HistoryPiece
    BY <1>1, ElementOfSeq
  <2>2. QED
    BY <2>1 DEF HistoryPiece
<1>4. AnthropicAdds(m) \in Seq(CanonicalMessage)
  BY <1>1, AnthropicTyped
<1>5. /\ text \in Seq(Nat) /\ OnlyOnce(text)
      /\ \A f : f \in ToSet(text) <=> \E i \in 1..Len(ps) : ps[i].kind = "text" /\ f \in ToSet(ps[i].text)
  BY <1>1, KindHolds DEF TextOf
<1>6. calls \in Seq(Nat) /\ Bodies(ToolCalls(ps)) = calls /\ ToolCalls(ps) \in Seq(CanonicalCall)
  BY <1>1, KindHolds, BodiesLaws, CallsTyped, Uttered
<1>7. /\ OnlyOnce(text \o calls)
      /\ \A f : f \in ToSet(text \o calls) <=>
                   \E i \in 1..Len(ps) : ps[i].kind \in {"text", "call"} /\ f \in ToSet(ps[i].text)
  <2> DEFINE S == {p \in ToSet(ps) : p.kind = "text"}
  <2>1. text = Joined(Among(ps, S))
    BY DEF TextOf, OfKind
  <2>2. \A i \in 1..Len(ps) : ps[i] \in S <=> ps[i].kind = "text"
    BY DEF ToSet
  <2> HIDE DEF S
  <2>3. QED
    BY <1>1, <2>1, <2>2, TurnHolds
<1>8. \A i \in 1..Len(ps) : m.role # "system" =>
          (Reads("anthropic", m, ps[i]) <=> ps[i].kind \in {"text", "call", "output"})
  BY <1>3 DEF Reads, PieceKind
<1>9. CASE m.role = "user"
  <2> DEFINE a == Anthropic!ToolResults(ps)
             b == Anthropic!UserText(ps)
             t == User(text)
  <2>1. AnthropicAdds(m) = a \o b
    BY <1>9 DEF AnthropicAdds
  <2>2. a \in Seq(CanonicalMessage) /\ b \in Seq(CanonicalMessage)
    BY <1>1, AnthropicParts
  <2>3. Fragments(t) = text /\ t.role = "user"
    BY <1>5, Spelled DEF User
  <2>4. b = <<t>> \/ (b = <<>> /\ text = <<>>)
    BY AnthropicReads DEF Anthropic!UserText
  <2>5. /\ Orderly(a)
        /\ \A role, f : Hears(a, role, f) <=>
              role = "tool" /\ \E i \in 1..Len(ps) : ps[i].kind = "output" /\ f \in ToSet(ps[i].text)
    BY ResultsTell
  <2> HIDE DEF a, b, t, text, ps
  <2>6. /\ Orderly(b)
        /\ \A role, f : Hears(b, role, f) <=> role = "user" /\ f \in ToSet(text)
    BY <1>5, <2>3, <2>4, HeardOne, EmptySeq DEF ToSet
  <2>7. ASSUME NEW q, NEW r, NEW f, NEW g, Hears(a, q, f), Hears(b, r, g) PROVE Precedes(f, g)
    <3>1. PICK i \in 1..Len(ps) : ps[i].kind = "output" /\ f \in ToSet(ps[i].text)
      BY <2>5, <2>7
    <3>2. PICK j \in 1..Len(ps) : ps[j].kind = "text" /\ g \in ToSet(ps[j].text)
      BY <1>5, <2>6, <2>7
    <3>3. f # g
      BY <1>1, <3>1, <3>2 DEF NoneRepeats
    <3>4. QED
      BY <1>1, <3>1, <3>2, <3>3 DEF Precedes, ResultsFirst
  <2>8. /\ Orderly(a \o b)
        /\ \A role, f : Hears(a \o b, role, f) <=> Hears(a, role, f) \/ Hears(b, role, f)
    BY <2>2, <2>5, <2>6, <2>7, HeardMore
  <2>9. ASSUME NEW role, NEW f
        PROVE  Hears(a, role, f) \/ Hears(b, role, f) <=> Tells("anthropic", m, role, f)
    <3>1. ASSUME Hears(a, role, f) PROVE Tells("anthropic", m, role, f)
      <4>1. PICK i \in 1..Len(ps) : ps[i].kind = "output" /\ f \in ToSet(ps[i].text)
        BY <2>5, <3>1
      <4>2. QED
        BY <1>8, <1>9, <2>5, <3>1, <4>1 DEF Tells, ps
    <3>2. ASSUME Hears(b, role, f) PROVE Tells("anthropic", m, role, f)
      <4>1. PICK i \in 1..Len(ps) : ps[i].kind = "text" /\ f \in ToSet(ps[i].text)
        BY <1>5, <2>6, <3>2
      <4>2. QED
        BY <1>8, <1>9, <2>6, <3>2, <4>1 DEF Tells, ps
    <3>3. ASSUME Tells("anthropic", m, role, f) PROVE Hears(a, role, f) \/ Hears(b, role, f)
      <4>1. PICK i \in 1..Len(ps) :
                /\ Reads("anthropic", m, ps[i]) /\ f \in ToSet(ps[i].text)
                /\ role = IF ps[i].kind = "output" THEN "tool" ELSE m.role
        BY <3>3 DEF Tells, ps
      <4>2. ps[i].kind \in {"text", "output"}
        BY <1>2, <1>8, <1>9, <4>1
      <4>3. QED
        BY <1>5, <1>9, <2>5, <2>6, <4>1, <4>2
    <3>4. QED
      BY <3>1, <3>2, <3>3
  <2>10. QED
    BY <1>4, <2>1, <2>8, <2>9
<1>10. CASE m.role = "assistant"
  <2> DEFINE r == Anthropic!Thinking(ps)
             said == Anthropic!AssistantText(ps)
             t == Assistant(said, r, ToolCalls(ps))
  <2>1. AnthropicAdds(m) = <<t>> /\ t.role = "assistant"
    BY <1>10, AnthropicReads DEF AnthropicAdds, Assistant
  <2>2. said = text \/ (said = None /\ text = <<>>)
    <3>1. \/ said = text
          \/ OfKind(ps, "text") = <<>> /\ said \in {<<>>, None}
      BY AnthropicReads DEF Anthropic!AssistantText
    <3>2. OfKind(ps, "text") = <<>> => text = <<>>
      <4>1. ASSUME OfKind(ps, "text") = <<>> PROVE text = Joined(<<>>)
        BY <4>1 DEF TextOf
      <4>2. Joined(<<>>) = <<>>
        <5> DEFINE e == [i \in 1..Len(<<>>) |-> <<>>[i].text]
        <5>1. e = <<>>
          BY EmptySeq
        <5>2. Joined(<<>>) = FlattenSeq(e) /\ FlattenSeq(<<>>) = <<>>
          BY DEF Joined, FlattenSeq
        <5> HIDE DEF e
        <5>3. QED
          BY <5>1, <5>2
      <4>3. QED
        BY <4>1, <4>2
    <3> HIDE DEF said, text
    <3>3. QED
      BY <3>1, <3>2
  <2> HIDE DEF said, text, calls, r
  <2>3. Fragments(t) = text \o calls
    <3>1. CASE said = text
      BY <1>5, <1>6, <3>1, Spelled
    <3>2. CASE said = None /\ text = <<>>
      BY <1>6, <3>2, Spelled, ConcatEmptySeq
    <3>3. QED
      BY <2>2, <3>1, <3>2
  <2>4. \A i \in 1..Len(ps) : ps[i].kind # "output"
    BY <1>2, <1>10
  <2>5. \A i \in 1..Len(ps) : Reads("anthropic", m, ps[i]) <=> ps[i].kind \in {"text", "call"}
    BY <1>8, <1>10, <2>4
  <2> HIDE DEF t
  <2>6. Orderly(<<t>>) /\ \A role, f : Hears(<<t>>, role, f) <=> Tells("anthropic", m, role, f)
    BY <1>7, <1>10, <2>1, <2>3, <2>4, <2>5, OneTells
  <2>7. QED
    BY <1>4, <2>1, <2>6
<1>11. CASE m.role = "system"
  BY <1>4, <1>11, HeardOne DEF AnthropicAdds, Tells, Reads
<1>12. QED
  BY <1>1, <1>9, <1>10, <1>11

-----------------------------------------------------------------------------
\* What a history says is what its messages say, one after the other.

\* The message at the end says more.
LEMMA LastSaysMore ==
    ASSUME NEW ms \in Seq(CanonicalMessage), NEW t \in Seq(CanonicalMessage), ms # <<>>, Len(t) = Len(ms),
           \A i \in 1..(Len(ms) - 1) : t[i] = ms[i], t[Len(ms)].role = ms[Len(ms)].role,
           NEW x \in Seq(Nat), Fragments(t[Len(ms)]) = Fragments(ms[Len(ms)]) \o x,
           Orderly(ms), OnlyOnce(x), \A q, f : Hears(ms, q, f) => \A g \in ToSet(x) : Precedes(f, g)
    PROVE  /\ Orderly(t)
           /\ \A role, f : Hears(t, role, f) <=> Hears(ms, role, f) \/ (role = ms[Len(ms)].role /\ f \in ToSet(x))
<1> DEFINE n == Len(ms)
           u == Fragments(ms[n])
           v == Fragments(t[n])
<1>1. n \in Nat /\ n # 0 /\ ms[n] \in CanonicalMessage
  BY LenProperties, ElementOfSeq, EmptySeq
<1>2. u \in Seq(Nat) /\ v = u \o x
  BY <1>1, Spelled
<1>3. n \in 1..n /\ \A i \in 1..n : i = n \/ (i \in 1..(n - 1) /\ t[i] = ms[i] /\ i < n)
  BY <1>1
<1>4. \A i, j \in 1..n : i < j => i \in 1..(n - 1) /\ t[i] = ms[i] /\ i # n
  BY <1>1, <1>3
<1>5. \A f : f \in ToSet(u) => Hears(ms, ms[n].role, f)
  BY <1>3 DEF Hears
<1>6. OnlyOnce(u)
  BY <1>3 DEF Orderly
<1>7. t[n].role = ms[n].role /\ Len(t) = n
  OBVIOUS
<1> HIDE DEF u, v
<1>8. /\ \A f : f \in ToSet(v) <=> f \in ToSet(u) \/ f \in ToSet(x)
      /\ (\A f : ~(f \in ToSet(u) /\ f \in ToSet(x))) => OnlyOnce(v)
  BY <1>2, <1>6, BothHold
<1>9. OnlyOnce(v)
  <2>1. ASSUME NEW f, f \in ToSet(u), f \in ToSet(x) PROVE FALSE
    BY <1>5, <2>1 DEF Precedes
  <2>2. QED
    BY <1>8, <2>1
<1>10. ASSUME NEW role, NEW f
       PROVE  Hears(t, role, f) <=> Hears(ms, role, f) \/ (role = ms[n].role /\ f \in ToSet(x))
  <2>1. ASSUME Hears(t, role, f) PROVE Hears(ms, role, f) \/ (role = ms[n].role /\ f \in ToSet(x))
    <3>1. PICK i \in 1..n : t[i].role = role /\ f \in ToSet(Fragments(t[i]))
      BY <1>7, <2>1 DEF Hears
    <3>2. CASE i = n
      BY <1>5, <1>7, <1>8, <3>1, <3>2 DEF v
    <3>3. CASE t[i] = ms[i]
      BY <3>1, <3>3 DEF Hears
    <3>4. QED
      BY <1>3, <3>2, <3>3
  <2>2. ASSUME Hears(ms, role, f) PROVE Hears(t, role, f)
    <3>1. PICK i \in 1..n : ms[i].role = role /\ f \in ToSet(Fragments(ms[i]))
      BY <2>2 DEF Hears
    <3>2. CASE i = n
      BY <1>3, <1>7, <1>8, <3>1, <3>2 DEF u, v, Hears
    <3>3. CASE t[i] = ms[i]
      BY <1>7, <3>1, <3>3 DEF Hears
    <3>4. QED
      BY <1>3, <3>2, <3>3
  <2>3. ASSUME role = ms[n].role, f \in ToSet(x) PROVE Hears(t, role, f)
    BY <1>3, <1>7, <1>8, <2>3 DEF v, Hears
  <2>4. QED
    BY <2>1, <2>2, <2>3
<1>11. ASSUME NEW i \in 1..n PROVE OnlyOnce(Fragments(t[i]))
  BY <1>3, <1>9 DEF v, Orderly
<1>12. ASSUME NEW i \in 1..n, NEW j \in 1..n, i < j,
              NEW f \in ToSet(Fragments(t[i])), NEW g \in ToSet(Fragments(t[j]))
       PROVE  Precedes(f, g)
  BY <1>3, <1>4, <1>8, <1>12 DEF Hears, Orderly, u, v
<1>13. QED
  BY <1>7, <1>10, <1>11, <1>12 DEF Orderly

\* A call says what the turn says that it joins, and its own.
LEMMA JoinedTurn ==
    ASSUME NEW last \in CanonicalMessage, NEW pending, NEW id, NEW body \in Seq(Nat), ToolCall(id, body) \in CanonicalCall
    PROVE  Fragments(WithCalls(last, pending, <<ToolCall(id, body)>>)) = Fragments(last) \o body
<1> DEFINE text == IF last.text = None THEN <<>> ELSE last.text
           calls == last.calls
           c == ToolCall(id, body)
           b == Bodies(calls)
           t == WithCalls(last, pending, <<c>>)
<1>1. last.text \in Seq(Nat) \cup {None} /\ calls \in Seq(CanonicalCall)
  BY DEF CanonicalMessage
<1>2. text \in Seq(Nat)
  BY <1>1, EmptySeq
<1>3. c.body = body /\ c \in CanonicalCall
  BY DEF ToolCall
<1>4. t.text = last.text /\ t.calls = calls \o <<c>>
  BY DEF WithCalls, Assistant
<1>5. Fragments(last) = text \o b
  BY DEF Fragments, Bodies
<1>6. Fragments(t) = text \o Bodies(t.calls)
  <2> HIDE DEF t
  <2>1. QED
    BY <1>4 DEF Fragments, Bodies
<1> HIDE DEF text, calls, c, t
<1>7. b \in Seq(Nat)
  BY <1>1, BodiesLaws
<1>8. calls \o <<c>> = Append(calls, c)
  BY <1>1, <1>3, AppendIsConcat
<1>9. Bodies(Append(calls, c)) = b \o body
  BY <1>1, <1>3, BodiesLaws
<1> HIDE DEF b
<1>10. (text \o b) \o body = text \o (b \o body)
  BY <1>2, <1>7, ConcatAssociative, SMTT(30)
<1>11. QED
  BY <1>4, <1>5, <1>6, <1>8, <1>9, <1>10 DEF t, c

\* What a parser puts behind what it has.
LEMMA PutBehindTells ==
    ASSUME NEW d, NEW m, NEW ms \in Seq(CanonicalMessage), NEW ns \in Seq(CanonicalMessage), Orderly(ms), Orderly(ns),
           \A role, f : Hears(ns, role, f) <=> Tells(d, m, role, f),
           \A q, r, f, g : Hears(ms, q, f) /\ Tells(d, m, r, g) => Precedes(f, g)
    PROVE  /\ Orderly(ms \o ns)
           /\ \A role, f : Hears(ms \o ns, role, f) <=> Hears(ms, role, f) \/ Tells(d, m, role, f)
BY HeardMore

\* A Responses item.
LEMMA ItemTells ==
    ASSUME NEW s \in ParserState, NEW m \in Tellable("responses"), Orderly(s.messages),
           \A q, r, f, g : Hears(s.messages, q, f) /\ Tells("responses", m, r, g) => Precedes(f, g)
    PROVE  /\ Orderly(AfterItem(s, m).messages)
           /\ \A role, f : Hears(AfterItem(s, m).messages, role, f) <=>
                              Hears(s.messages, role, f) \/ Tells("responses", m, role, f)
<1> DEFINE ms == s.messages
           ps == m.pieces
           p == ps[1]
           text == TextOf(ps)
           body == p.text
           ns == AfterItem(s, m).messages
           Goal == /\ Orderly(ns)
                   /\ \A role, f : Hears(ns, role, f) <=> Hears(ms, role, f) \/ Tells("responses", m, role, f)
<1>1. /\ m \in Utterable("responses") /\ ps \in Seq(HistoryPiece) /\ NoneRepeats(ps) /\ InPlace("responses", m)
      /\ p \in HistoryPiece /\ Len(ps) = 1 /\ Named(ps)
      /\ m.role \in {"user", "assistant", "tool", "system"}
      /\ m.role = "tool" <=> p.kind = "output"
      /\ p.kind \in {"call", "reasoning", "other"} => m.role = "assistant"
      /\ p.kind = "output" => p.id \in CallId
  BY Uttered DEF Tellable, Utterable
<1>2. p.kind \in PieceKind /\ body \in Seq(Nat)
  BY <1>1 DEF HistoryPiece
<1>3. 1..1 = {1} /\ 1 \in 1..Len(ps) /\ \A i \in 1..Len(ps) : i = 1
  BY <1>1
<1>4. OnlyOnce(body)
  BY <1>1, <1>3 DEF NoneRepeats
<1>5. ms \in Seq(CanonicalMessage)
  BY DEF ParserState
<1>6. /\ text \in Seq(Nat) /\ OnlyOnce(text)
      /\ p.kind = "text" => \A f : f \in ToSet(text) <=> f \in ToSet(body)
  BY <1>1, <1>3, KindHolds DEF TextOf
<1>7. p.kind \in {"reasoning", "other"} \/ m.role = "system" => \A role, f : ~Tells("responses", m, role, f)
  BY <1>3 DEF Tells, Reads
<1> HIDE DEF text, body
<1> SUFFICES Goal
  OBVIOUS
<1> HIDE DEF Goal
<1>8. ASSUME NEW t \in CanonicalMessage, OnlyOnce(Fragments(t)), \A f : f \in ToSet(Fragments(t)) <=> f \in ToSet(body),
             t.role = (IF p.kind = "output" THEN "tool" ELSE m.role), ns = Append(ms, t),
             m.role # "system", p.kind \in {"text", "call", "output"}
      PROVE  Goal
  <2>1. \A f : f \in ToSet(Fragments(t)) <=>
            \E i \in 1..Len(ps) : Reads("responses", m, ps[i]) /\ f \in ToSet(ps[i].text)
    BY <1>3, <1>8 DEF body, Reads
  <2>2. Orderly(<<t>>) /\ \A role, f : Hears(<<t>>, role, f) <=> Tells("responses", m, role, f)
    BY <1>3, <1>8, <2>1, OneTells
  <2>3. ns = ms \o <<t>>
    BY <1>5, <1>8, AppendIsConcat
  <2> DEFINE one == <<t>>
  <2>4. one \in Seq(CanonicalMessage)
    OBVIOUS
  <2>5. Orderly(one) /\ (\A role, f : Hears(one, role, f) <=> Tells("responses", m, role, f)) /\ ns = ms \o one
    BY <2>2, <2>3
  <2> HIDE DEF one, ns, ms
  <2>6. QED
    BY <1>5, <2>4, <2>5, PutBehindTells DEF Goal, ms
<1>9. CASE p.kind = "text" /\ m.role # "system"
  <2> DEFINE t == IF m.role = "assistant" THEN Assistant(text, s.pending, <<>>) ELSE User(text)
  <2>1. ns = Append(ms, t)
    BY <1>9 DEF AfterItem, AfterText, State, text
  <2>2. t \in CanonicalMessage /\ t.role = m.role
    BY <1>1, <1>6, <1>9, MessagesTyped, EmptySeq DEF ParserState
  <2>3. Fragments(t) = text
    BY <1>6, Spelled, ConcatEmptySeq, BodiesLaws
  <2> HIDE DEF t, ns
  <2>4. OnlyOnce(Fragments(t)) /\ \A f : f \in ToSet(Fragments(t)) <=> f \in ToSet(body)
    BY <1>6, <1>9, <2>3
  <2>5. QED
    BY <1>8, <1>9, <2>1, <2>2, <2>4
<1>10. CASE p.kind = "output"
  <2> DEFINE t == Tool(p.id, body)
  <2>1. ns = Append(ms, t)
    BY <1>10 DEF AfterItem, State, body
  <2>2. t \in CanonicalMessage /\ t.role = "tool"
    BY <1>1, <1>2, <1>10, MessagesTyped
  <2>3. Fragments(t) = body
    BY <1>2, Spelled
  <2> HIDE DEF t, ns
  <2>4. m.role # "system"
    BY <1>1, <1>10
  <2>5. QED
    BY <1>4, <1>8, <1>10, <2>1, <2>2, <2>3, <2>4
<1>11. CASE p.kind = "call"
  <2> DEFINE c == ToolCall(p.id, body)
  <2>1. m.role = "assistant"
    BY <1>1, <1>11
  <2>2. ToolCalls(ps) = <<c>> /\ ToolCalls(ps) \in Seq(CanonicalCall)
    <3>1. ps = <<p>> /\ p \in AnswerPiece
      <4> DEFINE q == ps[1]
      <4>1. ps = <<q>>
        BY <1>1
      <4>2. QED
        BY <1>1, <1>3, <1>11, <4>1 DEF AnswerPiece, NamedPiece, Utterable
    <3>2. ToolCalls(<<p>>) = <<ToolCall(p.id, p.text)>>
      BY <1>11, <3>1, OneRead
    <3>3. QED
      BY <1>1, <3>1, <3>2, CallsTyped DEF body
  <2>3. c \in CanonicalCall /\ c.body = body
    BY <1>1, <1>2, <1>3, <1>11 DEF Utterable, CanonicalCall, ToolCall
  <2>4. CASE AnswersOpenTurn(s)
    <3> DEFINE last == Last(ms)
               turn == WithCalls(last, s.pending, <<c>>)
               n == Len(ms)
    <3>1. ns = [ms EXCEPT ![n] = turn]
      BY <1>11, <2>2, <2>4 DEF AfterItem, AfterCall, State
    <3>2. ms # <<>> /\ last.role = "assistant"
      BY <2>4 DEF AnswersOpenTurn
    <3>3. n \in Nat /\ n # 0 /\ last = ms[n] /\ last \in CanonicalMessage /\ DOMAIN ms = 1..n
      BY <1>5, <3>2, LenProperties, ElementOfSeq, EmptySeq DEF Last
    <3>4. ns \in Seq(CanonicalMessage)
      BY <1>1, AfterItemTyped DEF ParserState
    <3>5. turn.role = "assistant" /\ Fragments(turn) = Fragments(last) \o body
      <4>1. turn.role = "assistant"
        BY DEF WithCalls, Assistant
      <4> HIDE DEF last
      <4>2. \A x \in CanonicalMessage : \A pending : \A id : \A b \in Seq(Nat) :
                ToolCall(id, b) \in CanonicalCall =>
                    Fragments(WithCalls(x, pending, <<ToolCall(id, b)>>)) = Fragments(x) \o b
        BY JoinedTurn
      <4>3. Fragments(WithCalls(last, s.pending, <<ToolCall(p.id, body)>>)) = Fragments(last) \o body
        BY <1>2, <2>3, <3>3, <4>2
      <4>4. QED
        BY <4>1, <4>3
    <3> HIDE DEF turn, last, ns, c
    <3>6. DOMAIN ns = 1..n /\ ns[n] = turn /\ \A i \in 1..(n - 1) : ns[i] = ms[i]
      <4>1. \A i \in 1..(n - 1) : i \in 1..n /\ i # n
        BY <3>3
      <4>2. n \in 1..n
        BY <3>3
      <4> HIDE DEF n, ms
      <4>3. QED
        BY <3>1, <3>3, <4>1, <4>2
    <3>7. Len(ns) = n
      BY <3>3, <3>4, <3>6, LenProperties
    <3>8. \A role, f : Tells("responses", m, role, f) <=> role = "assistant" /\ f \in ToSet(body)
      BY <1>3, <1>11, <2>1 DEF Tells, Reads, body
    <3>9. \A q, f : Hears(ms, q, f) => \A g \in ToSet(body) : Precedes(f, g)
      BY <3>8
    <3>10. ns[n].role = ms[n].role /\ ms[n].role = "assistant" /\ Fragments(ns[n]) = Fragments(ms[n]) \o body
      BY <3>2, <3>3, <3>5, <3>6
    <3>11. Orderly(ms)
      OBVIOUS
    <3> HIDE DEF ms, n
    <3>12. /\ Orderly(ns)
           /\ \A role, f : Hears(ns, role, f) <=> Hears(ms, role, f) \/ (role = ms[n].role /\ f \in ToSet(body))
      <4>1. Len(ms) = n
        BY DEF n
      <4>2. QED
        BY <1>2, <1>4, <1>5, <3>2, <3>4, <3>6, <3>7, <3>9, <3>10, <3>11, <4>1, LastSaysMore
    <3>13. QED
      BY <3>8, <3>10, <3>12 DEF Goal
  <2>5. CASE ~AnswersOpenTurn(s)
    <3> DEFINE t == Assistant(None, s.pending, <<c>>)
    <3>1. ns = Append(ms, t)
      BY <1>11, <2>2, <2>5 DEF AfterItem, AfterCall, State
    <3>2. s.pending \in Seq(Nat) \cup {None} /\ <<c>> \in Seq(CanonicalCall)
      BY <2>2 DEF ParserState
    <3>3. t \in CanonicalMessage /\ t.role = "assistant"
      BY <3>2, MessagesTyped
    <3>4. Fragments(t) = body
      <4>1. Fragments(t) = Bodies(<<c>>)
        BY <3>2, Spelled
      <4>2. <<c>> = Append(<<>>, c) /\ <<>> \in Seq(CanonicalCall)
        BY EmptySeq
      <4>3. <<>> \o body = body
        BY <1>2, ConcatEmptySeq
      <4>4. QED
        BY <2>3, <4>1, <4>2, <4>3, BodiesLaws
    <3> HIDE DEF t, ns
    <3>5. QED
      BY <1>4, <1>8, <1>11, <2>1, <3>1, <3>3, <3>4
  <2>6. QED
    BY <2>4, <2>5
<1>12. CASE p.kind \in {"reasoning", "other"} \/ m.role = "system"
  BY <1>1, <1>2, <1>7, <1>12 DEF PieceKind, AfterItem, AfterText, State, Goal
<1>13. QED
  BY <1>2, <1>9, <1>10, <1>11, <1>12 DEF PieceKind

\* One message, in whatever dialect.
LEMMA MessageTells ==
    ASSUME NEW d \in Dialect, NEW s \in ParserState, NEW m \in Tellable(d), Orderly(s.messages),
           \A q, r, f, g : Hears(s.messages, q, f) /\ Tells(d, m, r, g) => Precedes(f, g)
    PROVE  /\ Orderly(After(d, s, m).messages)
           /\ \A role, f : Hears(After(d, s, m).messages, role, f) <=>
                              Hears(s.messages, role, f) \/ Tells(d, m, role, f)
<1> DEFINE ms == s.messages
           P(ns) == /\ Orderly(ns)
                    /\ \A role, f : Hears(ns, role, f) <=> Hears(ms, role, f) \/ Tells(d, m, role, f)
<1>1. ms \in Seq(CanonicalMessage) /\ Orderly(ms)
  BY DEF ParserState
<1>2. \A q, r, f, g : Hears(ms, q, f) /\ Tells(d, m, r, g) => Precedes(f, g)
  OBVIOUS
<1> SUFFICES P(After(d, s, m).messages)
  OBVIOUS
<1>3. CASE d = "responses"
  <2>1. After(d, s, m) = AfterItem(s, m)
    BY <1>3 DEF After
  <2>2. P(AfterItem(s, m).messages)
    BY <1>1, <1>2, <1>3, ItemTells
  <2> HIDE DEF P
  <2>3. QED
    BY <2>1, <2>2
<1>4. CASE d = "anthropic"
  <2> DEFINE ns == AnthropicAdds(m)
  <2>1. After(d, s, m).messages = ms \o ns
    BY <1>4 DEF After, State
  <2>2. /\ ns \in Seq(CanonicalMessage) /\ Orderly(ns)
        /\ \A role, f : Hears(ns, role, f) <=> Tells(d, m, role, f)
    BY <1>4, AnthropicTells
  <2> HIDE DEF ns, ms
  <2>3. P(ms \o ns)
    BY <1>1, <1>2, <2>2, PutBehindTells
  <2> HIDE DEF P
  <2>4. QED
    BY <2>1, <2>3
<1>5. CASE d = "chat"
  <2> DEFINE ns == ChatAdds(m)
  <2>1. After(d, s, m).messages = ms \o ns
    BY <1>5 DEF After, State
  <2>2. /\ ns \in Seq(CanonicalMessage) /\ Orderly(ns)
        /\ \A role, f : Hears(ns, role, f) <=> Tells(d, m, role, f)
    BY <1>5, ChatTells
  <2> HIDE DEF ns, ms
  <2>3. P(ms \o ns)
    BY <1>1, <1>2, <2>2, PutBehindTells
  <2> HIDE DEF P
  <2>4. QED
    BY <2>1, <2>3
<1>6. QED
  BY <1>3, <1>4, <1>5 DEF Dialect

Utters(m, f) == \E i \in 1..Len(m.pieces) : f \in ToSet(m.pieces[i].text)

\* The messages of a history, one older than the next.
Consecutive(d, h) ==
    \A i, j \in 1..Len(h) :
        /\ h[i] \in Tellable(d)
        /\ i < j => \A f, g : Utters(h[i], f) /\ Utters(h[j], g) => Precedes(f, g)

AllTells(d, h, role, f) == \E i \in 1..Len(h) : Tells(d, h[i], role, f)

\* One message more, or less.
LEMMA ConsecutiveMore ==
    ASSUME NEW d, NEW C, NEW h \in Seq(C), NEW m \in C
    PROVE  /\ Consecutive(d, Append(h, m)) <=>
                  /\ Consecutive(d, h) /\ m \in Tellable(d)
                  /\ \A i \in 1..Len(h) : \A f, g : Utters(h[i], f) /\ Utters(m, g) => Precedes(f, g)
           /\ \A role, f : AllTells(d, Append(h, m), role, f) <=> AllTells(d, h, role, f) \/ Tells(d, m, role, f)
<1> DEFINE t == Append(h, m)
           n == Len(h)
<1>1. /\ n \in Nat /\ Len(t) = n + 1 /\ t[n + 1] = m
      /\ \A i \in 1..n : t[i] = h[i]
  BY AppendProperties, LenProperties
<1> HIDE DEF t, n
<1>2. /\ \A i \in 1..n : i \in 1..(n + 1) /\ i < n + 1 /\ ~(n + 1 < i)
      /\ n + 1 \in 1..(n + 1) /\ ~(n + 1 < n + 1)
      /\ \A i \in 1..(n + 1) : i \in 1..n \/ i = n + 1
  BY <1>1
<1>3. Consecutive(d, t) <=>
          \A i, j \in 1..(n + 1) :
              /\ t[i] \in Tellable(d)
              /\ i < j => \A f, g : Utters(t[i], f) /\ Utters(t[j], g) => Precedes(f, g)
  BY <1>1 DEF Consecutive
<1>4. Consecutive(d, h) <=>
          \A i, j \in 1..n :
              /\ h[i] \in Tellable(d)
              /\ i < j => \A f, g : Utters(h[i], f) /\ Utters(h[j], g) => Precedes(f, g)
  BY DEF Consecutive, n
<1>5. ASSUME Consecutive(d, t)
      PROVE  /\ Consecutive(d, h) /\ m \in Tellable(d)
             /\ \A i \in 1..n : \A f, g : Utters(h[i], f) /\ Utters(m, g) => Precedes(f, g)
  <2>1. Consecutive(d, h)
    BY <1>1, <1>2, <1>3, <1>4, <1>5
  <2>2. m \in Tellable(d)
    BY <1>1, <1>2, <1>3, <1>5
  <2>3. ASSUME NEW i \in 1..n, NEW f, NEW g, Utters(h[i], f), Utters(m, g) PROVE Precedes(f, g)
    BY <1>1, <1>2, <1>3, <1>5, <2>3
  <2>4. QED
    BY <2>1, <2>2, <2>3
<1>6. ASSUME Consecutive(d, h), m \in Tellable(d),
             \A i \in 1..n : \A f, g : Utters(h[i], f) /\ Utters(m, g) => Precedes(f, g)
      PROVE  Consecutive(d, t)
  <2>1. ASSUME NEW i \in 1..(n + 1) PROVE t[i] \in Tellable(d)
    BY <1>1, <1>2, <1>4, <1>6
  <2>2. ASSUME NEW i \in 1..(n + 1), NEW j \in 1..(n + 1), i < j, NEW f, NEW g, Utters(t[i], f), Utters(t[j], g)
        PROVE  Precedes(f, g)
    BY <1>1, <1>2, <1>4, <1>6, <2>2
  <2>3. QED
    BY <1>3, <2>1, <2>2
<1>7. ASSUME NEW role, NEW f
      PROVE  AllTells(d, t, role, f) <=> AllTells(d, h, role, f) \/ Tells(d, m, role, f)
  BY <1>1, <1>2 DEF AllTells, n
<1>8. QED
  BY <1>5, <1>6, <1>7 DEF t, n

\* What a whole history is parsed to says what the history does.
LEMMA HistoryTells ==
    ASSUME NEW d \in Dialect, NEW h \in Seq(Utterable(d)), Consecutive(d, h)
    PROVE  /\ Orderly(ParseOf(d)[h].messages)
           /\ \A role, f : Hears(ParseOf(d)[h].messages, role, f) <=> AllTells(d, h, role, f)
<1> DEFINE P(t) == /\ Orderly(ParseOf(d)[t].messages)
                   /\ \A role, f : Hears(ParseOf(d)[t].messages, role, f) <=> AllTells(d, t, role, f)
           T == {t \in Seq(Utterable(d)) : Consecutive(d, t) => P(t)}
<1>1. <<>> \in T
  <2>1. <<>> \in Seq(Utterable(d)) /\ Len(<<>>) = 0 /\ 1..0 = {}
    BY EmptySeq
  <2>2. \A role, f : ~AllTells(d, <<>>, role, f)
    BY <2>1 DEF AllTells
  <2>3. P(<<>>)
    BY <2>2, HeardOne, ParseLaws DEF Fresh, State
  <2> HIDE DEF P
  <2>4. QED
    BY <2>1, <2>3
<1>2. ASSUME NEW t \in Seq(Utterable(d)), NEW m \in Utterable(d), t \in T PROVE Append(t, m) \in T
  <2> DEFINE u == Append(t, m)
             s == ParseOf(d)[t]
  <2>1. s \in ParserState /\ ParseOf(d)[u] = After(d, s, m)
    BY ParseLaws
  <2>2. SUFFICES ASSUME Consecutive(d, u) PROVE P(u)
    BY AppendProperties
  <2>3. /\ Consecutive(d, t) /\ m \in Tellable(d)
        /\ \A i \in 1..Len(t) : \A f, g : Utters(t[i], f) /\ Utters(m, g) => Precedes(f, g)
    BY <2>2, ConsecutiveMore
  <2>4. \A role, f : AllTells(d, u, role, f) <=> AllTells(d, t, role, f) \/ Tells(d, m, role, f)
    BY ConsecutiveMore
  <2>5. Orderly(s.messages) /\ \A role, f : Hears(s.messages, role, f) <=> AllTells(d, t, role, f)
    BY <1>2, <2>3
  <2>6. \A x, role, f : Tells(d, x, role, f) => Utters(x, f)
    BY DEF Tells, Utters
  <2> HIDE DEF u, s
  <2>7. ASSUME NEW q, NEW r, NEW f, NEW g, Hears(s.messages, q, f), Tells(d, m, r, g) PROVE Precedes(f, g)
    <3>1. PICK i \in 1..Len(t) : Tells(d, t[i], q, f)
      BY <2>5, <2>7 DEF AllTells
    <3>2. QED
      BY <2>3, <2>6, <2>7, <3>1
  <2> DEFINE after == After(d, s, m).messages
  <2>8. /\ Orderly(after)
        /\ \A role, f : Hears(after, role, f) <=> Hears(s.messages, role, f) \/ Tells(d, m, role, f)
    BY <2>1, <2>3, <2>5, <2>7, MessageTells
  <2> HIDE DEF after
  <2>9. QED
    BY <2>1, <2>4, <2>5, <2>8 DEF after
<1> HIDE DEF T
<1>3. QED
  BY <1>1, <1>2, Appending DEF T

-----------------------------------------------------------------------------
\* What normalize_tool_parents says is what it is told.

\* One message more.
LEMMA OrderlyMore ==
    ASSUME NEW C, NEW ms \in Seq(C), NEW m \in C
    PROVE  /\ \A role, f : Hears(Append(ms, m), role, f) <=> Hears(ms, role, f) \/ Hears(<<m>>, role, f)
           /\ Orderly(Append(ms, m)) =>
                 /\ Orderly(ms) /\ Orderly(<<m>>)
                 /\ \A q, r, f, g : Hears(ms, q, f) /\ Hears(<<m>>, r, g) => Precedes(f, g)
<1> DEFINE t == Append(ms, m)
           one == <<m>>
           n == Len(ms)
<1>1. /\ n \in Nat /\ Len(t) = n + 1 /\ t[n + 1] = m
      /\ \A i \in 1..n : t[i] = ms[i]
  BY AppendProperties, LenProperties
<1>2. t = ms \o one /\ one \in Seq(C)
  BY AppendIsConcat
<1>3. \A role, f : Hears(one, role, f) <=> m.role = role /\ f \in ToSet(Fragments(m))
  BY HeardOne
<1> HIDE DEF t, one
<1>4. \A role, f : Hears(t, role, f) <=> Hears(ms, role, f) \/ Hears(one, role, f)
  BY <1>2, HeardMore
<1>5. ASSUME Orderly(t)
      PROVE  /\ Orderly(ms) /\ Orderly(one)
             /\ \A q, r, f, g : Hears(ms, q, f) /\ Hears(one, r, g) => Precedes(f, g)
  <2>1. \A j, k \in 1..(n + 1) :
            /\ OnlyOnce(Fragments(t[k]))
            /\ j < k => \A f \in ToSet(Fragments(t[j])), g \in ToSet(Fragments(t[k])) : Precedes(f, g)
    BY <1>1, <1>5 DEF Orderly
  <2>2. /\ \A i \in 1..n : i \in 1..(n + 1) /\ i < n + 1
        /\ n + 1 \in 1..(n + 1)
    BY <1>1
  <2>3. Orderly(one)
    BY <1>1, <2>1, <2>2, HeardOne DEF one
  <2>4. ASSUME NEW q, NEW r, NEW f, NEW g, Hears(ms, q, f), Hears(one, r, g) PROVE Precedes(f, g)
    <3>1. PICK i \in 1..n : ms[i].role = q /\ f \in ToSet(Fragments(ms[i]))
      BY <2>4 DEF Hears
    <3>2. i \in 1..(n + 1) /\ n + 1 \in 1..(n + 1) /\ i < n + 1 /\ t[i] = ms[i] /\ t[n + 1] = m
      BY <1>1, <2>2
    <3>3. QED
      BY <1>3, <2>1, <2>4, <3>1, <3>2
  <2>5. QED
    BY <1>1, <2>1, <2>2, <2>3, <2>4 DEF Orderly
<1>6. QED
  BY <1>4, <1>5 DEF t, one

\* A parent says nothing.
LEMMA ParentIsSilent ==
    ASSUME NEW m \in CanonicalMessage, m.id \in CallId
    PROVE  LET both == <<Parents!Parent(m.id), m>>
           IN  /\ both \in Seq(CanonicalMessage)
               /\ \A role, f : Hears(both, role, f) <=> Hears(<<m>>, role, f)
               /\ Orderly(<<m>>) => Orderly(both)
<1> DEFINE p == Parents!Parent(m.id)
           a == <<p>>
           b == <<m>>
<1>1. p \in CanonicalMessage /\ Fragments(p) = <<>>
  BY ParentTyped, Spelled
<1>2. ToSet(<<>>) = {} /\ OnlyOnce(<<>>)
  BY EmptySeq DEF ToSet, OnlyOnce
<1> HIDE DEF p
<1>3. a \in Seq(CanonicalMessage) /\ b \in Seq(CanonicalMessage) /\ <<p, m>> = a \o b /\ <<p, m>> \in Seq(CanonicalMessage)
  BY <1>1
<1>4. Orderly(a) /\ \A role, f : ~Hears(a, role, f)
  BY <1>1, <1>2, HeardOne
<1> HIDE DEF a, b
<1>5. /\ \A role, f : Hears(a \o b, role, f) <=> Hears(b, role, f)
      /\ Orderly(b) => Orderly(a \o b)
  BY <1>3, <1>4, HeardMore
<1>6. QED
  BY <1>3, <1>5 DEF p, b

\* One message is placed.
LEMMA PlacedTells ==
    ASSUME NEW s \in LoopState, NEW m \in CanonicalMessage
    PROVE  /\ \A role, f : Hears(Placed(s, m).out, role, f) <=> Hears(s.out, role, f) \/ Hears(<<m>>, role, f)
           /\ /\ Orderly(s.out) /\ Orderly(<<m>>)
              /\ \A q, r, f, g : Hears(s.out, q, f) /\ Hears(<<m>>, r, g) => Precedes(f, g)
              => Orderly(Placed(s, m).out)
<1> DEFINE os == s.out
           P(us) == /\ \A role, f : Hears(us, role, f) <=> Hears(os, role, f) \/ Hears(<<m>>, role, f)
                    /\ /\ Orderly(os) /\ Orderly(<<m>>)
                       /\ \A q, r, f, g : Hears(os, q, f) /\ Hears(<<m>>, r, g) => Precedes(f, g)
                       => Orderly(us)
<1>1. os \in Seq(CanonicalMessage)
  BY LoopParts
<1> SUFFICES P(Placed(s, m).out)
  OBVIOUS
<1>2. ASSUME NEW ns \in Seq(CanonicalMessage),
             \A role, f : Hears(ns, role, f) <=> Hears(<<m>>, role, f),
             Orderly(<<m>>) => Orderly(ns)
      PROVE  P(os \o ns)
  <2> HIDE DEF os
  <2>1. /\ Orderly(os) /\ Orderly(ns)
        /\ \A q, r, f, g : Hears(os, q, f) /\ Hears(ns, r, g) => Precedes(f, g)
        => Orderly(os \o ns)
    BY <1>1, HeardMore
  <2>2. QED
    BY <1>1, <1>2, <2>1, HeardMore
<1>3. P(Append(os, m))
  <2>1. Append(os, m) = os \o <<m>> /\ <<m>> \in Seq(CanonicalMessage)
    BY <1>1, AppendIsConcat
  <2> HIDE DEF P
  <2>2. QED
    BY <1>2, <2>1
<1>4. CASE m.role = "tool" /\ m.id \notin s.announced \ {NoId}
  <2> DEFINE both == <<Parents!Parent(m.id), m>>
  <2>1. /\ both \in Seq(CanonicalMessage)
        /\ \A role, f : Hears(both, role, f) <=> Hears(<<m>>, role, f)
        /\ Orderly(<<m>>) => Orderly(both)
    BY <1>4, ParentIsSilent, CanonicalParts
  <2>2. Placed(s, m).out = os \o both
    BY <1>4, LoopParts DEF Placed
  <2> HIDE DEF P, both, os
  <2>3. QED
    BY <1>2, <2>1, <2>2
<1>5. CASE ~(m.role = "tool" /\ m.id \notin s.announced \ {NoId})
  <2>1. Placed(s, m).out = Append(os, m)
    BY <1>5, LoopParts DEF Placed
  <2> HIDE DEF P
  <2>2. QED
    BY <1>3, <2>1
<1>6. QED
  BY <1>4, <1>5

\* All are placed.
LEMMA NormalTells ==
    ASSUME NEW ms \in Seq(CanonicalMessage)
    PROVE  /\ \A role, f : Hears(NormalOf[ms].out, role, f) <=> Hears(ms, role, f)
           /\ Orderly(ms) => Orderly(NormalOf[ms].out)
<1> DEFINE P(t) == /\ \A role, f : Hears(NormalOf[t].out, role, f) <=> Hears(t, role, f)
                   /\ Orderly(t) => Orderly(NormalOf[t].out)
           T == {t \in Seq(CanonicalMessage) : P(t)}
<1>1. <<>> \in T
  BY EmptySeq, NormalLaws, LoopParts DEF Idle
<1>2. ASSUME NEW t \in Seq(CanonicalMessage), NEW m \in CanonicalMessage, t \in T PROVE Append(t, m) \in T
  <2> DEFINE u == Append(t, m)
             s == NormalOf[t]
  <2>1. u \in Seq(CanonicalMessage)
    BY AppendProperties
  <2>2. s \in LoopState /\ NormalOf[u] = Placed(s, m)
    BY NormalLaws
  <2>3. P(t)
    BY <1>2
  <2>4. /\ \A role, f : Hears(s.out, role, f) <=> Hears(t, role, f)
        /\ Orderly(t) => Orderly(s.out)
    BY <2>3
  <2>5. /\ \A role, f : Hears(u, role, f) <=> Hears(t, role, f) \/ Hears(<<m>>, role, f)
        /\ Orderly(u) =>
              /\ Orderly(t) /\ Orderly(<<m>>)
              /\ \A q, r, f, g : Hears(t, q, f) /\ Hears(<<m>>, r, g) => Precedes(f, g)
    BY OrderlyMore
  <2> HIDE DEF s, u, P
  <2> DEFINE os == Placed(s, m).out
  <2>6. /\ \A role, f : Hears(os, role, f) <=> Hears(s.out, role, f) \/ Hears(<<m>>, role, f)
        /\ /\ Orderly(s.out) /\ Orderly(<<m>>)
           /\ \A q, r, f, g : Hears(s.out, q, f) /\ Hears(<<m>>, r, g) => Precedes(f, g)
           => Orderly(os)
    BY <2>2, PlacedTells
  <2>7. NormalOf[u].out = os
    BY <2>2
  <2> HIDE DEF os
  <2>8. ASSUME Orderly(u) PROVE Orderly(os)
    BY <2>4, <2>5, <2>6, <2>8
  <2>9. P(u)
    BY <2>4, <2>5, <2>6, <2>7, <2>8 DEF P
  <2>10. QED
    BY <2>1, <2>9 DEF u
<1> HIDE DEF T
<1>3. QED
  BY <1>1, <1>2, Appending, ZenonT(30) DEF T

\* The property is about what is heard and told.
LEMMA ToldHeard ==
    ASSUME history \in Seq(Utterable(dialect))
    PROVE  /\ \A x : x \in Heard <=> \E role, f : x = <<role, f>> /\ Hears(out, role, f)
           /\ \A x : x \in Told <=> \E role, f : x = <<role, f>> /\ AllTells(dialect, history, role, f)
<1>1. ASSUME NEW x PROVE x \in Heard <=> \E role, f : x = <<role, f>> /\ Hears(out, role, f)
  BY DEF Heard, Hears
<1>2. ASSUME NEW i \in 1..Len(history), NEW q
      PROVE  q \in ToSet(history[i].pieces) <=> \E j \in 1..Len(history[i].pieces) : q = history[i].pieces[j]
  <2>1. history[i].pieces \in Seq(HistoryPiece)
    BY Uttered, ElementOfSeq
  <2> DEFINE ps == history[i].pieces
  <2> HIDE DEF ps
  <2>2. q \in ToSet(ps) <=> \E j \in 1..Len(ps) : q = ps[j]
    BY <2>1, LenProperties DEF ToSet, ps
  <2>3. QED
    BY <2>2 DEF ps
<1>3. \A m, p : Reads(dialect, m, p) <=> ~Unread(m, p)
  BY DEF Reads, Unread
<1>4. ASSUME NEW x PROVE x \in Told <=> \E role, f : x = <<role, f>> /\ AllTells(dialect, history, role, f)
  <2> DEFINE RoleOf(i, p) == IF p.kind = "output" THEN "tool" ELSE history[i].role
  <2>1. x \in Told <=> \E i \in 1..Len(history) :
                           \E p \in {q \in ToSet(history[i].pieces) : ~Unread(history[i], q)} :
                               \E f \in ToSet(p.text) : x = <<RoleOf(i, p), f>>
    BY DEF Told
  <2>2. ASSUME NEW i \in 1..Len(history), NEW j \in 1..Len(history[i].pieces), NEW f,
               Reads(dialect, history[i], history[i].pieces[j]), f \in ToSet(history[i].pieces[j].text),
               x = <<RoleOf(i, history[i].pieces[j]), f>>
        PROVE  \E role, g : x = <<role, g>> /\ AllTells(dialect, history, role, g)
    <3>1. AllTells(dialect, history, RoleOf(i, history[i].pieces[j]), f)
      BY <2>2 DEF AllTells, Tells
    <3> HIDE DEF RoleOf
    <3>2. QED
      BY <2>2, <3>1
  <2>3. ASSUME x \in Told PROVE \E role, g : x = <<role, g>> /\ AllTells(dialect, history, role, g)
    <3>1. PICK i \in 1..Len(history) :
              \E p \in {q \in ToSet(history[i].pieces) : ~Unread(history[i], q)} :
                  \E f \in ToSet(p.text) : x = <<RoleOf(i, p), f>>
      BY <2>1, <2>3
    <3>2. PICK p \in ToSet(history[i].pieces) :
              ~Unread(history[i], p) /\ \E f \in ToSet(p.text) : x = <<RoleOf(i, p), f>>
      BY <3>1
    <3>3. PICK j \in 1..Len(history[i].pieces) : p = history[i].pieces[j]
      BY <1>2, <3>2
    <3>4. PICK f \in ToSet(p.text) : x = <<RoleOf(i, p), f>>
      BY <3>2
    <3>5. Reads(dialect, history[i], history[i].pieces[j])
      BY <1>3, <3>2, <3>3
    <3> HIDE DEF RoleOf
    <3>6. QED
      BY <2>2, <3>3, <3>4, <3>5
  <2>4. ASSUME NEW role, NEW f, x = <<role, f>>, AllTells(dialect, history, role, f) PROVE x \in Told
    <3>1. PICK i \in 1..Len(history) : Tells(dialect, history[i], role, f)
      BY <2>4 DEF AllTells
    <3>2. PICK j \in 1..Len(history[i].pieces) :
              /\ Reads(dialect, history[i], history[i].pieces[j]) /\ f \in ToSet(history[i].pieces[j].text)
              /\ role = RoleOf(i, history[i].pieces[j])
      BY <3>1 DEF Tells
    <3> DEFINE p == history[i].pieces[j]
    <3>3. p \in ToSet(history[i].pieces) /\ ~Unread(history[i], p)
      BY <1>2, <1>3, <3>2
    <3>4. f \in ToSet(p.text) /\ x = <<RoleOf(i, p), f>>
      BY <2>4, <3>2
    <3> HIDE DEF p, RoleOf
    <3>5. QED
      BY <2>1, <3>3, <3>4
  <2>5. QED
    BY <2>3, <2>4
<1>5. QED
  BY <1>1, <1>4

\* Whatever is orderly is in order, and says nothing twice.
LEMMA OrderlyIsInOrder ==
    ASSUME out \in Seq(CanonicalMessage), Orderly(out)
    PROVE  InOrder /\ NothingTwice
<1> DEFINE n == Len(out)
           ss == [k \in 1..n |-> Fragments(out[k])]
           all == FlattenSeq(ss)
<1>1. n \in Nat /\ \A k \in 1..n : out[k] \in CanonicalMessage
  BY LenProperties, ElementOfSeq
<1>2. /\ ss \in Seq(Seq(Nat)) /\ Len(ss) = n
      /\ \A k \in 1..n : ss[k] = Fragments(out[k])
  BY <1>1, Spelled
<1>3. InOrder
  BY DEF InOrder, Orderly, Precedes
<1>4. ASSUME NEW i \in 1..n, NEW j \in 1..n, i # j, NEW f, f \in ToSet(Fragments(out[i])), f \in ToSet(Fragments(out[j]))
      PROVE  FALSE
  <2>1. i < j \/ j < i
    BY <1>1, <1>4
  <2>2. QED
    BY <1>4, <2>1 DEF Orderly, Precedes
<1>5. \A k \in 1..n : OnlyOnce(Fragments(out[k]))
  BY DEF Orderly
<1> HIDE DEF ss
<1>6. PartsDiffer(ss)
  <2>1. ASSUME NEW i \in 1..n, NEW j \in 1..n, i # j PROVE ToSet(ss[i]) \cap ToSet(ss[j]) = {}
    BY <1>2, <1>4, <2>1
  <2>2. QED
    BY <1>2, <1>5, <2>1 DEF PartsDiffer
<1>7. all \in Seq(Nat) /\ OnlyOnce(all)
  BY <1>2, <1>6, FlattenTyped, FlatHolds
<1> HIDE DEF all
<1>8. Len(all) = Cardinality(ToSet(all))
  BY <1>7, NoneTwice DEF OnlyOnce
<1>9. QED
  BY <1>3, <1>8 DEF NothingTwice, all, ss

\* What goes out tells what the history does.
LEMMA RequestTells ==
    ASSUME dialect \in Dialect, history \in Seq(Utterable(dialect)), Consecutive(dialect, history),
           out = Request(dialect, history)
    PROVE  Told = Heard /\ InOrder /\ NothingTwice
<1> DEFINE ms == ParseOf(dialect)[history].messages
<1>1. ms \in Seq(CanonicalMessage) /\ out \in Seq(CanonicalMessage) /\ out = NormalOf[ms].out
  BY RequestTyped DEF Request
<1>2. Orderly(ms) /\ \A role, f : Hears(ms, role, f) <=> AllTells(dialect, history, role, f)
  BY HistoryTells
<1> HIDE DEF ms
<1>3. Orderly(out) /\ \A role, f : Hears(out, role, f) <=> AllTells(dialect, history, role, f)
  BY <1>1, <1>2, NormalTells
<1>4. QED
  BY <1>1, <1>3, OrderlyIsInOrder, ToldHeard

-----------------------------------------------------------------------------
\* Histories only get newer.

\* The numbers that an utterance has, and the calls that they are enough for.
Slot == 0..(Stride - 1)
Few(n) == n \in Nat /\ n + 2 < Stride

\* A fragment's number tells its utterance.
LEMMA Numbered ==
    /\ \A u \in Nat, n \in Slot : Utterance(Fragment(u, n)) = u /\ Fragment(u, n) \in Nat
    /\ \A u \in Nat, n, k \in Slot : Fragment(u, n) = Fragment(u, k) => n = k
    /\ \A f \in Nat : Utterance(f) \in Nat
    /\ 1 \in Slot /\ 2 \in Slot
    /\ \A n : Few(n) => \A i \in 1..n : 2 + i \in Slot /\ 2 + i # 1 /\ 2 + i # 2
    /\ Few(0)
<1>1. Stride \in Nat /\ Stride > 2
  BY ConversationAssumption, NumberingAssumption
<1>2. ASSUME NEW w \in Nat, w > 2
      PROVE  /\ \A u \in Nat, n \in 0..(w - 1) : (w * u + n) \div w = u /\ w * u + n \in Nat
             /\ \A u \in Nat, n, k \in 0..(w - 1) : w * u + n = w * u + k => n = k
             /\ \A f \in Nat : f \div w \in Nat
  <2>1. ASSUME NEW f \in Nat
        PROVE  /\ f \div w \in Nat /\ f % w \in 0..(w - 1) /\ f = w * (f \div w) + (f % w)
    BY <1>2, <2>1
  <2>2. ASSUME NEW p \in Nat, NEW q \in Nat, NEW n \in 0..(w - 1), NEW k \in 0..(w - 1),
               w * p + n = w * q + k
        PROVE  ~(p < q)
    <3>1. ASSUME p < q PROVE FALSE
      <4>1. PICK r \in Nat : q = p + 1 + r
        BY <3>1
      <4> DEFINE a == w * p
                 b == w * r
      <4>2. a \in Nat /\ b \in Nat
        BY <1>2
      <4>3. a + n = a + w + b + k
        BY <1>2, <2>2, <4>1
      <4> HIDE DEF a, b
      <4>4. QED
        BY <1>2, <4>2, <4>3
    <3>2. QED
      BY <3>1
  <2>3. ASSUME NEW u \in Nat, NEW n \in 0..(w - 1) PROVE (w * u + n) \div w = u /\ w * u + n \in Nat
    <3> DEFINE f == w * u + n
               q == f \div w
               k == f % w
    <3>1. f \in Nat
      BY <1>2
    <3>2. q \in Nat /\ k \in 0..(w - 1) /\ f = w * q + k
      BY <2>1, <3>1
    <3> HIDE DEF q, k
    <3>3. q = u
      BY <2>2, <3>2
    <3>4. QED
      BY <3>1, <3>3 DEF q
  <2>4. ASSUME NEW u \in Nat, NEW n \in 0..(w - 1), NEW k \in 0..(w - 1), w * u + n = w * u + k PROVE n = k
    <3> DEFINE a == w * u
    <3>1. a \in Nat
      BY <1>2
    <3>2. a + n = a + k
      BY <2>4
    <3> HIDE DEF a
    <3>3. QED
      BY <3>1, <3>2
  <2>5. QED
    BY <2>1, <2>3, <2>4
<1>3. /\ 1 \in Slot /\ 2 \in Slot /\ Few(0)
      /\ \A n : Few(n) => \A i \in 1..n : 2 + i \in Slot /\ 2 + i # 1 /\ 2 + i # 2
  BY <1>1 DEF Slot, Few
<1>4. QED
  BY <1>1, <1>2, <1>3 DEF Fragment, Utterance, Slot

\* All that was said is said until now.
Recent(d, h, c) ==
    /\ Consecutive(d, h)
    /\ \A i \in 1..Len(h) : \A f : Utters(h[i], f) => Utterance(f) <= c

\* What is said are numbers.
LEMMA UttersNumbers ==
    ASSUME NEW d, NEW m \in Utterable(d), NEW f, Utters(m, f)
    PROVE  f \in Nat /\ Utterance(f) \in Nat
<1> DEFINE ps == m.pieces
<1>1. ps \in Seq(HistoryPiece)
  BY Uttered
<1>2. PICK i \in 1..Len(ps) : f \in ToSet(ps[i].text)
  BY DEF Utters
<1>3. ps[i] \in HistoryPiece
  <2> HIDE DEF ps
  <2>1. QED
    BY <1>1, ElementOfSeq
<1> DEFINE text == ps[i].text
<1>4. text \in Seq(Nat) /\ f \in ToSet(text)
  BY <1>2, <1>3 DEF HistoryPiece
<1> HIDE DEF text
<1>5. PICK j \in DOMAIN text : f = text[j]
  BY <1>4 DEF ToSet
<1>6. f \in Nat
  BY <1>4, <1>5, LenProperties, ElementOfSeq
<1>7. QED
  BY <1>6, Numbered

\* A history goes on with newer messages.
LEMMA RecentJoins ==
    ASSUME NEW d, NEW h \in Seq(Utterable(d)), NEW s \in Seq(Utterable(d)), NEW c \in Nat, NEW e \in Nat,
           c <= e, Recent(d, h, c), Consecutive(d, s),
           \A j \in 1..Len(s) : \A f : Utters(s[j], f) => c < Utterance(f) /\ Utterance(f) <= e
    PROVE  Recent(d, h \o s, e)
<1> DEFINE u == h \o s
           n == Len(h)
           k == Len(s)
<1>1. /\ n \in Nat /\ k \in Nat /\ Len(u) = n + k /\ u \in Seq(Utterable(d))
      /\ \A i \in 1..(n + k) : u[i] = IF i <= n THEN h[i] ELSE s[i - n]
  BY LenProperties, ConcatProperties
<1> HIDE DEF u
<1>2. ASSUME NEW i \in 1..(n + k)
      PROVE  (i \in 1..n /\ u[i] = h[i]) \/ (i - n \in 1..k /\ u[i] = s[i - n])
  BY <1>1
<1>3. ASSUME NEW i \in 1..n, NEW f, Utters(h[i], f)
      PROVE  f \in Nat /\ Utterance(f) \in Nat /\ Utterance(f) <= c
  BY <1>3, UttersNumbers, ElementOfSeq DEF Recent
<1>4a. \A j \in 1..k : \A f : Utters(s[j], f) => f \in Nat /\ Utterance(f) \in Nat
  BY ElementOfSeq, UttersNumbers
<1>4. ASSUME NEW i \in 1..(n + k) PROVE u[i] \in Tellable(d)
  BY <1>2 DEF Recent, Consecutive
<1>5. ASSUME NEW i \in 1..(n + k), NEW j \in 1..(n + k), i < j, NEW f, NEW g, Utters(u[i], f), Utters(u[j], g)
      PROVE  Precedes(f, g)
  <2>1. CASE j \in 1..n /\ u[j] = h[j]
    BY <1>1, <1>5, <2>1 DEF Recent, Consecutive
  <2>2. CASE i - n \in 1..k /\ u[i] = s[i - n]
    <3>1. j - n \in 1..k /\ i - n < j - n /\ ~(j <= n)
      BY <1>1, <1>5, <2>2
    <3>2. QED
      BY <1>1, <1>5, <2>2, <3>1 DEF Consecutive
  <2>3. CASE i \in 1..n /\ u[i] = h[i] /\ j - n \in 1..k /\ u[j] = s[j - n]
    BY <1>3, <1>4a, <1>5, <2>3 DEF Precedes
  <2>4. QED
    BY <1>2, <1>5, <2>1, <2>2, <2>3
<1>6. ASSUME NEW i \in 1..(n + k), NEW f, Utters(u[i], f) PROVE Utterance(f) <= e
  <2>1. CASE i \in 1..n /\ u[i] = h[i]
    BY <1>3, <1>6, <2>1
  <2>2. CASE i - n \in 1..k /\ u[i] = s[i - n]
    BY <1>6, <2>2
  <2>3. QED
    BY <1>2, <2>1, <2>2
<1>7. QED
  BY <1>1, <1>4, <1>5, <1>6 DEF Recent, Consecutive, u

\* One message.
LEMMA ConsecutiveOne ==
    ASSUME NEW d, NEW m \in Tellable(d)
    PROVE  Consecutive(d, <<m>>) /\ \A j \in 1..Len(<<m>>) : <<m>>[j] = m
<1> DEFINE s == <<m>>
<1>1. Len(s) = 1 /\ s[1] = m /\ \A j \in 1..1 : j = 1
  OBVIOUS
<1> HIDE DEF s
<1>2. \A i, j \in 1..Len(s) : s[i] = m /\ ~(i < j)
  BY <1>1
<1>3. QED
  BY <1>2 DEF s, Consecutive

\* Where all is of one utterance, or nothing is a result, there is no order to keep.
LEMMA ResultsAreFirst ==
    ASSUME NEW d, NEW m \in Utterable(d),
           \/ \E u \in Nat : \A f : Utters(m, f) => Utterance(f) = u
           \/ \A i \in 1..Len(m.pieces) : m.pieces[i].kind # "output"
    PROVE  ResultsFirst(m.pieces)
<1>1. CASE \A i \in 1..Len(m.pieces) : m.pieces[i].kind # "output"
  BY <1>1 DEF ResultsFirst
<1>2. CASE \E u \in Nat : \A f : Utters(m, f) => Utterance(f) = u
  <2>1. PICK u \in Nat : \A f : Utters(m, f) => Utterance(f) = u
    BY <1>2
  <2>2. \A i \in 1..Len(m.pieces) : \A f \in ToSet(m.pieces[i].text) : Utterance(f) = u
    BY <2>1 DEF Utters
  <2>3. QED
    BY <2>2 DEF ResultsFirst
<1>3. QED
  BY <1>1, <1>2

\* One piece repeats nothing if it does not repeat itself.
LEMMA OneRepeats ==
    ASSUME NEW role, NEW p, OnlyOnce(p.text)
    PROVE  LET m == Message(role, <<p>>)
           IN  /\ m.role = role /\ NoneRepeats(m.pieces)
               /\ \A i \in 1..Len(m.pieces) : m.pieces[i] = p
               /\ \A f : Utters(m, f) <=> f \in ToSet(p.text)
<1> DEFINE s == <<p>>
           m == Message(role, s)
<1>1. Len(s) = 1 /\ s[1] = p /\ \A j \in 1..1 : j = 1
  OBVIOUS
<1>2. m.role = role /\ m.pieces = s
  BY DEF Message
<1> HIDE DEF s, m
<1>3. \A i, j \in 1..Len(s) : s[i] = p /\ i = j
  BY <1>1
<1>4. 1 \in 1..Len(s)
  BY <1>1
<1>5. \A f : Utters(m, f) <=> f \in ToSet(p.text)
  BY <1>2, <1>3, <1>4 DEF Utters
<1>6. QED
  BY <1>2, <1>3, <1>5 DEF m, s, NoneRepeats

\* What is brought along is.
LEMMA BroughtIsRecent ==
    ASSUME NEW d \in Dialect, NEW h \in Histories[d]
    PROVE  h \in Seq(Utterable(d)) /\ Recent(d, h, Len(h))
<1>1. h \in Seq(Utterable(d))
  BY ConversationAssumption
<1>2. Len(h) \in Nat /\ \A i \in 1..Len(h) : h[i] \in Utterable(d)
  BY <1>1, LenProperties, ElementOfSeq
<1>3. /\ \A i \in 1..Len(h) : InPlace(d, h[i]) /\ NoneRepeats(h[i].pieces)
      /\ \A i \in 1..Len(h) : \A p \in ToSet(h[i].pieces) : \A f \in ToSet(p.text) : Utterance(f) = i
  BY NumberingAssumption
<1>4. ASSUME NEW i \in 1..Len(h), NEW f, Utters(h[i], f) PROVE Utterance(f) = i
  <2> DEFINE ps == h[i].pieces
  <2>1. ps \in Seq(HistoryPiece)
    BY <1>2, Uttered
  <2>2. PICK j \in 1..Len(ps) : f \in ToSet(ps[j].text)
    BY <1>4 DEF Utters
  <2>3. \A p \in ToSet(ps) : \A g \in ToSet(p.text) : Utterance(g) = i
    BY <1>3
  <2> HIDE DEF ps
  <2>4. QED
    BY <2>1, <2>2, <2>3, LenProperties DEF ToSet
<1>5. ASSUME NEW i \in 1..Len(h) PROVE h[i] \in Tellable(d)
  <2> DEFINE m == h[i]
  <2>1. m \in Utterable(d) /\ i \in Nat /\ \A f : Utters(m, f) => Utterance(f) = i
    BY <1>2, <1>4
  <2>2. InPlace(d, m) /\ NoneRepeats(m.pieces)
    BY <1>3
  <2> HIDE DEF m
  <2>3. m \in Tellable(d)
    BY <2>1, <2>2, ResultsAreFirst DEF Tellable
  <2>4. QED
    BY <2>3 DEF m
<1>6. ASSUME NEW i \in 1..Len(h), NEW j \in 1..Len(h), i < j, NEW f, NEW g, Utters(h[i], f), Utters(h[j], g)
      PROVE  Precedes(f, g)
  BY <1>2, <1>4, <1>6 DEF Precedes
<1>7. ASSUME NEW i \in 1..Len(h), NEW f, Utters(h[i], f) PROVE Utterance(f) <= Len(h)
  BY <1>2, <1>4, <1>7
<1>8. QED
  BY <1>1, <1>5, <1>6, <1>7 DEF Recent, Consecutive

\* One message more, all of it new.
LEMMA RecentMore ==
    ASSUME NEW d, NEW h \in Seq(Utterable(d)), NEW m \in Tellable(d), NEW c \in Nat, NEW e \in Nat,
           c <= e, Recent(d, h, c), \A f : Utters(m, f) => c < Utterance(f) /\ Utterance(f) <= e
    PROVE  Recent(d, Append(h, m), e) /\ Recent(d, h \o <<m>>, e)
<1> DEFINE s == <<m>>
<1>1. s \in Seq(Utterable(d)) /\ Append(h, m) = h \o s
  BY AppendIsConcat DEF Tellable
<1>2. Consecutive(d, s) /\ \A j \in 1..Len(s) : s[j] = m
  BY ConsecutiveOne
<1> HIDE DEF s
<1>3. QED
  BY <1>1, <1>2, RecentJoins DEF s

\* What the user says is (Say).
LEMMA SaidIsRecent ==
    ASSUME NEW d \in Dialect, NEW h \in Seq(Utterable(d)), NEW c \in Nat, Recent(d, h, c)
    PROVE  Recent(d, Append(h, Message("user", <<Piece("text", None, <<Fragment(c + 1, 1)>>, "string")>>)), c + 1)
<1> DEFINE text == <<Fragment(c + 1, 1)>>
           p == Piece("text", None, text, "string")
           m == Message("user", <<p>>)
<1>1. c + 1 \in Nat /\ 1 \in Nat /\ c < c + 1 /\ c <= c + 1 /\ c + 1 <= c + 1
  OBVIOUS
<1>2. Utterance(Fragment(c + 1, 1)) = c + 1 /\ text \in Seq(Nat)
  BY <1>1, Numbered, FragmentTyped
<1>3. p.text = text /\ p.kind = "text"
  BY DEF Piece
<1>4. OnlyOnce(text) /\ ToSet(text) = {Fragment(c + 1, 1)}
  BY OneFragment
<1>5. m \in Utterable(d)
  BY <1>2, SaidIsUtterable
<1> HIDE DEF text, p
<1>6. /\ m.role = "user" /\ NoneRepeats(m.pieces)
      /\ \A i \in 1..Len(m.pieces) : m.pieces[i] = p
      /\ \A f : Utters(m, f) <=> f \in ToSet(p.text)
  BY <1>3, <1>4, OneRepeats
<1> HIDE DEF m
<1>7. ResultsFirst(m.pieces)
  BY <1>3, <1>5, <1>6, ResultsAreFirst
<1>8. m \in Tellable(d)
  BY <1>3, <1>5, <1>6, <1>7 DEF Tellable, InPlace
<1>9. \A f : Utters(m, f) => c < Utterance(f) /\ Utterance(f) <= c + 1
  BY <1>1, <1>2, <1>3, <1>4, <1>6
<1> DEFINE e == c + 1
<1>10. e \in Nat /\ c <= e /\ \A f : Utters(m, f) => c < Utterance(f) /\ Utterance(f) <= e
  BY <1>1, <1>9
<1> HIDE DEF e
<1>11. Recent(d, Append(h, m), e)
  BY <1>8, <1>10, RecentMore
<1>12. QED
  BY <1>11 DEF m, p, text, e

\* One result.
LEMMA ResultHolds ==
    ASSUME clock \in Nat, owed \in Seq(CallId), NEW i \in 1..Len(owed)
    PROVE  /\ Result(i).kind = "output" /\ OnlyOnce(Result(i).text)
           /\ \A f : f \in ToSet(Result(i).text) <=> f = Fragment(clock + i, 1)
           /\ Utterance(Fragment(clock + i, 1)) = clock + i
<1>1. clock + i \in Nat
  BY LenProperties
<1>2. Utterance(Fragment(clock + i, 1)) = clock + i
  BY <1>1, Numbered
<1>3. Result(i).kind = "output" /\ Result(i).text = <<Fragment(clock + i, 1)>>
  BY DEF Result, Piece
<1>4. QED
  BY <1>2, <1>3, OneFragment

\* Results, each in a message of its own.
LEMMA ResultsAreRecent ==
    ASSUME NEW d \in Dialect, d = dialect, d # "anthropic", ReturnResults, clock \in Nat, owed \in Seq(CallId),
           history \in Seq(Utterable(d)), Recent(d, history, clock)
    PROVE  Recent(d, history', clock')
<1> DEFINE n == Len(owed)
           results == [i \in 1..Len(owed) |-> Result(i)]
           e(i) == Message("tool", <<results[i]>>)
           s == [i \in 1..n |-> e(i)]
<1>1. n \in Nat /\ history' = history \o s /\ clock' = clock + n
  BY LenProperties DEF ReturnResults
<1>2. ASSUME NEW i \in 1..n
      PROVE  /\ e(i) \in Tellable(d)
             /\ \A f : Utters(e(i), f) <=> f = Fragment(clock + i, 1)
  <2> DEFINE p == Result(i)
             m == e(i)
  <2>1. m = Message("tool", <<p>>)
    OBVIOUS
  <2>2. p \in NamedPiece /\ p.kind = "output"
    BY ResultTyped
  <2>3. /\ OnlyOnce(p.text)
        /\ \A f : f \in ToSet(p.text) <=> f = Fragment(clock + i, 1)
        /\ Utterance(Fragment(clock + i, 1)) = clock + i
    BY ResultHolds
  <2> HIDE DEF p, m, e
  <2>4. m \in Utterable(d)
    BY <2>1, <2>2, MakesUtterable, OnePiece
  <2>5. /\ m.role = "tool" /\ NoneRepeats(m.pieces)
        /\ \A j \in 1..Len(m.pieces) : m.pieces[j] = p
        /\ \A f : Utters(m, f) <=> f \in ToSet(p.text)
    BY <2>1, <2>3, OneRepeats
  <2>6. ResultsFirst(m.pieces)
    BY <1>1, <2>3, <2>4, <2>5, ResultsAreFirst
  <2>7. m \in Tellable(d)
    BY <2>2, <2>4, <2>5, <2>6 DEF Tellable, InPlace
  <2>8. QED
    BY <2>3, <2>5, <2>7 DEF m
<1>3. \A i \in 1..n : Utterance(Fragment(clock + i, 1)) = clock + i
  BY ResultHolds
<1>4. \A i \in 1..n : e(i) \in Utterable(d)
  BY <1>2 DEF Tellable
<1> HIDE DEF e, results
<1>5. s \in Seq(Utterable(d)) /\ Len(s) = n /\ \A i \in 1..n : s[i] = e(i)
  BY <1>1, <1>4
<1> HIDE DEF s
<1>6. ASSUME NEW i \in 1..n, NEW j \in 1..n, i < j, NEW f, NEW g, Utters(s[i], f), Utters(s[j], g) PROVE Precedes(f, g)
  BY <1>1, <1>2, <1>3, <1>5, <1>6 DEF Precedes
<1>7. Consecutive(d, s)
  BY <1>2, <1>5, <1>6 DEF Consecutive
<1>8. ASSUME NEW i \in 1..n, NEW f, Utters(s[i], f) PROVE clock < Utterance(f) /\ Utterance(f) <= clock + n
  BY <1>1, <1>2, <1>3, <1>5, <1>8
<1> DEFINE c == clock + n
<1>9. c \in Nat /\ clock <= c /\ \A i \in 1..Len(s) : \A f : Utters(s[i], f) => clock < Utterance(f) /\ Utterance(f) <= c
  BY <1>1, <1>5, <1>8
<1>9a. clock' = c
  BY <1>1
<1> HIDE DEF c
<1>10. Recent(d, history \o s, c)
  BY <1>5, <1>7, <1>9, RecentJoins
<1>11. QED
  BY <1>1, <1>9a, <1>10

Speaks(pieces, f) == \E i \in 1..Len(pieces) : f \in ToSet(pieces[i].text)

\* Pieces behind pieces.
LEMMA PiecesJoin ==
    ASSUME NEW C, NEW ps \in Seq(C), NEW qs \in Seq(C)
    PROVE  /\ \A f : Speaks(ps \o qs, f) => Speaks(ps, f) \/ Speaks(qs, f)
           /\ NoneRepeats(ps) /\ NoneRepeats(qs) /\ (\A f : ~(Speaks(ps, f) /\ Speaks(qs, f))) => NoneRepeats(ps \o qs)
<1> DEFINE u == ps \o qs
           n == Len(ps)
           k == Len(qs)
<1>1. /\ n \in Nat /\ k \in Nat /\ Len(u) = n + k
      /\ \A i \in 1..(n + k) : u[i] = IF i <= n THEN ps[i] ELSE qs[i - n]
  BY LenProperties, ConcatProperties
<1> HIDE DEF u
<1>2. ASSUME NEW i \in 1..(n + k)
      PROVE  (i \in 1..n /\ u[i] = ps[i]) \/ (i - n \in 1..k /\ u[i] = qs[i - n])
  BY <1>1
<1>3. ASSUME NEW f, Speaks(u, f) PROVE Speaks(ps, f) \/ Speaks(qs, f)
  <2>1. PICK i \in 1..(n + k) : f \in ToSet(u[i].text)
    BY <1>1, <1>3 DEF Speaks
  <2>2. QED
    BY <1>2, <2>1 DEF Speaks
<1>4. ASSUME NoneRepeats(ps), NoneRepeats(qs), \A f : ~(Speaks(ps, f) /\ Speaks(qs, f))
      PROVE  NoneRepeats(u)
  <2>1. ASSUME NEW i \in 1..(n + k) PROVE OnlyOnce(u[i].text)
    BY <1>2, <1>4 DEF NoneRepeats
  <2>2. ASSUME NEW i \in 1..(n + k), NEW j \in 1..(n + k), i # j, NEW f,
               f \in ToSet(u[i].text), f \in ToSet(u[j].text)
        PROVE  FALSE
    <3>1. CASE i \in 1..n /\ u[i] = ps[i] /\ j \in 1..n /\ u[j] = ps[j]
      BY <1>4, <2>2, <3>1 DEF NoneRepeats
    <3>2. CASE i - n \in 1..k /\ u[i] = qs[i - n] /\ j - n \in 1..k /\ u[j] = qs[j - n]
      <4>1. i - n # j - n
        BY <1>1, <2>2
      <4>2. QED
        BY <1>4, <2>2, <3>2, <4>1 DEF NoneRepeats
    <3>3. CASE i \in 1..n /\ u[i] = ps[i] /\ j - n \in 1..k /\ u[j] = qs[j - n]
      BY <1>4, <2>2, <3>3 DEF Speaks
    <3>4. CASE i - n \in 1..k /\ u[i] = qs[i - n] /\ j \in 1..n /\ u[j] = ps[j]
      BY <1>4, <2>2, <3>4 DEF Speaks
    <3>5. QED
      BY <1>2, <3>1, <3>2, <3>3, <3>4
  <2>3. QED
    BY <1>1, <2>1, <2>2 DEF NoneRepeats
<1>5. QED
  BY <1>3, <1>4 DEF u

\* Results in one message (ReturnResults of an Anthropic client).
LEMMA ResultsAtOnce ==
    ASSUME NEW d \in Dialect, d = dialect, d = "anthropic", ReturnResults, clock \in Nat, owed \in Seq(CallId),
           history \in Seq(Utterable(d)), Recent(d, history, clock)
    PROVE  Recent(d, history', clock')
<1> DEFINE n == Len(owed)
           c == clock + n
           results == [i \in 1..Len(owed) |-> Result(i)]
           p == Piece("text", None, <<Fragment(clock + Len(owed), 2)>>, "parts")
           remark == <<p>>
           g == [i \in 1..(n + 1) |-> IF i <= n THEN Fragment(clock + i, 1) ELSE Fragment(clock + n, 2)]
<1>1. n \in Nat /\ c \in Nat /\ clock <= c /\ clock' = c
  BY LenProperties DEF ReturnResults
<1>1a. n >= 1
  BY <1>1, EmptySeq DEF ReturnResults
<1>2. PICK more \in {<<>>, remark} : history' = Append(history, Message("user", results \o more))
  BY DEF ReturnResults
<1>3. \A i \in 1..n : results[i] = Result(i) /\ Result(i) \in NamedPiece /\ Result(i).kind = "output"
  BY ResultTyped
<1>4. results \in Seq(NamedPiece) /\ Len(results) = n
  BY <1>1, <1>3
<1>5. p \in NamedPiece /\ p.kind = "text" /\ p.text = <<Fragment(c, 2)>>
  BY <1>1, FragmentTyped, PieceTyped DEF PieceKind, Form, Piece
<1>6. /\ \A i \in 1..n : g[i] = Fragment(clock + i, 1)
      /\ g[n + 1] = Fragment(c, 2)
  BY <1>1
<1>7. /\ \A i \in 1..n : Utterance(g[i]) = clock + i /\ clock + i \in Nat
      /\ Utterance(g[n + 1]) = c
  <2>1. \A i \in 1..n : clock + i \in Nat
    BY <1>1
  <2> HIDE DEF g, c
  <2>2. QED
    BY <1>1, <1>6, <2>1, Numbered
<1>8. \A i, j \in 1..(n + 1) : g[i] = g[j] => i = j
  <2>1. Fragment(c, 1) # Fragment(c, 2)
    BY <1>1, Numbered
  <2>2. ASSUME NEW i \in 1..n PROVE g[i] # g[n + 1]
    <3>1. CASE i = n
      <4>1. g[i] = Fragment(c, 1)
        BY <1>6, <2>2, <3>1
      <4> HIDE DEF g
      <4>2. QED
        BY <1>6, <2>1, <4>1
    <3>2. CASE i # n
      <4>1. clock + i # c
        BY <1>1, <2>2, <3>2
      <4> HIDE DEF g, c
      <4>2. QED
        BY <1>7, <2>2, <4>1
    <3>3. QED
      BY <3>1, <3>2
  <2>3. ASSUME NEW i \in 1..n, NEW j \in 1..n, g[i] = g[j] PROVE i = j
    <3>1. clock + i = clock + j
      <4> HIDE DEF g
      <4>1. QED
        BY <1>7, <2>3
    <3>2. QED
      BY <1>1, <3>1
  <2>4. \A i \in 1..(n + 1) : i \in 1..n \/ i = n + 1
    BY <1>1
  <2> HIDE DEF g
  <2>5. QED
    BY <2>2, <2>3, <2>4
<1> DEFINE ps == results \o more
           k == Len(ps)
<1>9. /\ ps \in Seq(NamedPiece) /\ k \in n..(n + 1)
      /\ \A i \in 1..n : ps[i] = Result(i)
      /\ \A i \in 1..k : i \in 1..n \/ (i = n + 1 /\ ps[i] = p)
  <2> HIDE DEF results, p, ps
  <2>1. CASE more = <<>>
    BY <1>1, <1>3, <1>4, <2>1, ConcatEmptySeq DEF ps
  <2>2. CASE more = remark
    BY <1>1, <1>3, <1>4, <1>5, <2>2, AppendIsConcat, AppendProperties DEF ps
  <2>3. QED
    BY <1>2, <2>1, <2>2
<1> HIDE DEF results, g, ps, p
<1>10. \A i \in 1..k : i \in 1..(n + 1) /\ ps[i].text = <<g[i]>> /\ ps[i].kind # "call"
  <2>1. \A i \in 1..n : Result(i).text = <<Fragment(clock + i, 1)>> /\ Result(i).kind = "output"
    BY DEF Result, Piece
  <2>2. \A i \in 1..k : i \in 1..(n + 1)
    BY <1>1, <1>9
  <2>3. QED
    BY <1>5, <1>6, <1>9, <2>1, <2>2
<1>10a. \A i \in 1..k : OnlyOnce(ps[i].text) /\ \A f \in ToSet(ps[i].text) : f = g[i]
  <2>1. ASSUME NEW i \in 1..k PROVE OnlyOnce(ps[i].text) /\ ToSet(ps[i].text) = {g[i]}
    BY <1>10, OneFragment
  <2>2. QED
    BY <2>1
<1>11. NoneRepeats(ps) /\ \A f : Speaks(ps, f) => \E i \in 1..k : f = g[i]
  BY <1>8, <1>10a, <1>10 DEF NoneRepeats, Speaks
<1>12. ResultsFirst(ps)
  <2>1. ASSUME NEW i \in 1..k, NEW j \in 1..k, ps[i].kind = "output",
               ps[j].kind = "text" \/ (ps[j].kind = "output" /\ i < j),
               NEW f \in ToSet(ps[i].text), NEW x \in ToSet(ps[j].text)
        PROVE  Utterance(f) <= Utterance(x)
    <3>1. f = g[i] /\ x = g[j]
      BY <1>10a
    <3>2. i \in 1..n
      BY <1>5, <1>9, <2>1
    <3>3. CASE j \in 1..n
      <4>1. ps[j].kind = "output" /\ i < j
        BY <1>3, <1>9, <2>1, <3>3
      <4>2. clock + i <= clock + j
        BY <1>1, <3>2, <3>3, <4>1
      <4>3. QED
        BY <1>7, <3>1, <3>2, <3>3, <4>2
    <3>4. CASE j = n + 1
      BY <1>1, <1>7, <3>1, <3>2, <3>4
    <3>5. QED
      BY <1>9, <3>3, <3>4
  <2>2. QED
    BY <2>1 DEF ResultsFirst
<1> DEFINE m == Message("user", ps)
<1>13. m \in Utterable(d)
  BY <1>9, MakesUtterable
<1>14. m.role = "user" /\ m.pieces = ps
  BY DEF Message
<1> HIDE DEF m
<1>15. m \in Tellable(d)
  BY <1>10, <1>11, <1>12, <1>13, <1>14 DEF InPlace, Tellable
<1>16. ASSUME NEW f, Utters(m, f) PROVE clock < Utterance(f) /\ Utterance(f) <= c
  <2>1. PICK i \in 1..k : f = g[i]
    BY <1>11, <1>14, <1>16 DEF Utters, Speaks
  <2>2. CASE i \in 1..n
    BY <1>1, <1>7, <2>1, <2>2
  <2>3. CASE i = n + 1
    BY <1>1, <1>1a, <1>7, <2>1, <2>3
  <2>4. QED
    BY <1>9, <2>2, <2>3
<1> HIDE DEF c
<1>17. QED
  BY <1>1, <1>2, <1>15, <1>16, RecentMore DEF m, ps

\* The fragments of an answer (Respond).
LEMMA AnswerHolds ==
    ASSUME clock \in Nat, NEW shape \in Shapes, NEW a, a = Answer(shape)
    PROVE  /\ a.reasoning = <<>> \/ a.reasoning = <<Fragment(clock + 1, 1)>>
           /\ a.text = <<>> \/ a.text = <<Fragment(clock + 1, 2)>>
           /\ Few(Len(a.calls))
           /\ \A i \in 1..Len(a.calls) : a.calls[i].body = <<Fragment(clock + 1, 2 + i)>>
<1> DEFINE asked == shape.calls
           e(i) == [id |-> asked[i].id, body |-> <<Fragment(clock + 1, 2 + i)>>, form |-> asked[i].form]
           calls == a.calls
<1>1. Few(Len(asked)) /\ Len(asked) \in Nat
  <2>1. asked \in Seq([id : CallId, form : {"json", "broken"}])
    BY ConversationAssumption
  <2>2. Len(asked) + 2 < Stride
    BY NumberingAssumption
  <2> HIDE DEF asked
  <2>3. QED
    BY <2>1, <2>2, LenProperties DEF Few
<1>2. /\ a.reasoning = IF shape.reasoning THEN <<Fragment(clock + 1, 1)>> ELSE <<>>
      /\ a.text = IF shape.text THEN <<Fragment(clock + 1, 2)>> ELSE <<>>
      /\ calls = [i \in 1..Len(asked) |-> e(i)]
  BY DEF Answer
<1>3. \A i \in 1..Len(asked) : e(i).body = <<Fragment(clock + 1, 2 + i)>>
  OBVIOUS
<1> HIDE DEF asked, calls, e
<1>4. QED
  BY <1>1, <1>2, <1>3 DEF calls

\* A piece that may be missing.
LEMMA OptionalApart ==
    ASSUME NEW kind, NEW text, NEW form, NEW x, text = <<>> \/ text = <<x>>
    PROVE  LET ps == When(text # <<>>, <<Piece(kind, None, text, form)>>)
           IN  NoneRepeats(ps) /\ \A f : Speaks(ps, f) => f = x
<1> DEFINE p == Piece(kind, None, text, form)
           ps == When(text # <<>>, <<p>>)
<1>1. p.text = text
  BY DEF Piece
<1> HIDE DEF p
<1>2. Len(<<>>) = 0 /\ 1..0 = {} /\ Len(<<p>>) = 1 /\ <<p>>[1] = p /\ \A i \in 1..1 : i = 1
  BY EmptySeq
<1>3. \A i \in 1..Len(ps) : ps[i] = p /\ i = 1
  BY <1>2 DEF When
<1>4. OnlyOnce(text) /\ \A f \in ToSet(text) : f = x
  BY OneFragment
<1> HIDE DEF ps
<1>5. \A f : Speaks(ps, f) => f = x
  BY <1>1, <1>3, <1>4 DEF Speaks
<1>6. QED
  BY <1>1, <1>3, <1>4, <1>5 DEF ps, p, NoneRepeats

\* What an answer is made of: all of one utterance, and each fragment once.
LEMMA MadeApart ==
    ASSUME NEW u \in Nat, NEW a \in CanonicalAnswer, NEW f \in Form, NEW g \in Form, NEW cs \in Seq(CallPiece),
           a.reasoning = <<>> \/ a.reasoning = <<Fragment(u, 1)>>,
           a.text = <<>> \/ a.text = <<Fragment(u, 2)>>,
           Few(Len(cs)),
           \A i \in 1..Len(cs) : cs[i].text = <<>> \/ cs[i].text = <<Fragment(u, 2 + i)>>
    PROVE  /\ Made(a, f, g, cs) \in Seq(AnswerPiece) /\ NoneRepeats(Made(a, f, g, cs))
           /\ \A x : Speaks(Made(a, f, g, cs), x) => Utterance(x) = u
<1> DEFINE t == Thought(a, f)
           s == Spoken(a, g)
           ts == t \o s
           v == Made(a, f, g, cs)
<1>1. /\ t \in Seq(AnswerPiece) /\ s \in Seq(AnswerPiece) /\ cs \in Seq(AnswerPiece)
      /\ ts \in Seq(AnswerPiece) /\ v \in Seq(AnswerPiece) /\ v = ts \o cs
  BY MadeTyped DEF Made
<1>2. NoneRepeats(t) /\ \A x : Speaks(t, x) => x = Fragment(u, 1)
  BY OptionalApart DEF Thought
<1>3. NoneRepeats(s) /\ \A x : Speaks(s, x) => x = Fragment(u, 2)
  <2> DEFINE text == a.text
             x == Fragment(u, 2)
             ps == When(text # <<>>, <<Piece("text", None, text, g)>>)
  <2>1. text = <<>> \/ text = <<x>>
    OBVIOUS
  <2> HIDE DEF text, x
  <2>2. NoneRepeats(ps) /\ \A y : Speaks(ps, y) => y = x
    BY <2>1, OptionalApart
  <2>3. s = ps
    BY DEF Spoken, text
  <2> HIDE DEF ps, s
  <2>4. QED
    BY <2>2, <2>3 DEF x
<1>4. /\ 1 \in Slot /\ 2 \in Slot /\ 1 # 2
      /\ \A i \in 1..Len(cs) : 2 + i \in Slot /\ 2 + i # 1 /\ 2 + i # 2
  BY Numbered
<1>5. \A n, k \in Slot : Fragment(u, n) = Fragment(u, k) => n = k
  BY Numbered
<1>6. \A n \in Slot : Utterance(Fragment(u, n)) = u
  BY Numbered
<1>7. ASSUME NEW i \in 1..Len(cs)
      PROVE  OnlyOnce(cs[i].text) /\ \A x \in ToSet(cs[i].text) : x = Fragment(u, 2 + i)
  BY OneFragment
<1>8. NoneRepeats(cs) /\ \A x : Speaks(cs, x) => \E i \in 1..Len(cs) : x = Fragment(u, 2 + i)
  <2>1. ASSUME NEW i \in 1..Len(cs), NEW j \in 1..Len(cs), i # j PROVE Fragment(u, 2 + i) # Fragment(u, 2 + j)
    BY <1>4, <1>5, <2>1
  <2>2. QED
    BY <1>7, <2>1 DEF NoneRepeats, Speaks
<1> HIDE DEF t, s, ts, v
<1>9. NoneRepeats(ts) /\ \A x : Speaks(ts, x) => x = Fragment(u, 1) \/ x = Fragment(u, 2)
  BY <1>1, <1>2, <1>3, <1>4, <1>5, PiecesJoin DEF ts
<1>10. \A x : ~(Speaks(ts, x) /\ Speaks(cs, x))
  <2>1. ASSUME NEW x, Speaks(ts, x), Speaks(cs, x) PROVE FALSE
    <3>1. PICK i \in 1..Len(cs) : x = Fragment(u, 2 + i)
      BY <1>8, <2>1
    <3>2. x = Fragment(u, 1) \/ x = Fragment(u, 2)
      BY <1>9, <2>1
    <3>3. QED
      BY <1>4, <1>5, <3>1, <3>2
  <2>2. QED
    BY <2>1
<1>11. /\ \A x : Speaks(v, x) => Speaks(ts, x) \/ Speaks(cs, x)
       /\ NoneRepeats(v)
  BY <1>1, <1>8, <1>9, <1>10, PiecesJoin
<1>12. ASSUME NEW x, Speaks(v, x) PROVE Utterance(x) = u
  <2>1. CASE Speaks(ts, x)
    BY <1>4, <1>6, <1>9, <2>1
  <2>2. CASE Speaks(cs, x)
    <3>1. PICK i \in 1..Len(cs) : x = Fragment(u, 2 + i)
      BY <1>8, <2>2
    <3>2. QED
      BY <1>4, <1>6, <3>1
  <2>3. QED
    BY <1>11, <1>12, <2>1, <2>2
<1>13. QED
  BY <1>1, <1>11, <1>12 DEF v

\* A turn in one message.
LEMMA TurnIsRecent ==
    ASSUME NEW d, NEW h \in Seq(Utterable(d)), NEW c \in Nat, Recent(d, h, c),
           NEW ps \in Seq(AnswerPiece), NoneRepeats(ps), \A f : Speaks(ps, f) => Utterance(f) = c + 1,
           Message("assistant", ps) \in Utterable(d)
    PROVE  Recent(d, h \o <<Message("assistant", ps)>>, c + 1)
<1> DEFINE m == Message("assistant", ps)
           e == c + 1
<1>1. m.role = "assistant" /\ m.pieces = ps /\ m \in Utterable(d)
  BY DEF Message
<1>2. e \in Nat /\ c < e /\ c <= e /\ e <= e
  OBVIOUS
<1>3. \A i \in 1..Len(ps) : ps[i].kind # "output"
  BY ElementOfSeq DEF AnswerPiece
<1> HIDE DEF m, e
<1>4. ResultsFirst(m.pieces)
  BY <1>1, <1>3, ResultsAreFirst
<1>5. m \in Tellable(d)
  BY <1>1, <1>3, <1>4 DEF Tellable, InPlace
<1>6. \A f : Utters(m, f) => c < Utterance(f) /\ Utterance(f) <= e
  BY <1>1, <1>2 DEF Utters, Speaks, e
<1>7. QED
  BY <1>2, <1>5, <1>6, RecentMore DEF m, e

\* A turn in items.
LEMMA ItemsAreRecent ==
    ASSUME NEW h \in Seq(Utterable("responses")), NEW c \in Nat, Recent("responses", h, c),
           NEW ps \in Seq(AnswerPiece), NoneRepeats(ps), \A f : Speaks(ps, f) => Utterance(f) = c + 1
    PROVE  Recent("responses", h \o Items(ps), c + 1)
<1> DEFINE d == "responses"
           is == Items(ps)
           n == Len(ps)
           e == c + 1
           item(i) == Message("assistant", <<ps[i]>>)
<1>1. is \in Seq(Utterable(d)) /\ Len(is) = n /\ n \in Nat
  BY ItemsTyped, LenProperties
<1>2. \A i \in 1..n : is[i] = item(i)
  BY DEF Items
<1>3. \A i \in 1..n : ps[i].kind # "output" /\ OnlyOnce(ps[i].text)
  BY ElementOfSeq DEF AnswerPiece, NoneRepeats
<1>4. e \in Nat /\ c < e /\ c <= e /\ e <= e
  OBVIOUS
<1>5. ASSUME NEW i \in 1..n
      PROVE  is[i] \in Tellable(d) /\ \A f : Utters(is[i], f) <=> f \in ToSet(ps[i].text)
  <2> DEFINE m == is[i]
             p == ps[i]
  <2>1. m = Message("assistant", <<p>>)
    BY <1>2
  <2>2. OnlyOnce(p.text) /\ p.kind # "output"
    BY <1>3
  <2>3. m \in Utterable(d)
    BY <1>1, ElementOfSeq
  <2> HIDE DEF m, p
  <2>4. /\ m.role = "assistant" /\ NoneRepeats(m.pieces)
        /\ \A j \in 1..Len(m.pieces) : m.pieces[j] = p
        /\ \A f : Utters(m, f) <=> f \in ToSet(p.text)
    BY <2>1, <2>2, OneRepeats
  <2>5. ResultsFirst(m.pieces)
    BY <2>2, <2>3, <2>4, ResultsAreFirst
  <2>6. m \in Tellable(d)
    BY <2>2, <2>3, <2>4, <2>5 DEF Tellable, InPlace
  <2>7. QED
    BY <2>4, <2>6 DEF m, p
<1> HIDE DEF is, item, e
<1>6. ASSUME NEW i \in 1..n, NEW f, Utters(is[i], f) PROVE Utterance(f) = e
  BY <1>5, <1>6 DEF Speaks, e
<1>7. ASSUME NEW i \in 1..n, NEW j \in 1..n, i < j, NEW f, NEW g, Utters(is[i], f), Utters(is[j], g)
      PROVE  Precedes(f, g)
  <2>1. i # j
    BY <1>1, <1>7
  <2>2. f # g
    <3>1. ToSet(ps[i].text) \cap ToSet(ps[j].text) = {}
      BY <2>1 DEF NoneRepeats
    <3>2. QED
      BY <1>5, <1>7, <3>1
  <2>3. QED
    BY <1>4, <1>6, <1>7, <2>2 DEF Precedes
<1>8. Consecutive(d, is)
  BY <1>1, <1>5, <1>7 DEF Consecutive
<1>9. Recent(d, h \o is, e)
  BY <1>1, <1>4, <1>6, <1>8, RecentJoins
<1>10. QED
  BY <1>9 DEF is, e

\* The calls of an answer, and their inputs.
LEMMA CallsHold ==
    ASSUME NEW a \in CanonicalAnswer
    PROVE  /\ CallPieces(a) \in Seq(CallPiece) /\ Len(CallPieces(a)) = Len(a.calls)
           /\ \A i \in 1..Len(a.calls) : CallPieces(a)[i].text = a.calls[i].body
           /\ Inputs(a) \in Seq(CallPiece) /\ Len(Inputs(a)) = Len(a.calls)
           /\ \A i \in 1..Len(a.calls) : Inputs(a)[i].text = <<>> \/ Inputs(a)[i].text = a.calls[i].body
<1> DEFINE calls == a.calls
           made(i) == Piece("call", calls[i].id, calls[i].body, calls[i].form)
           cs == CallPieces(a)
           is == Inputs(a)
<1>1. cs \in Seq(CallPiece) /\ Len(cs) = Len(calls)
  BY AskedTyped
<1>2. is \in Seq(CallPiece) /\ Len(is) = Len(cs)
  BY InputsTyped
<1>3. cs = [i \in 1..Len(calls) |-> made(i)]
  BY DEF CallPieces
<1>4. is = [i \in 1..Len(cs) |-> AsInput(cs[i])]
  BY DEF Inputs
<1>5. \A i \in 1..Len(calls) : made(i).text = calls[i].body
  BY DEF Piece
<1>6. \A p : AsInput(p).text = <<>> \/ AsInput(p).text = p.text
  BY DEF AsInput, Piece
<1> HIDE DEF calls, made, cs, is
<1>7. \A i \in 1..Len(calls) : cs[i].text = calls[i].body
  BY <1>3, <1>5
<1>8. \A i \in 1..Len(calls) : is[i].text = <<>> \/ is[i].text = calls[i].body
  BY <1>1, <1>4, <1>6, <1>7
<1>9. QED
  BY <1>1, <1>2, <1>7, <1>8 DEF calls, cs, is

\* What comes back to the client is all new (Respond).
LEMMA AnswerIsRecent ==
    ASSUME NEW d \in Dialect, d = dialect, clock \in Nat, history \in Seq(Utterable(d)), Recent(d, history, clock),
           NEW shape \in Shapes, NEW answer, answer = Answer(shape)
    PROVE  Recent(d, history \o Echo(answer), clock + 1)
<1> DEFINE u == clock + 1
           a == Plain(answer)
           k == Len(answer.calls)
           cs == CallPieces(answer)
           is == Inputs(a)
<1>1. u \in Nat
  OBVIOUS
<1>2. answer \in CanonicalAnswer
  BY AnswerTyped
<1>3. /\ answer.reasoning = <<>> \/ answer.reasoning = <<Fragment(u, 1)>>
      /\ answer.text = <<>> \/ answer.text = <<Fragment(u, 2)>>
      /\ Few(k)
      /\ \A i \in 1..k : answer.calls[i].body = <<Fragment(u, 2 + i)>>
  BY AnswerHolds
<1>4. /\ a \in CanonicalAnswer /\ a.key # "hidden" /\ a.text = answer.text /\ a.calls = answer.calls
      /\ CallPieces(a) = cs /\ Deltas(a) = Deltas(answer)
  BY <1>2, PlainIsSame
<1>5. a.reasoning = <<>> \/ a.reasoning = <<Fragment(u, 1)>>
  <2>1. a.reasoning = <<>> \/ a.reasoning = answer.reasoning
    BY DEF Plain, ReasoningOf
  <2> HIDE DEF a
  <2>2. QED
    BY <1>3, <2>1
<1> HIDE DEF u, a
<1>6. cs \in Seq(CallPiece) /\ Len(cs) = k /\ \A i \in 1..k : cs[i].text = <<Fragment(u, 2 + i)>>
  <2>1. /\ cs \in Seq(CallPiece) /\ Len(cs) = k
        /\ \A i \in 1..k : cs[i].text = answer.calls[i].body
    BY <1>2, CallsHold
  <2> HIDE DEF cs, k
  <2>2. QED
    BY <1>3, <2>1
<1>7. /\ is \in Seq(CallPiece) /\ Len(is) = k
      /\ \A i \in 1..k : is[i].text = <<>> \/ is[i].text = <<Fragment(u, 2 + i)>>
  <2>1. /\ is \in Seq(CallPiece) /\ Len(is) = k
        /\ \A i \in 1..k : is[i].text = <<>> \/ is[i].text = answer.calls[i].body
    BY <1>4, CallsHold
  <2> HIDE DEF is, k
  <2>2. QED
    BY <1>3, <2>1
<1>8. <<>> \in Seq(CallPiece) /\ Len(<<>>) = 0 /\ 1..0 = {} /\ Few(0)
  BY EmptySeq, Numbered
<1>9. /\ "summary" \in Form /\ "parts" \in Form /\ "string" \in Form
      /\ "reasoning_content" \in Form /\ "reasoning" \in Form
  BY DEF Form
<1> HIDE DEF cs, is, k
<1>8a. ASSUME NEW f \in Form, NEW g \in Form, NEW b \in CanonicalAnswer, NEW ks \in Seq(CallPiece),
              Few(Len(ks)), \A i \in 1..Len(ks) : ks[i].text = <<>> \/ ks[i].text = <<Fragment(u, 2 + i)>>,
              b.reasoning = <<>> \/ b.reasoning = <<Fragment(u, 1)>>,
              b.text = answer.text
       PROVE  LET ps == Made(b, f, g, ks)
              IN  ps \in Seq(AnswerPiece) /\ NoneRepeats(ps) /\ \A x : Speaks(ps, x) => Utterance(x) = clock + 1
  <2> DEFINE ps == Made(b, f, g, ks)
  <2>1. ps \in Seq(AnswerPiece) /\ NoneRepeats(ps) /\ \A x : Speaks(ps, x) => Utterance(x) = u
    BY <1>1, <1>3, <1>8a, MadeApart
  <2> HIDE DEF ps
  <2>2. QED
    BY <2>1 DEF u, ps
<1>10. CASE d = "responses"
  <2> DEFINE ks == IF repeats THEN cs ELSE <<>>
             ps == Made(a, "summary", "parts", ks)
  <2>1. Echo(answer) = Items(ps)
    BY <1>2, <1>10, ResponsesKeeps DEF a, cs
  <2>2. /\ ks \in Seq(CallPiece) /\ Few(Len(ks))
        /\ \A i \in 1..Len(ks) : ks[i].text = <<>> \/ ks[i].text = <<Fragment(u, 2 + i)>>
    <3>1. CASE repeats
      <4>1. ks = cs
        BY <3>1
      <4> HIDE DEF ks
      <4>2. QED
        BY <1>3, <1>6, <4>1
    <3>2. CASE ~repeats
      <4>1. ks = <<>>
        BY <3>2
      <4> HIDE DEF ks
      <4>2. QED
        BY <1>8, <4>1
    <3>3. QED
      BY <3>1, <3>2
  <2> HIDE DEF ks
  <2>3. ps \in Seq(AnswerPiece) /\ NoneRepeats(ps) /\ \A f : Speaks(ps, f) => Utterance(f) = clock + 1
    BY <1>4, <1>5, <1>9, <1>8a, <2>2
  <2> HIDE DEF ps
  <2>4. Recent("responses", history \o Items(ps), clock + 1)
    BY <1>10, <2>3, ItemsAreRecent
  <2>5. QED
    BY <1>10, <2>1, <2>4
<1>11. ASSUME NEW f \in Form, NEW g \in Form, NEW b \in CanonicalAnswer, NEW ks \in Seq(CallPiece),
              Len(ks) = k, \A i \in 1..k : ks[i].text = <<>> \/ ks[i].text = <<Fragment(u, 2 + i)>>,
              b.reasoning = <<>> \/ b.reasoning = <<Fragment(u, 1)>>,
              b.text = answer.text,
              Echo(answer) = <<Message("assistant", Made(b, f, g, ks))>>
       PROVE  Recent(d, history \o Echo(answer), clock + 1)
  <2> DEFINE ps == Made(b, f, g, ks)
             m == Message("assistant", ps)
  <2>1. ps \in Seq(AnswerPiece) /\ NoneRepeats(ps) /\ \A x : Speaks(ps, x) => Utterance(x) = clock + 1
    BY <1>3, <1>8a, <1>11
  <2>2. m \in Utterable(d)
    <3>1. <<m>> \in Seq(Utterable(d))
      BY <1>2, <1>11, EchoTyped
    <3> HIDE DEF m
    <3>2. QED
      BY <3>1, ElementOfSeq
  <2> HIDE DEF ps
  <2>3. QED
    BY <1>11, <2>1, <2>2, TurnIsRecent DEF ps
<1>12. CASE d = "anthropic"
  BY <1>4, <1>5, <1>7, <1>9, <1>11, <1>12, MadeAsInput DEF Echo, FinalMessage, is
<1>13. CASE d = "chat"
  <2> DEFINE f == IF answer.key = "reasoning_content" THEN answer.key ELSE "reasoning"
  <2>1. Echo(answer) = Passthrough(answer)
    BY <1>13 DEF Echo
  <2>2. Passthrough(answer) = <<Message("assistant", Made(answer, f, "string", cs))>>
    BY DEF Passthrough, Message, Made, Thought, Spoken, cs
  <2>3. f \in Form
    BY <1>9
  <2> HIDE DEF f
  <2>4. QED
    BY <1>2, <1>3, <1>6, <1>9, <1>11, <2>1, <2>2, <2>3
<1>14. QED
  BY <1>10, <1>12, <1>13 DEF Dialect

\* Whatever was said was said until now.
TellInv == Recent(dialect, history, clock)

\* Init: what is brought along is older.
LEMMA InitTell == Init => TellInv
<1> SUFFICES ASSUME Init PROVE TellInv
  OBVIOUS
<1>1. QED
  BY BroughtIsRecent DEF TellInv, Init

\* Every step keeps to that.
LEMMA NextTell == RequestInv /\ TellInv /\ [Next]_vars => TellInv'
<1> SUFFICES ASSUME RequestInv, TellInv, [Next]_vars PROVE TellInv'
  OBVIOUS
<1>1. /\ dialect \in Dialect /\ history \in Seq(Utterable(dialect)) /\ clock \in Nat /\ owed \in Seq(CallId)
      /\ Recent(dialect, history, clock)
  BY DEF RequestInv, Typed, TellInv
<1>2. CASE Say
  BY <1>1, <1>2, SaidIsRecent DEF Say, given, TellInv
<1>3. CASE ReturnResults
  <2>1. PICK d \in Dialect : d = dialect
    BY <1>1
  <2>2. Recent(d, history', clock')
    BY <1>1, <1>3, <2>1, ResultsAreRecent, ResultsAtOnce
  <2>3. QED
    BY <1>3, <2>1, <2>2 DEF TellInv, ReturnResults, given
<1>4. CASE Respond
  <2>1. PICK shape \in Shapes : history' = history \o Echo(Answer(shape))
    BY <1>4 DEF Respond
  <2>2. PICK d \in Dialect : d = dialect
    BY <1>1
  <2>3. PICK answer : answer = Answer(shape)
    OBVIOUS
  <2>4. Recent(d, history \o Echo(answer), clock + 1)
    BY <1>1, <2>2, <2>3, AnswerIsRecent
  <2>5. QED
    BY <1>4, <2>1, <2>2, <2>3, <2>4 DEF TellInv, Respond, given
<1>5. CASE Send \/ Parse \/ Parsed \/ Normalize \/ Dispatch \/ Fail \/ Over \/ UNCHANGED vars
  BY <1>5 DEF Send, Parse, Parsed, Normalize, Dispatch, Fail, Over, vars, given, client, TellInv
<1>6. QED
  BY <1>2, <1>3, <1>4, <1>5 DEF Next

-----------------------------------------------------------------------------
\* What Responses clients say to the system.

\* What the first n items of a history say to the system.
SystemTexts(h, n) ==
    [i \in 1..n |-> IF h[i].role = "system" THEN Joined(h[i].pieces) ELSE <<>>]

\* The system text of the request, that of Responses clients.
SystemHeld == IF system = None THEN <<>> ELSE system

\* It holds what was read so far, then all.
SystemInv ==
    dialect = "responses" =>
        /\ pc = "parse" => SystemHeld = FlattenSeq(SystemTexts(history, at - 1))
        /\ pc \in {"normalize", "upstream"} => SystemHeld = FlattenSeq(SystemTexts(history, Len(history)))

\* The text of a single piece is that piece's, joined or picked out.
LEMMA OneText ==
    ASSUME NEW p \in HistoryPiece, p.kind = "text"
    PROVE  TextOf(<<p>>) = Joined(<<p>>) /\ Joined(<<p>>) \in Seq(Nat)
<1> DEFINE S == {q \in ToSet(<<p>>) : q.kind = "text"}
<1>1. p \in S
  BY DEF ToSet
<1>2. OfKind(<<p>>, "text") = Among(<<p>>, S)
  BY DEF OfKind
<1> HIDE DEF S
<1>3. Joined(<<p>>) = p.text /\ p.text \in Seq(Nat)
  BY JoinedOne DEF HistoryPiece
<1>4. QED
  BY <1>1, <1>2, <1>3, AmongOne DEF TextOf

\* A Responses item is one piece; only a text is the system's.
LEMMA OneItem ==
    ASSUME NEW item \in Utterable("responses")
    PROVE  /\ item.pieces[1] \in HistoryPiece /\ item.pieces = <<item.pieces[1]>>
           /\ item.role = "system" => item.pieces[1].kind = "text"
<1>1. /\ item \in HistoryMessage /\ Len(item.pieces) = 1
      /\ item.role = "tool" <=> item.pieces[1].kind = "output"
      /\ item.pieces[1].kind \in {"call", "reasoning", "other"} => item.role = "assistant"
  BY DEF Utterable
<1>2. item.pieces \in Seq(HistoryPiece)
  BY <1>1 DEF HistoryMessage
<1> DEFINE ps == item.pieces
<1>3. 1 \in 1..Len(ps)
  BY <1>1
<1>4. ps[1] \in HistoryPiece
  <2> HIDE DEF ps
  <2>1. QED
    BY <1>2, <1>3, ElementOfSeq DEF ps
<1>5. ps = <<ps[1]>>
  <2>1. ps \in Seq(HistoryPiece) /\ Len(ps) = 1
    BY <1>1, <1>2
  <2> HIDE DEF ps
  <2>2. QED
    BY <2>1
<1>6. item.role = "system" => ps[1].kind = "text"
  BY <1>1, <1>4 DEF PieceKind, HistoryPiece
<1>7. QED
  BY <1>4, <1>5, <1>6

\* Texts are added one by one.
LEMMA SystemGrows ==
    ASSUME NEW h \in Seq(Utterable("responses")), NEW n \in Nat, n < Len(h)
    PROVE  /\ FlattenSeq(SystemTexts(h, n)) \in Seq(Nat)
           /\ FlattenSeq(SystemTexts(h, n + 1)) =
                  FlattenSeq(SystemTexts(h, n)) \o (IF h[n + 1].role = "system" THEN Joined(h[n + 1].pieces) ELSE <<>>)
<1> DEFINE e(i) == IF h[i].role = "system" THEN Joined(h[i].pieces) ELSE <<>>
           ss == [i \in 1..n |-> e(i)]
           tt == [i \in 1..(n + 1) |-> e(i)]
<1>1. Len(h) \in Nat
  BY LenProperties
<1>2. ASSUME NEW i \in 1..Len(h) PROVE e(i) \in Seq(Nat)
  <2>1. PICK item \in Utterable("responses") : item = h[i]
    BY <1>2, ElementOfSeq
  <2>2. <<>> \in Seq(Nat)
    BY EmptySeq
  <2>3. QED
    BY <2>1, <2>2, OneItem, OneText
<1>3. SystemTexts(h, n) = ss /\ SystemTexts(h, n + 1) = tt
  BY DEF SystemTexts
<1> HIDE DEF e
<1>4. ss \in Seq(Seq(Nat)) /\ Len(ss) = n
  BY <1>1, <1>2
<1>5. tt = Append(ss, e(n + 1)) /\ e(n + 1) \in Seq(Nat)
  BY <1>1, <1>2
<1> HIDE DEF ss, tt
<1>6. QED
  BY <1>3, <1>4, <1>5, FlattenTyped, FlattenAppend DEF e

\* At the start there is nothing to say.
LEMMA NoSystem == \A h : FlattenSeq(SystemTexts(h, 0)) = <<>>
<1> SUFFICES ASSUME NEW h PROVE FlattenSeq(SystemTexts(h, 0)) = <<>>
  OBVIOUS
<1>1. FlattenSeq(<<>>) = <<>>
  BY EmptySeq, JoinedOne DEF Joined
<1>2. QED
  BY <1>1 DEF SystemTexts

\* Init: nothing is asked yet.
LEMMA InitSystem == Init => SystemInv
BY DEF Init, SystemInv

\* One item is parsed.
LEMMA ParseSystem == RequestInv /\ SystemInv /\ Parse => SystemInv'
<1> SUFFICES ASSUME RequestInv, SystemInv, Parse, dialect' = "responses" PROVE SystemInv'
  BY DEF SystemInv
<1>1. /\ pc = "parse" /\ pc' = "parse" /\ at <= Len(history) /\ at' = at + 1
      /\ history' = history /\ dialect = "responses" /\ Responses!ParseInputItem(history[at])
  BY DEF Parse, ParseItem, given, client
<1>2. history \in Seq(Utterable("responses")) /\ at \in 1..(Len(history) + 1) /\ Len(history) \in Nat
  BY <1>1, LenProperties DEF RequestInv, Typed, Building
<1>3. PICK n \in Nat : n = at - 1 /\ n + 1 = at /\ n < Len(history) /\ at \in 1..Len(history)
  BY <1>1, <1>2
<1>4. PICK item \in Utterable("responses") : item = history[at]
  BY <1>2, <1>3, ElementOfSeq
<1> DEFINE held == FlattenSeq(SystemTexts(history, n))
           text == IF item.role = "system" THEN Joined(item.pieces) ELSE <<>>
<1>5. SystemHeld = held /\ held \in Seq(Nat)
  BY <1>1, <1>2, <1>3, SystemGrows DEF SystemInv
<1>6. FlattenSeq(SystemTexts(history', at' - 1)) = held \o text
  <2>1. at' - 1 = n + 1
    BY <1>1, <1>3
  <2>2. QED
    BY <1>1, <1>2, <1>3, <1>4, <2>1, SystemGrows
<1>7. SystemHeld' = held \o text
  <2>1. CASE Responses!SystemMessage(item)
    <3>1. /\ item.role = "system" /\ item.pieces[1].kind = "text"
          /\ system' = SystemHeld \o TextOf(item.pieces)
      BY <2>1, ResponsesReads DEF Responses!SystemMessage, Responses!Said, Responses!Item, SystemHeld
    <3>2. text = Joined(item.pieces)
      BY <3>1
    <3>3. system' = held \o text /\ text \in Seq(Nat)
      BY <1>5, <3>1, <3>2, OneItem, OneText
    <3> HIDE DEF held, text
    <3>4. system' # None
      BY <1>5, <3>3, NumberingAssumption, ConcatProperties
    <3>5. QED
      BY <3>3, <3>4 DEF SystemHeld
  <2>2. CASE ~Responses!SystemMessage(item)
    <3>1. system' = system
      BY <1>1, <1>4, <2>2 DEF Responses!ParseInputItem, Responses!AssistantMessage, Responses!UserMessage,
          Responses!FunctionCall, Responses!FunctionCallOutput, Responses!Reasoning, Responses!OtherItem
    <3>2. item.role # "system"
      BY <1>1, <1>4, <2>2, OneItem DEF Responses!ParseInputItem, Responses!AssistantMessage,
         Responses!UserMessage, Responses!FunctionCall, Responses!FunctionCallOutput,
         Responses!Reasoning, Responses!OtherItem, Responses!Said, Responses!Item
    <3>3. SystemHeld' = SystemHeld /\ text = <<>>
      BY <3>1, <3>2 DEF SystemHeld
    <3> HIDE DEF held, text
    <3>4. QED
      BY <1>5, <3>3, EmptySeq
  <2>3. QED
    BY <2>1, <2>2
<1>8. QED
  BY <1>1, <1>6, <1>7 DEF SystemInv

\* Every step keeps the system's text.
LEMMA NextSystem == RequestInv /\ SystemInv /\ [Next]_vars => SystemInv'
<1> SUFFICES ASSUME RequestInv, SystemInv, [Next]_vars PROVE SystemInv'
  OBVIOUS
<1>1. CASE Say \/ ReturnResults \/ Respond \/ Fail
  BY <1>1 DEF Say, ReturnResults, Respond, Fail, SystemInv
<1>2. CASE Send
  BY <1>2, NoSystem DEF Send, SystemHeld, SystemInv
<1>3. CASE Parse
  BY <1>3, ParseSystem
<1>4. CASE Parsed
  BY <1>4, LenProperties DEF Parsed, given, client, parser, SystemHeld, RequestInv, Typed,
     Building, SystemInv
<1>5. CASE Normalize \/ Dispatch \/ Over \/ UNCHANGED vars
  BY <1>5 DEF Normalize, Dispatch, Over, vars, given, client, parser, SystemHeld, SystemInv
<1>6. QED
  BY <1>1, <1>2, <1>3, <1>4, <1>5 DEF Next

\* What the invariants say when the request goes out.
LEMMA TellsEverything == RequestInv /\ ComesBackInv /\ TellInv /\ SystemInv => EverythingIsPassedOn
<1> SUFFICES ASSUME RequestInv, ComesBackInv, TellInv, SystemInv, pc = "upstream"
             PROVE  /\ Told = Heard
                    /\ InOrder /\ NothingTwice
                    /\ dialect = "responses" => SystemIsWhole
  BY DEF EverythingIsPassedOn
<1>1. /\ dialect \in Dialect /\ history \in Seq(Utterable(dialect)) /\ clock \in Nat
      /\ out = Request(dialect, history)
  BY DEF RequestInv, Typed, Building, ComesBackInv
<1>2. dialect = "responses" => SystemIsWhole
  BY DEF SystemInv, SystemHeld, SystemTexts, SystemIsWhole
<1>3. QED
  BY <1>1, <1>2, RequestTells DEF TellInv, Recent

\* The upstream is told what the client said: in every request, of any
\* conversation, every text, call and result of the history goes out once, in
\* its role and in its order, and the system's texts of a Responses client all
\* do (the three parsers, the emitters that made the history's answers, and
\* normalize_tool_parents).
THEOREM EverythingGoesThrough == Spec => []EverythingIsPassedOn
<1>1. Init => RequestInv /\ ComesBackInv /\ TellInv /\ SystemInv
  BY InitRequestInv, InitComesBack, InitTell, InitSystem
<1>2. RequestInv /\ ComesBackInv /\ TellInv /\ SystemInv /\ [Next]_vars
          => (RequestInv /\ ComesBackInv /\ TellInv /\ SystemInv)'
  BY NextRequestInv, NextComesBack, NextTell, NextSystem
<1>3. RequestInv /\ ComesBackInv /\ TellInv /\ SystemInv => EverythingIsPassedOn
  BY TellsEverything
<1>4. QED
  BY <1>1, <1>2, <1>3, PTL DEF Spec

-----------------------------------------------------------------------------
\* The turns of a history, and where the reasoning of a turn goes.

TurnEnd == {m \in HistoryMessage : m.role \in {"user", "tool"}}

TurnAt(h, i) == CountBefore(h, TurnEnd, i)
Now(h) == TurnAt(h, Len(h) + 1)

SaidIn(h, t, f) == \E i \in 1..Len(h) : TurnAt(h, i) = t /\ Utters(h[i], f)

Thinks(d, m) ==
    /\ m.role = "assistant"
    /\ \E i \in 1..Len(m.pieces) :
          /\ m.pieces[i].kind = "reasoning" /\ m.pieces[i].text # <<>>
          /\ d = "chat" => m.pieces[i].form = "reasoning_content"

GoesOn(m) == m.role = "assistant" /\ m.pieces[1].kind \in {"text", "call"}

Carried(d, h, i) ==
    d = "responses" => \E j \in (i + 1)..Len(h) : TurnAt(h, j) = TurnAt(h, i) /\ GoesOn(h[j])

\* A message that was said, and thought, in one turn.
Whole(h, x, t) == \A f : f \in ToSet(Fragments(x)) \/ (Reasons(x) /\ f \in ToSet(x.reasoning)) => SaidIn(h, t, f)

Recalls(ms, h, t) ==
    \E k \in 1..Len(ms) : Reasons(ms[k]) /\ \A f \in ToSet(ms[k].reasoning) : SaidIn(h, t, f)

Thoughtful(d, h, ms) ==
    /\ \A k \in 1..Len(ms) : Reasons(ms[k]) => \E t : Whole(h, ms[k], t)
    /\ \A i \in 1..Len(h) : Thinks(d, h[i]) /\ Carried(d, h, i) => Recalls(ms, h, TurnAt(h, i))

\* What one more message changes.
LEMMA TurnLaws ==
    ASSUME NEW d, NEW h \in Seq(Utterable(d)), NEW m \in Utterable(d)
    PROVE  /\ \A i \in 1..(Len(h) + 1) : TurnAt(Append(h, m), i) = TurnAt(h, i)
           /\ \A i \in 1..(Len(h) + 1) : TurnAt(h, i) \in Nat /\ TurnAt(h, i) <= Now(h)
           /\ Now(Append(h, m)) = Now(h) + (IF m.role \in {"user", "tool"} THEN 1 ELSE 0)
           /\ \A t, f : SaidIn(h, t, f) => SaidIn(Append(h, m), t, f)
           /\ \A f : Utters(m, f) => SaidIn(Append(h, m), Now(h), f)
           /\ \A i \in 1..Len(h) : Carried(d, Append(h, m), i) =>
                  \/ Carried(d, h, i)
                  \/ d = "responses" /\ GoesOn(m) /\ TurnAt(h, i) = Now(h)
<1> DEFINE n == Len(h)
           u == Append(h, m)
<1>1. n \in Nat /\ Len(u) = n + 1 /\ u[n + 1] = m /\ \A i \in 1..n : u[i] = h[i]
  BY AppendProperties, LenProperties
<1>2. m \in TurnEnd <=> m.role \in {"user", "tool"}
  BY DEF TurnEnd, Utterable
<1>3. /\ \A i \in 1..(n + 1) : TurnAt(h, i) \in Nat /\ TurnAt(h, i) <= TurnAt(h, n + 1)
      /\ \A i \in 1..(n + 1) : TurnAt(u, i) = TurnAt(h, i)
      /\ TurnAt(u, n + 2) = TurnAt(h, n + 1) + (IF m \in TurnEnd THEN 1 ELSE 0)
  BY CountBeforeLaws, ZenonT(30) DEF TurnAt
<1> HIDE DEF n, u
<1>4. Now(h) = TurnAt(h, n + 1) /\ Now(u) = TurnAt(u, n + 2)
  BY <1>1 DEF Now, n
<1>5. n + 1 \in 1..(n + 1) /\ \A i \in 1..n : i \in 1..(n + 1)
  BY <1>1
<1>6. ASSUME NEW t, NEW f, SaidIn(h, t, f) PROVE SaidIn(u, t, f)
  <2>1. PICK i \in 1..n : TurnAt(h, i) = t /\ Utters(h[i], f)
    BY <1>6 DEF SaidIn, n
  <2>2. QED
    BY <1>1, <1>3, <1>5, <2>1 DEF SaidIn
<1>7. ASSUME NEW f, Utters(m, f) PROVE SaidIn(u, Now(h), f)
  BY <1>1, <1>3, <1>4, <1>5, <1>7 DEF SaidIn
<1>8. ASSUME NEW i \in 1..n, Carried(d, u, i)
      PROVE  Carried(d, h, i) \/ (d = "responses" /\ GoesOn(m) /\ TurnAt(h, i) = Now(h))
  <2>1. CASE d # "responses"
    BY <2>1 DEF Carried
  <2>2. CASE d = "responses"
    <3>1. PICK j \in (i + 1)..(n + 1) : TurnAt(u, j) = TurnAt(u, i) /\ GoesOn(u[j])
      BY <1>1, <1>8, <2>2 DEF Carried
    <3>2. j \in 1..(n + 1) /\ i \in 1..(n + 1) /\ (j = n + 1 \/ (j \in 1..n /\ j \in (i + 1)..n))
      BY <1>1
    <3>3. TurnAt(h, j) = TurnAt(h, i) /\ GoesOn(u[j])
      BY <1>3, <3>1, <3>2
    <3>4. CASE j = n + 1
      BY <1>1, <1>4, <2>2, <3>3, <3>4
    <3>5. CASE j \in 1..n /\ j \in (i + 1)..n
      BY <1>1, <3>3, <3>5 DEF Carried, n
    <3>6. QED
      BY <3>2, <3>4, <3>5
  <2>3. QED
    BY <2>1, <2>2
<1>9. QED
  BY <1>2, <1>3, <1>4, <1>6, <1>7, <1>8 DEF n, u

\* What is made of a message keeps the reasoning that is there.
LEMMA MoreThoughts ==
    ASSUME NEW d, NEW h \in Seq(Utterable(d)), NEW m \in Utterable(d), NEW ms, NEW ns, Thoughtful(d, h, ms),
           \A k \in 1..Len(ms) : Reasons(ms[k]) => k \in 1..Len(ns) /\ Reasons(ns[k]) /\ ns[k].reasoning = ms[k].reasoning,
           \A k \in 1..Len(ns) : Reasons(ns[k]) =>
               (k \in 1..Len(ms) /\ ns[k] = ms[k]) \/ Whole(Append(h, m), ns[k], Now(h)),
           d # "responses" /\ Thinks(d, m) => Recalls(ns, Append(h, m), Now(h)),
           d = "responses" /\ GoesOn(m) /\ (\E i \in 1..Len(h) : Thinks(d, h[i]) /\ TurnAt(h, i) = Now(h))
               => Recalls(ns, Append(h, m), Now(h))
    PROVE  /\ Thoughtful(d, Append(h, m), ns)
           /\ \A t : Recalls(ms, h, t) => Recalls(ns, Append(h, m), t)
<1> DEFINE n == Len(h)
           u == Append(h, m)
<1>1. n \in Nat /\ Len(u) = n + 1 /\ u[n + 1] = m /\ \A i \in 1..n : u[i] = h[i]
  BY AppendProperties, LenProperties
<1>2. /\ \A i \in 1..(n + 1) : TurnAt(u, i) = TurnAt(h, i)
      /\ \A t, f : SaidIn(h, t, f) => SaidIn(u, t, f)
      /\ \A i \in 1..n : Carried(d, u, i) =>
             Carried(d, h, i) \/ (d = "responses" /\ GoesOn(m) /\ TurnAt(h, i) = Now(h))
  BY TurnLaws
<1>3. Now(h) = TurnAt(h, n + 1)
  BY DEF Now
<1>4. /\ d # "responses" /\ Thinks(d, m) => Recalls(ns, u, Now(h))
      /\ d = "responses" /\ GoesOn(m) /\ (\E i \in 1..n : Thinks(d, h[i]) /\ TurnAt(h, i) = Now(h)) =>
             Recalls(ns, u, Now(h))
      /\ \A k \in 1..Len(ns) : Reasons(ns[k]) => (k \in 1..Len(ms) /\ ns[k] = ms[k]) \/ Whole(u, ns[k], Now(h))
  OBVIOUS
<1>5. \A i \in 1..n : Thinks(d, h[i]) /\ Carried(d, h, i) => Recalls(ms, h, TurnAt(h, i))
  BY DEF Thoughtful
<1> HIDE DEF n, u
<1>6. ASSUME NEW t, Recalls(ms, h, t) PROVE Recalls(ns, u, t)
  BY <1>2, <1>6 DEF Recalls
<1>7. ASSUME NEW k \in 1..Len(ns), Reasons(ns[k]) PROVE \E t : Whole(u, ns[k], t)
  BY <1>2, <1>4, <1>7 DEF Thoughtful, Whole
<1>8. ASSUME NEW i \in 1..(n + 1), Thinks(d, u[i]), Carried(d, u, i) PROVE Recalls(ns, u, TurnAt(u, i))
  <2>1. CASE i = n + 1
    BY <1>1, <1>2, <1>3, <1>4, <1>8, <2>1 DEF Carried
  <2>2. CASE i \in 1..n
    BY <1>1, <1>2, <1>4, <1>5, <1>6, <1>8, <2>2
  <2>3. QED
    BY <1>1, <2>1, <2>2
<1>9. QED
  BY <1>1, <1>6, <1>7, <1>8 DEF u, Thoughtful

\* Reasoning that waits for the rest of the open turn, or has joined it.
OpenTurn(h, s) ==
    /\ s.pending # None => s.pending # <<>> /\ \A f \in ToSet(s.pending) : SaidIn(h, Now(h), f)
    /\ AnswersOpenTurn(s) => Last(s.messages).reasoning # <<>> /\ Whole(h, Last(s.messages), Now(h))
    /\ (\E i \in 1..Len(h) : Thinks("responses", h[i]) /\ TurnAt(h, i) = Now(h)) =>
           s.pending # None \/ Recalls(s.messages, h, Now(h))

\* An item that does not end the turn.
LEMMA TurnGoesOn ==
    ASSUME NEW h \in Seq(Utterable("responses")), NEW m \in Utterable("responses"), NEW s, NEW t,
           m.role \notin {"user", "tool"}, Thoughtful("responses", h, s.messages), OpenTurn(h, s),
           \A k \in 1..Len(s.messages) : Reasons(s.messages[k]) =>
               /\ k \in 1..Len(t.messages) /\ Reasons(t.messages[k])
               /\ t.messages[k].reasoning = s.messages[k].reasoning,
           \A k \in 1..Len(t.messages) : Reasons(t.messages[k]) =>
               \/ k \in 1..Len(s.messages) /\ t.messages[k] = s.messages[k]
               \/ Whole(Append(h, m), t.messages[k], Now(h)),
           t.pending \in {s.pending, None} \/ (t.pending # <<>> /\ \A f \in ToSet(t.pending) : Utters(m, f)),
           AnswersOpenTurn(t) => /\ Last(t.messages).reasoning # <<>>
                                 /\ Whole(Append(h, m), Last(t.messages), Now(h)),
           Thinks("responses", m) => t.pending # None,
           s.pending # None /\ (t.pending = None \/ GoesOn(m)) => Recalls(t.messages, Append(h, m), Now(h))
    PROVE  Thoughtful("responses", Append(h, m), t.messages) /\ OpenTurn(Append(h, m), t)
<1> DEFINE n == Len(h)
           u == Append(h, m)
           ms == s.messages
           ns == t.messages
           Waits == \E i \in 1..n : Thinks("responses", h[i]) /\ TurnAt(h, i) = Now(h)
<1>1. n \in Nat /\ Len(u) = n + 1 /\ u[n + 1] = m /\ \A i \in 1..n : u[i] = h[i]
  BY AppendProperties, LenProperties
<1>2. /\ \A i \in 1..(n + 1) : TurnAt(u, i) = TurnAt(h, i)
      /\ \A x, f : SaidIn(h, x, f) => SaidIn(u, x, f)
      /\ \A f : Utters(m, f) => SaidIn(u, Now(h), f)
      /\ Now(u) = Now(h)
  <2>1. Now(h) \in Nat /\ Now(u) = Now(h) + 0
    <3>1. Now(h) = TurnAt(h, n + 1) /\ n + 1 \in 1..(n + 1)
      BY <1>1 DEF Now
    <3>2. Now(u) = Now(h) + 0 /\ \A i \in 1..(n + 1) : TurnAt(h, i) \in Nat
      BY TurnLaws
    <3> HIDE DEF n, u
    <3>3. QED
      BY <3>1, <3>2
  <2>2. QED
    BY <2>1, TurnLaws
<1>3. /\ s.pending # None => s.pending # <<>> /\ \A f \in ToSet(s.pending) : SaidIn(h, Now(h), f)
      /\ Waits => s.pending # None \/ Recalls(ms, h, Now(h))
  BY DEF OpenTurn
<1>4. Thoughtful("responses", u, ns) /\ \A x : Recalls(ms, h, x) => Recalls(ns, u, x)
  <2>1. GoesOn(m) /\ Waits => Recalls(ns, u, Now(h))
    <3>1. ASSUME Recalls(ms, h, Now(h)) PROVE Recalls(ns, u, Now(h))
      BY <1>2, <3>1 DEF Recalls
    <3> HIDE DEF Waits, ns, u, ms
    <3>2. QED
      BY <1>3, <3>1 DEF ns, u
  <2>2. QED
    BY <2>1, MoreThoughts
<1>5. t.pending # None => t.pending # <<>> /\ \A f \in ToSet(t.pending) : SaidIn(u, Now(u), f)
  BY <1>2, <1>3
<1>6. AnswersOpenTurn(t) => Last(ns).reasoning # <<>> /\ Whole(u, Last(ns), Now(u))
  BY <1>2
<1>7. ASSUME NEW i \in 1..(n + 1), Thinks("responses", u[i]), TurnAt(u, i) = Now(u), t.pending = None
      PROVE  Recalls(ns, u, Now(u))
  BY <1>1, <1>2, <1>3, <1>4, <1>7
<1> HIDE DEF u, ns, n
<1>8. QED
  BY <1>1, <1>4, <1>5, <1>6, <1>7 DEF u, ns, OpenTurn

\* An item that ends it.
LEMMA TurnEnds ==
    ASSUME NEW h \in Seq(Utterable("responses")), NEW m \in Utterable("responses"), NEW s \in ParserState,
           NEW x \in CanonicalMessage,
           m.role \in {"user", "tool"}, Thoughtful("responses", h, s.messages),
           x.role # "assistant", x.reasoning = None
    PROVE  LET t == State(Append(s.messages, x), None)
           IN  Thoughtful("responses", Append(h, m), t.messages) /\ OpenTurn(Append(h, m), t)
<1> DEFINE n == Len(h)
           u == Append(h, m)
           ms == s.messages
           ns == Append(ms, x)
<1>1. n \in Nat /\ Len(u) = n + 1 /\ u[n + 1] = m /\ \A i \in 1..n : u[i] = h[i]
  BY AppendProperties, LenProperties
<1>2. /\ Now(h) \in Nat /\ Now(u) = Now(h) + 1
      /\ \A i \in 1..(n + 1) : TurnAt(u, i) = TurnAt(h, i) /\ TurnAt(h, i) \in Nat /\ TurnAt(h, i) <= Now(h)
  <2>1. Now(h) = TurnAt(h, n + 1) /\ n + 1 \in 1..(n + 1)
    BY <1>1 DEF Now
  <2>2. /\ Now(u) = Now(h) + 1
        /\ \A i \in 1..(n + 1) : TurnAt(u, i) = TurnAt(h, i) /\ TurnAt(h, i) \in Nat /\ TurnAt(h, i) <= Now(h)
    BY TurnLaws
  <2> HIDE DEF n, u
  <2>3. QED
    BY <2>1, <2>2
<1>3. ms \in Seq(CanonicalMessage) /\ Len(ms) \in Nat /\ Len(ns) = Len(ms) + 1 /\ ns # <<>>
      /\ (\A k \in 1..Len(ms) : ns[k] = ms[k]) /\ ns[Len(ms) + 1] = x /\ ns \in Seq(CanonicalMessage)
  BY StateParts, AppendProperties, LenProperties
<1>4. ~Reasons(x) /\ ~GoesOn(m)
  BY DEF Reasons, GoesOn
<1> HIDE DEF n, u, ns, ms
<1>5. Thoughtful("responses", u, ns)
  <2>1. /\ \A k \in 1..Len(ms) : Reasons(ms[k]) => k \in 1..Len(ns) /\ Reasons(ns[k]) /\ ns[k].reasoning = ms[k].reasoning
        /\ \A k \in 1..Len(ns) : Reasons(ns[k]) => k \in 1..Len(ms) /\ ns[k] = ms[k]
    BY <1>3, <1>4
  <2>2. QED
    BY <1>4, <2>1, MoreThoughts DEF u, ms
<1> DEFINE t == State(ns, None)
<1>6. t.messages = ns /\ t.pending = None
  BY StateParts
<1>7. ~AnswersOpenTurn(t)
  BY <1>3, <1>6 DEF AnswersOpenTurn, Last
<1>8. ASSUME NEW i \in 1..(n + 1) PROVE TurnAt(u, i) # Now(u)
  BY <1>2
<1> HIDE DEF t
<1>9. OpenTurn(u, t)
  BY <1>1, <1>6, <1>7, <1>8 DEF OpenTurn
<1>10. QED
  BY <1>5, <1>6, <1>9 DEF u, t, ns, ms

\* What an item adds in a message of its own.
LEMMA TurnOpens ==
    ASSUME NEW h \in Seq(Utterable("responses")), NEW m \in Utterable("responses"), NEW s \in ParserState,
           NEW x \in CanonicalMessage,
           m.role = "assistant", ~Thinks("responses", m), Thoughtful("responses", h, s.messages), OpenTurn(h, s),
           x.reasoning = s.pending, \A f \in ToSet(Fragments(x)) : Utters(m, f)
    PROVE  LET t == State(Append(s.messages, x), None)
           IN  Thoughtful("responses", Append(h, m), t.messages) /\ OpenTurn(Append(h, m), t)
<1> DEFINE u == Append(h, m)
           ms == s.messages
           ns == Append(ms, x)
           t == State(ns, None)
<1>1. ms \in Seq(CanonicalMessage) /\ Len(ms) \in Nat /\ Len(ns) = Len(ms) + 1
      /\ (\A k \in 1..Len(ms) : ns[k] = ms[k]) /\ ns[Len(ms) + 1] = x
  BY StateParts, AppendProperties, LenProperties
<1>2. t.messages = ns /\ t.pending = None
  BY StateParts
<1>3. /\ \A f : Utters(m, f) => SaidIn(u, Now(h), f)
      /\ \A y, f : SaidIn(h, y, f) => SaidIn(u, y, f)
  BY TurnLaws
<1>4. s.pending # None => s.pending # <<>> /\ \A f \in ToSet(s.pending) : SaidIn(h, Now(h), f)
  BY DEF OpenTurn
<1>5. Whole(u, x, Now(h)) /\ x.reasoning # <<>> /\ (s.pending # None => Reasons(x))
  BY <1>3, <1>4, EmptySeq, NumberingAssumption DEF Whole, Reasons
<1> HIDE DEF u, t, ns, ms
<1>6. Last(ns) = x
  BY <1>1 DEF Last
<1>7. \A k \in 1..Len(ns) : (k \in 1..Len(ms) /\ ns[k] = ms[k]) \/ Whole(u, ns[k], Now(h))
  BY <1>1, <1>5
<1>8. s.pending # None => Recalls(ns, u, Now(h))
  BY <1>1, <1>5 DEF Recalls, Whole
<1>9. \A k \in 1..Len(ms) : k \in 1..Len(ns) /\ ns[k] = ms[k]
  BY <1>1
<1>10. Thoughtful("responses", u, t.messages) /\ OpenTurn(u, t)
  BY <1>2, <1>5, <1>6, <1>7, <1>8, <1>9, TurnGoesOn DEF u, ms
<1>11. QED
  BY <1>10 DEF u, t, ns, ms

\* A call that joins the open turn.
LEMMA TurnTakes ==
    ASSUME NEW h \in Seq(Utterable("responses")), NEW m \in Utterable("responses"), NEW s \in ParserState,
           NEW id, NEW body \in Seq(Nat), ToolCall(id, body) \in CanonicalCall,
           m.role = "assistant", ~Thinks("responses", m), Thoughtful("responses", h, s.messages), OpenTurn(h, s),
           AnswersOpenTurn(s), \A f \in ToSet(body) : Utters(m, f)
    PROVE  LET last == Last(s.messages)
               t == State([s.messages EXCEPT ![Len(s.messages)] = WithCalls(last, s.pending, <<ToolCall(id, body)>>)],
                          IF last.reasoning = None THEN None ELSE s.pending)
           IN  Thoughtful("responses", Append(h, m), t.messages) /\ OpenTurn(Append(h, m), t)
<1> DEFINE u == Append(h, m)
           ms == s.messages
           n == Len(ms)
           last == Last(ms)
           c == ToolCall(id, body)
           x == WithCalls(last, s.pending, <<c>>)
           ns == [ms EXCEPT ![n] = x]
           rest == IF last.reasoning = None THEN None ELSE s.pending
           t == State(ns, rest)
<1>1. n \in Nat /\ n # 0 /\ last = ms[n] /\ last \in CanonicalMessage /\ DOMAIN ms = 1..n /\ n \in 1..n
  BY LenProperties, ElementOfSeq, EmptySeq, StateParts DEF Last, AnswersOpenTurn
<1>2. <<c>> \in Seq(CanonicalCall)
  <2>1. c \in CanonicalCall
    OBVIOUS
  <2> HIDE DEF c
  <2>2. QED
    BY <2>1
<1>3. ns \in Seq(CanonicalMessage)
  BY <1>2, CallsJoin
<1>4. t.messages = ns /\ t.pending = rest
  BY StateParts
<1>5. /\ \A f : Utters(m, f) => SaidIn(u, Now(h), f)
      /\ \A y, f : SaidIn(h, y, f) => SaidIn(u, y, f)
  BY TurnLaws
<1>6. /\ s.pending # None => s.pending # <<>> /\ \A f \in ToSet(s.pending) : SaidIn(h, Now(h), f)
      /\ last.reasoning # <<>> /\ Whole(h, last, Now(h))
  BY DEF OpenTurn
<1>7. x.reasoning = (IF last.reasoning = None THEN s.pending ELSE last.reasoning)
  BY DEF WithCalls, Assistant
<1>8. \A f : f \in ToSet(Fragments(x)) => f \in ToSet(Fragments(last)) \/ f \in ToSet(body)
  <2> DEFINE a == Fragments(last)
  <2> HIDE DEF last
  <2>1. \A y \in CanonicalMessage : \A pending : \A i : \A b \in Seq(Nat) :
            ToolCall(i, b) \in CanonicalCall =>
                Fragments(WithCalls(y, pending, <<ToolCall(i, b)>>)) = Fragments(y) \o b
    BY JoinedTurn
  <2>2. Fragments(WithCalls(last, s.pending, <<ToolCall(id, body)>>)) = Fragments(last) \o body
    <3>1. last \in CanonicalMessage /\ ToolCall(id, body) \in CanonicalCall
      BY <1>1
    <3>2. QED
      BY <2>1, <3>1
  <2>3. a \in Seq(Nat) /\ Fragments(x) = a \o body
    BY <1>1, <2>2, Spelled
  <2> HIDE DEF a, x
  <2>4. QED
    BY <2>3, BothHold DEF a
<1>9. DOMAIN ns = 1..n /\ ns[n] = x /\ \A k \in 1..(n - 1) : ns[k] = ms[k]
  <2>1. \A k \in 1..(n - 1) : k \in 1..n /\ k # n
    BY <1>1
  <2> HIDE DEF n, ms, x
  <2>2. QED
    BY <1>1, <2>1
<1> HIDE DEF u, t, ns, ms, x, last, n, rest, c
<1>10. Len(ns) = n /\ Last(ns) = x
  BY <1>1, <1>3, <1>9, LenProperties DEF Last
<1>11. /\ x.reasoning # <<>>
       /\ s.pending # None => Reasons(x)
       /\ Reasons(last) => Reasons(x) /\ x.reasoning = last.reasoning
  BY <1>6, <1>7, EmptySeq, NumberingAssumption DEF Reasons
<1>12. Whole(u, x, Now(h))
  <2>1. ASSUME NEW f, f \in ToSet(Fragments(x)) PROVE SaidIn(u, Now(h), f)
    BY <1>5, <1>6, <1>8, <2>1 DEF Whole
  <2>2. ASSUME NEW f, Reasons(x), f \in ToSet(x.reasoning) PROVE SaidIn(u, Now(h), f)
    BY <1>5, <1>6, <1>7, <2>2 DEF Reasons, Whole
  <2>3. QED
    BY <2>1, <2>2 DEF Whole
<1>13. \A k \in 1..n : k = n \/ ns[k] = ms[k]
  BY <1>1, <1>9
<1>14. s.pending # None => Recalls(ns, u, Now(h))
  BY <1>1, <1>9, <1>10, <1>11, <1>12 DEF Recalls, Whole
<1>15. \A k \in 1..n : Reasons(ms[k]) => Reasons(ns[k]) /\ ns[k].reasoning = ms[k].reasoning
  BY <1>1, <1>9, <1>11, <1>13
<1>16. \A k \in 1..n : ns[k] = ms[k] \/ Whole(u, ns[k], Now(h))
  BY <1>9, <1>12, <1>13
<1>17. rest \in {s.pending, None}
  BY DEF rest
<1>18. Thoughtful("responses", u, t.messages) /\ OpenTurn(u, t)
  BY <1>4, <1>10, <1>11, <1>12, <1>14, <1>15, <1>16, <1>17, TurnGoesOn DEF u, ms, n
<1>19. QED
  BY <1>18 DEF u, t, ns, ms, x, last, n, rest, c

\* Every item keeps reasoning with its turn (parse_input_item).
LEMMA ItemThinks ==
    ASSUME NEW h \in Seq(Utterable("responses")), NEW m \in Utterable("responses"), NEW s \in ParserState,
           Thoughtful("responses", h, s.messages), OpenTurn(h, s)
    PROVE  /\ Thoughtful("responses", Append(h, m), AfterItem(s, m).messages)
           /\ OpenTurn(Append(h, m), AfterItem(s, m))
<1> DEFINE ps == m.pieces
           p == ps[1]
           body == p.text
           t == AfterItem(s, m)
           u == Append(h, m)
           Goal == Thoughtful("responses", u, t.messages) /\ OpenTurn(u, t)
<1>1. /\ ps \in Seq(HistoryPiece) /\ p \in HistoryPiece /\ Len(ps) = 1 /\ Named(ps)
      /\ m.role \in {"user", "assistant", "tool", "system"}
      /\ m.role = "tool" <=> p.kind = "output"
      /\ p.kind \in {"call", "reasoning", "other"} => m.role = "assistant"
      /\ p.kind = "output" => p.id \in CallId
  BY Uttered DEF Utterable
<1>2. p.kind \in PieceKind /\ body \in Seq(Nat) /\ s.pending \in Seq(Nat) \cup {None} /\ <<>> \in Seq(CanonicalCall)
  BY <1>1, StateParts, EmptySeq DEF HistoryPiece
<1>3. 1..1 = {1} /\ 1 \in 1..Len(ps) /\ \A i \in 1..Len(ps) : i = 1
  BY <1>1
<1>4. /\ \A f \in ToSet(body) : Utters(m, f)
      /\ Thinks("responses", m) <=> m.role = "assistant" /\ p.kind = "reasoning" /\ body # <<>>
      /\ GoesOn(m) <=> m.role = "assistant" /\ p.kind \in {"text", "call"}
  BY <1>3 DEF Utters, Thinks, GoesOn
<1>5. TextOf(ps) \in Seq(Nat) /\ \A f \in ToSet(TextOf(ps)) : Utters(m, f)
  BY <1>1, KindHolds DEF TextOf, Utters
<1>6. None \notin Seq(Nat)
  BY NumberingAssumption
<1> SUFFICES Goal
  OBVIOUS
<1>7. CASE p.kind = "text" /\ m.role = "assistant"
  <2> DEFINE x == Assistant(TextOf(ps), s.pending, <<>>)
             text == TextOf(ps)
  <2>1. t = State(Append(s.messages, x), None)
    BY <1>7 DEF AfterItem, AfterText
  <2>2. x \in CanonicalMessage /\ x.reasoning = s.pending
    BY <1>2, <1>5, MessagesTyped DEF Assistant
  <2>3. Fragments(x) = text
    <3>1. text \in Seq(Nat)
      BY <1>5
    <3> HIDE DEF text
    <3>2. QED
      BY <3>1, ConcatEmptySeq, Spelled, BodiesLaws DEF text
  <2> HIDE DEF x, t
  <2>4. \A f \in ToSet(Fragments(x)) : Utters(m, f)
    BY <1>5, <2>3
  <2>5. QED
    BY <1>4, <1>7, <2>1, <2>2, <2>4, TurnOpens
<1>8. CASE p.kind = "text" /\ m.role = "user"
  <2> DEFINE x == User(TextOf(ps))
  <2>1. t = State(Append(s.messages, x), None)
    BY <1>8 DEF AfterItem, AfterText
  <2>2. x \in CanonicalMessage /\ x.reasoning = None /\ x.role # "assistant"
    BY <1>5, MessagesTyped DEF User
  <2> HIDE DEF x, t
  <2>3. QED
    BY <1>8, <2>1, <2>2, TurnEnds
<1>9. CASE p.kind = "output"
  <2> DEFINE x == Tool(p.id, body)
  <2>1. t = State(Append(s.messages, x), None)
    BY <1>9 DEF AfterItem
  <2>2. x \in CanonicalMessage /\ x.reasoning = None /\ x.role # "assistant"
    BY <1>1, <1>2, <1>9, MessagesTyped DEF Tool
  <2> HIDE DEF x, t
  <2>3. QED
    BY <1>1, <1>9, <2>1, <2>2, TurnEnds
<1>10. CASE p.kind = "call"
  <2> DEFINE c == ToolCall(p.id, body)
             one == <<c>>
  <2>1. ToolCalls(ps) = one /\ c \in CanonicalCall
    <3>1. ps = <<p>> /\ p \in AnswerPiece /\ p.id \in CallId
      <4> DEFINE q == ps[1]
      <4>1. ps = <<q>>
        BY <1>1
      <4>2. QED
        BY <1>1, <1>3, <1>10, <4>1 DEF AnswerPiece, NamedPiece, Utterable
    <3>2. ToolCalls(<<p>>) = <<ToolCall(p.id, p.text)>>
      BY <1>10, <3>1, OneRead
    <3>3. QED
      BY <1>2, <3>1, <3>2 DEF CanonicalCall, ToolCall
  <2>2. m.role = "assistant" /\ ~Thinks("responses", m)
    BY <1>1, <1>4, <1>10
  <2>3. CASE AnswersOpenTurn(s)
    <3>1. t = State([s.messages EXCEPT ![Len(s.messages)] = WithCalls(Last(s.messages), s.pending, one)],
                    IF Last(s.messages).reasoning = None THEN None ELSE s.pending)
      BY <1>10, <2>1, <2>3 DEF AfterItem, AfterCall
    <3> HIDE DEF t, body
    <3>2. QED
      BY <1>2, <1>4, <2>1, <2>2, <2>3, <3>1, TurnTakes
  <2>4. CASE ~AnswersOpenTurn(s)
    <3> DEFINE x == Assistant(None, s.pending, one)
    <3>1. t = State(Append(s.messages, x), None)
      BY <1>10, <2>1, <2>4 DEF AfterItem, AfterCall
    <3>2. one \in Seq(CanonicalCall) /\ c.body = body
      <4>1. c.body = body
        BY DEF ToolCall
      <4> HIDE DEF c
      <4>2. QED
        BY <2>1, <4>1
    <3>3. x \in CanonicalMessage /\ x.reasoning = s.pending
      BY <1>2, <3>2, MessagesTyped DEF Assistant
    <3>4. Fragments(x) = body
      <4>1. Fragments(x) = Bodies(one)
        BY <3>2, Spelled
      <4> HIDE DEF c, body
      <4>2. one = Append(<<>>, c)
        OBVIOUS
      <4>3. Bodies(Append(<<>>, c)) = Bodies(<<>>) \o c.body /\ Bodies(<<>>) = <<>>
        BY <1>2, <2>1, BodiesLaws
      <4>4. <<>> \o body = body
        BY <1>2, ConcatEmptySeq
      <4>5. QED
        BY <3>2, <4>1, <4>2, <4>3, <4>4
    <3> HIDE DEF x, t
    <3>5. \A f \in ToSet(Fragments(x)) : Utters(m, f)
      BY <1>4, <3>4
    <3>6. QED
      BY <2>2, <3>1, <3>3, <3>5, TurnOpens
  <2>5. QED
    BY <2>3, <2>4
<1>11. CASE p.kind \in {"reasoning", "other"} \/ m.role = "system"
  <2>1. m.role \notin {"user", "tool"} /\ ~GoesOn(m)
    BY <1>1, <1>2, <1>4, <1>11 DEF PieceKind
  <2>2. /\ t.messages = s.messages
        /\ t.pending = s.pending \/ (t.pending = body /\ body # <<>>)
        /\ Thinks("responses", m) => t.pending = body
    BY <1>1, <1>2, <1>4, <1>11, StateParts DEF PieceKind, AfterItem, AfterText
  <2> HIDE DEF t, u, body
  <2>3. AnswersOpenTurn(t) => Last(t.messages).reasoning # <<>> /\ Whole(u, Last(t.messages), Now(h))
    BY <2>2, TurnLaws DEF AnswersOpenTurn, OpenTurn, u, Whole
  <2>4. body # None /\ (t.pending = None => s.pending = None)
    BY <1>2, <1>6, <2>2
  <2>5. \A k \in 1..Len(s.messages) : k \in 1..Len(t.messages) /\ t.messages[k] = s.messages[k]
    BY <2>2
  <2>6. QED
    BY <1>4, <2>1, <2>2, <2>3, <2>4, TurnGoesOn DEF u
<1>12. QED
  BY <1>1, <1>2, <1>7, <1>8, <1>9, <1>10, <1>11 DEF PieceKind

\* What a parser adds that reads message by message.
LEMMA AddsThink ==
    ASSUME NEW d, d # "responses", NEW h \in Seq(Utterable(d)), NEW m \in Utterable(d),
           NEW ms \in Seq(CanonicalMessage), NEW more \in Seq(CanonicalMessage), Thoughtful(d, h, ms),
           \A role, f : Hears(more, role, f) => Tells(d, m, role, f),
           \A k \in 1..Len(more) : Reasons(more[k]) => \A f \in ToSet(more[k].reasoning) : Utters(m, f),
           Thinks(d, m) => \E k \in 1..Len(more) : Reasons(more[k])
    PROVE  Thoughtful(d, Append(h, m), ms \o more)
<1> DEFINE u == Append(h, m)
           ns == ms \o more
           n == Len(ms)
           e == Len(more)
<1>1. /\ n \in Nat /\ e \in Nat /\ Len(ns) = n + e
      /\ \A k \in 1..(n + e) : ns[k] = IF k <= n THEN ms[k] ELSE more[k - n]
  BY ConcatProperties, LenProperties
<1>2. \A f : Utters(m, f) => SaidIn(u, Now(h), f)
  BY TurnLaws
<1>3. ASSUME NEW k \in 1..e, Reasons(more[k])
      PROVE  Whole(u, more[k], Now(h)) /\ \A f \in ToSet(more[k].reasoning) : SaidIn(u, Now(h), f)
  <2>1. ASSUME NEW f \in ToSet(Fragments(more[k])) PROVE Utters(m, f)
    BY DEF Hears, Tells, Utters
  <2>2. QED
    BY <1>2, <1>3, <2>1 DEF Whole
<1>4. Thinks(d, m) => \E k \in 1..e : Reasons(more[k])
  OBVIOUS
<1> HIDE DEF u, ns, n, e
<1>5. /\ \A k \in 1..n : k \in 1..Len(ns) /\ ns[k] = ms[k]
      /\ \A k \in 1..e : n + k \in 1..Len(ns) /\ ns[n + k] = more[k]
      /\ \A k \in 1..Len(ns) : k \in 1..n \/ \E i \in 1..e : k = n + i
  <2>1. ASSUME NEW k \in 1..Len(ns), k \notin 1..n PROVE \E i \in 1..e : k = n + i
    BY <1>1, <2>1
  <2>2. ASSUME NEW k \in 1..e PROVE n + k \in 1..Len(ns) /\ ns[n + k] = more[k]
    BY <1>1
  <2>3. QED
    BY <1>1, <2>1, <2>2
<1>6. ASSUME NEW k \in 1..Len(ns), Reasons(ns[k]), k \notin 1..n PROVE Whole(u, ns[k], Now(h))
  <2>1. PICK i \in 1..e : k = n + i
    BY <1>5, <1>6
  <2>2. QED
    BY <1>3, <1>5, <1>6, <2>1
<1>7. ASSUME Thinks(d, m) PROVE Recalls(ns, u, Now(h))
  <2>1. PICK i \in 1..e : Reasons(more[i])
    BY <1>4, <1>7
  <2>2. n + i \in 1..Len(ns) /\ ns[n + i] = more[i]
    BY <1>5
  <2>3. QED
    BY <1>3, <2>1, <2>2 DEF Recalls
<1>8. QED
  BY <1>5, <1>6, <1>7, MoreThoughts DEF u, ns, n

\* A Chat message.
LEMMA ChatThinks ==
    ASSUME NEW m \in Utterable("chat")
    PROVE  LET more == ChatAdds(m)
           IN  /\ \A k \in 1..Len(more) : Reasons(more[k]) => \A f \in ToSet(more[k].reasoning) : Utters(m, f)
               /\ Thinks("chat", m) => \E k \in 1..Len(more) : Reasons(more[k])
<1> DEFINE ps == m.pieces
           S == {p \in Chat!ToSet(ps) : p.kind = "reasoning" /\ p.form = "reasoning_content"}
           thoughts == Among(ps, S)
           r == Chat!ReasoningContent(m)
           Goal(more) == /\ \A k \in 1..Len(more) : Reasons(more[k]) => \A f \in ToSet(more[k].reasoning) : Utters(m, f)
                         /\ Thinks("chat", m) => \E k \in 1..Len(more) : Reasons(more[k])
<1>1. ps \in Seq(HistoryPiece) /\ m.role \in {"user", "assistant", "tool", "system"}
  BY Uttered
<1>2. \A i \in 1..Len(ps) : ps[i] \in S <=> ps[i].kind = "reasoning" /\ ps[i].form = "reasoning_content"
  BY DEF Chat!ToSet
<1>3. r = IF thoughts = <<>> THEN None ELSE Joined(thoughts)
  BY ChatReads DEF Chat!ReasoningContent
<1> HIDE DEF S
<1>4. /\ \A f : f \in ToSet(Joined(thoughts)) <=> \E i \in 1..Len(ps) : ps[i] \in S /\ f \in ToSet(ps[i].text)
      /\ Joined(thoughts) \in Seq(Nat) /\ Places(ps, thoughts, S)
  BY <1>1, JoinedHolds, AmongUnfolds, JoinedTyped, AmongPlaces
<1>5. r # None => \A f \in ToSet(r) : Utters(m, f)
  BY <1>3, <1>4 DEF Utters
<1>6. ASSUME Thinks("chat", m) PROVE r \notin {None, <<>>}
  <2>1. PICK i \in 1..Len(ps) : ps[i].kind = "reasoning" /\ ps[i].text # <<>> /\ ps[i].form = "reasoning_content"
    BY <1>6 DEF Thinks
  <2> DEFINE text == ps[i].text
  <2>2. text \in Seq(Nat) /\ text # <<>>
    <3>1. ps[i] \in HistoryPiece
      <4> HIDE DEF ps
      <4>1. QED
        BY <1>1, ElementOfSeq
    <3>2. QED
      BY <2>1, <3>1 DEF HistoryPiece
  <2>3. text[1] \in ToSet(text)
    <3> HIDE DEF text
    <3>1. QED
      BY <2>2, EmptySeq, LenProperties DEF ToSet
  <2>4. ps[i] \in S
    BY <1>2, <2>1
  <2>5. text[1] \in ToSet(Joined(thoughts))
    BY <1>4, <2>3, <2>4
  <2>6. thoughts # <<>>
    <3>1. Len(<<>>) = 0
      OBVIOUS
    <3> HIDE DEF thoughts
    <3>2. QED
      BY <1>4, <2>4, <3>1 DEF Places
  <2>7. QED
    BY <1>3, <1>4, <2>5, <2>6, NumberingAssumption DEF ToSet
<1> HIDE DEF r, thoughts
<1>7. CASE m.role = "assistant"
  <2> DEFINE x == Assistant(IF Chat!Content(m) = <<>> THEN None ELSE Chat!Content(m), r, ToolCalls(ps))
  <2>1. ChatAdds(m) = <<x>> /\ x.reasoning = r
    BY <1>7 DEF ChatAdds, Assistant, r
  <2> HIDE DEF x
  <2>2. QED
    BY <1>5, <1>6, <2>1 DEF Reasons
<1>8. CASE m.role # "assistant"
  BY <1>8 DEF Thinks, ChatAdds, Tool, User, Reasons
<1>9. QED
  BY <1>7, <1>8

\* An Anthropic message.
LEMMA AnthropicThinks ==
    ASSUME NEW m \in Utterable("anthropic")
    PROVE  LET more == AnthropicAdds(m)
           IN  /\ \A k \in 1..Len(more) : Reasons(more[k]) => \A f \in ToSet(more[k].reasoning) : Utters(m, f)
               /\ Thinks("anthropic", m) => \E k \in 1..Len(more) : Reasons(more[k])
<1> DEFINE ps == m.pieces
           S == {p \in Anthropic!ToSet(ps) : p.kind = "reasoning" /\ p.text # <<>>}
           thoughts == Among(ps, S)
           r == Anthropic!Thinking(ps)
           Goal(more) == /\ \A k \in 1..Len(more) : Reasons(more[k]) => \A f \in ToSet(more[k].reasoning) : Utters(m, f)
                         /\ Thinks("anthropic", m) => \E k \in 1..Len(more) : Reasons(more[k])
<1>1. ps \in Seq(HistoryPiece) /\ m.role \in {"user", "assistant", "system"}
  BY Uttered
<1>2. \A i \in 1..Len(ps) : ps[i] \in S <=> ps[i].kind = "reasoning" /\ ps[i].text # <<>>
  BY DEF Anthropic!ToSet
<1>3. r = IF thoughts = <<>> THEN None ELSE Last(thoughts).text
  BY AnthropicReads DEF Anthropic!Thinking, Anthropic!Last, Last
<1> HIDE DEF S
<1>4. thoughts \in Seq(HistoryPiece) /\ Places(ps, thoughts, S)
  BY <1>1, AmongUnfolds, AmongPlaces
<1> HIDE DEF thoughts
<1>5. ASSUME r # None PROVE r # <<>> /\ \A f \in ToSet(r) : Utters(m, f)
  <2>1. thoughts # <<>> /\ r = Last(thoughts).text
    BY <1>3, <1>5
  <2>2. Len(thoughts) \in 1..Len(thoughts) /\ Last(thoughts) = thoughts[Len(thoughts)]
    BY <1>4, <2>1, LenProperties, EmptySeq DEF Last
  <2>3. PICK i \in 1..Len(ps) : thoughts[Len(thoughts)] = ps[i] /\ ps[i] \in S
    BY <1>4, <2>2 DEF Places
  <2>4. QED
    BY <1>2, <2>1, <2>2, <2>3 DEF Utters
<1>6. ASSUME Thinks("anthropic", m) PROVE r # None
  <2>1. PICK i \in 1..Len(ps) : ps[i].kind = "reasoning" /\ ps[i].text # <<>>
    BY <1>6 DEF Thinks
  <2>2. Len(thoughts) \in 1..Len(thoughts) /\ thoughts # <<>>
    BY <1>2, <1>4, <2>1, LenProperties DEF Places
  <2>3. Last(thoughts) \in HistoryPiece
    BY <1>4, <2>2, ElementOfSeq DEF Last
  <2>4. QED
    BY <1>3, <2>2, <2>3, NumberingAssumption DEF HistoryPiece
<1> HIDE DEF r
<1>7. CASE m.role = "assistant"
  <2> DEFINE x == Assistant(Anthropic!AssistantText(ps), r, ToolCalls(ps))
  <2>1. AnthropicAdds(m) = <<x>> /\ x.reasoning = r
    BY <1>7 DEF AnthropicAdds, Assistant, r
  <2> HIDE DEF x
  <2>2. QED
    BY <1>5, <1>6, <2>1 DEF Reasons
<1>8. CASE m.role # "assistant"
  <2> DEFINE Quiet == {x \in CanonicalMessage : x.reasoning = None}
             results == Anthropic!ToolResults(ps)
             text == Anthropic!UserText(ps)
             more == AnthropicAdds(m)
  <2>1. ~Thinks("anthropic", m)
    BY <1>8 DEF Thinks
  <2>2. /\ results \in Seq(CanonicalMessage) /\ \A k \in 1..Len(results) : results[k].reasoning = None
        /\ text \in Seq(CanonicalMessage) /\ \A k \in 1..Len(text) : text[k].reasoning = None
    BY <1>1, AnthropicParts, AnthropicReads DEF Anthropic!ToolResults, Anthropic!UserText, Tool, User
  <2>3. more = (results \o text) \/ more = <<>>
    BY <1>8 DEF AnthropicAdds
  <2> HIDE DEF results, text
  <2>4. \A k \in 1..Len(more) : more[k].reasoning = None
    <3>1. ASSUME NEW k \in 1..Len(results \o text) PROVE (results \o text)[k].reasoning = None
      BY <2>2, ConcatProperties, LenProperties
    <3>2. Len(<<>>) = 0 /\ 1..0 = {}
      OBVIOUS
    <3> HIDE DEF more
    <3>3. QED
      BY <2>3, <3>1, <3>2
  <2> HIDE DEF more
  <2>5. QED
    BY <2>1, <2>4 DEF more, Reasons
<1>9. QED
  BY <1>7, <1>8

\* What a whole history is parsed to keeps its reasoning with its turns.
LEMMA HistoryThinks ==
    ASSUME NEW d \in Dialect, NEW h \in Seq(Utterable(d)), Consecutive(d, h)
    PROVE  Thoughtful(d, h, ParseOf(d)[h].messages)
<1> DEFINE P(t) == /\ Thoughtful(d, t, ParseOf(d)[t].messages)
                   /\ d = "responses" => OpenTurn(t, ParseOf(d)[t])
           T == {t \in Seq(Utterable(d)) : Consecutive(d, t) => P(t)}
<1>1. <<>> \in T
  <2>1. <<>> \in Seq(Utterable(d)) /\ Len(<<>>) = 0 /\ 1..0 = {}
    BY EmptySeq
  <2>2. ParseOf(d)[<<>>].messages = <<>> /\ ParseOf(d)[<<>>].pending = None
    BY ParseLaws DEF Fresh, State
  <2>3. P(<<>>)
    BY <2>1, <2>2 DEF Thoughtful, OpenTurn, AnswersOpenTurn
  <2> HIDE DEF P
  <2>4. QED
    BY <2>1, <2>3
<1>2. ASSUME NEW t \in Seq(Utterable(d)), NEW m \in Utterable(d), t \in T PROVE Append(t, m) \in T
  <2> DEFINE u == Append(t, m)
             s == ParseOf(d)[t]
  <2>1. s \in ParserState /\ ParseOf(d)[u] = After(d, s, m)
    BY ParseLaws
  <2>2. SUFFICES ASSUME Consecutive(d, u) PROVE P(u)
    BY AppendProperties
  <2>3. Consecutive(d, t) /\ m \in Tellable(d)
    BY <2>2, ConsecutiveMore
  <2>4. Thoughtful(d, t, s.messages) /\ (d = "responses" => OpenTurn(t, s))
    BY <1>2, <2>3
  <2>5. s.messages \in Seq(CanonicalMessage)
    BY <2>1, StateParts
  <2> HIDE DEF s
  <2>6. CASE d = "responses"
    BY <2>1, <2>4, <2>6, ItemThinks DEF After
  <2>7. ASSUME NEW more \in Seq(CanonicalMessage), d # "responses", After(d, s, m) = State(s.messages \o more, s.pending),
               \A role, f : Hears(more, role, f) <=> Tells(d, m, role, f),
               \A k \in 1..Len(more) : Reasons(more[k]) => \A f \in ToSet(more[k].reasoning) : Utters(m, f),
               Thinks(d, m) => \E k \in 1..Len(more) : Reasons(more[k])
        PROVE  P(u)
    <3>1. ParseOf(d)[u].messages = s.messages \o more
      <4>1. ParseOf(d)[u] = State(s.messages \o more, s.pending)
        BY <2>1, <2>7
      <4>2. \A x, p : State(x, p).messages = x
        BY StateParts
      <4> HIDE DEF u
      <4>3. QED
        BY <4>1, <4>2
    <3>2. QED
      BY <2>4, <2>5, <2>7, <3>1, AddsThink
  <2> HIDE DEF u, P
  <2>8. CASE d = "chat"
    BY <2>3, <2>7, <2>8, ChatTells, ChatThinks DEF After
  <2>9. CASE d = "anthropic"
    BY <2>3, <2>7, <2>9, AnthropicTells, AnthropicThinks DEF After
  <2>10. QED
    BY <2>6, <2>8, <2>9 DEF Dialect
<1> HIDE DEF T
<1>3. QED
  BY <1>1, <1>2, Appending, ZenonT(30) DEF T

\* The parents that normalize_tool_parents adds do not reason.
LEMMA NormalThinks ==
    ASSUME NEW ms \in Seq(CanonicalMessage)
    PROVE  \A k \in 1..Len(NormalOf[ms].out) : Reasons(NormalOf[ms].out[k]) =>
               \E j \in 1..Len(ms) : ms[j] = NormalOf[ms].out[k]
<1> DEFINE From(s) == \A k \in 1..Len(NormalOf[s].out) : Reasons(NormalOf[s].out[k]) =>
                          \E j \in 1..Len(s) : s[j] = NormalOf[s].out[k]
           T == {s \in Seq(CanonicalMessage) : From(s)}
<1>1. <<>> \in T
  BY EmptySeq, NormalLaws, LoopParts DEF Idle
<1>2. ASSUME NEW s \in Seq(CanonicalMessage), NEW m \in CanonicalMessage, s \in T PROVE Append(s, m) \in T
  <2> DEFINE a == Append(s, m)
             old == NormalOf[s].out
             new == NormalOf[a].out
             parent == Parents!Parent(m.id)
  <2>1. /\ a \in Seq(CanonicalMessage) /\ Len(s) \in Nat /\ Len(a) = Len(s) + 1
        /\ (\A i \in 1..Len(s) : a[i] = s[i]) /\ a[Len(s) + 1] = m
    BY AppendProperties, LenProperties
  <2>2. NormalOf[s] \in LoopState /\ NormalOf[a] = Placed(NormalOf[s], m) /\ old \in Seq(CanonicalMessage)
    BY NormalLaws, LoopParts
  <2>3. \A k \in 1..Len(old) : Reasons(old[k]) => \E j \in 1..Len(s) : s[j] = old[k]
    BY <1>2
  <2>4. ~Reasons(parent)
    BY DEF Reasons, Parents!Parent, Parents!Assistant
  <2>5. new = Append(old, m) \/ (new = old \o <<parent, m>> /\ m.id \in CallId)
    <3>1. ASSUME NEW q \in LoopState
          PROVE  \/ Placed(q, m).out = Append(q.out, m)
                 \/ Placed(q, m).out = q.out \o <<parent, m>> /\ m.id \in CallId
      BY LoopParts, CanonicalParts DEF Placed
    <3> HIDE DEF parent, a
    <3>2. QED
      BY <2>2, <3>1
  <2>6. m.id \in CallId => parent \in CanonicalMessage
    BY ParentTyped
  <2> HIDE DEF a, old, new, parent, T
  <2>7. ASSUME NEW k \in 1..Len(new)
        PROVE  (k \in 1..Len(old) /\ new[k] = old[k]) \/ new[k] = m \/ new[k] = parent
    <3>1. Len(old) \in Nat
      BY <2>2, LenProperties
    <3>2. CASE new = Append(old, m)
      BY <2>2, <3>1, <3>2, AppendProperties
    <3>3. CASE new = old \o <<parent, m>> /\ m.id \in CallId
      <4> DEFINE both == <<parent, m>>
      <4>1. both \in Seq(CanonicalMessage) /\ Len(both) = 2 /\ both[1] = parent /\ both[2] = m
        BY <2>6, <3>3
      <4>2. new = old \o both
        BY <3>3
      <4> HIDE DEF both
      <4>3. k \in 1..(Len(old) + 2) /\ new[k] = IF k <= Len(old) THEN old[k] ELSE both[k - Len(old)]
        <5>1. /\ Len(old \o both) = Len(old) + Len(both)
              /\ \A i \in 1..(Len(old) + Len(both)) :
                    (old \o both)[i] = IF i <= Len(old) THEN old[i] ELSE both[i - Len(old)]
          BY <2>2, <4>1, ConcatProperties
        <5>2. QED
          BY <4>1, <4>2, <5>1
      <4>4. QED
        BY <3>1, <4>1, <4>3
    <3>4. QED
      BY <2>5, <3>2, <3>3
  <2>8. ASSUME NEW k \in 1..Len(new), Reasons(new[k]) PROVE \E j \in 1..Len(a) : a[j] = new[k]
    <3>1. CASE k \in 1..Len(old) /\ new[k] = old[k]
      <4>1. PICK j \in 1..Len(s) : s[j] = old[k]
        BY <2>3, <2>8, <3>1
      <4>2. QED
        BY <2>1, <3>1, <4>1
    <3>2. CASE new[k] = m
      BY <2>1, <3>2
    <3>3. QED
      BY <2>4, <2>7, <2>8, <3>1, <3>2
  <2>9. QED
    BY <2>1, <2>8 DEF T, a, new
<1> HIDE DEF T
<1>3. \A s \in Seq(CanonicalMessage) : s \in T
  BY <1>1, <1>2, Appending
<1>4. QED
  BY <1>3 DEF T

\* The turn of a fragment is that of the message that utters it.
LEMMA TurnIsKnown ==
    ASSUME history \in Seq(Utterable(dialect)), Consecutive(dialect, history)
    PROVE  /\ \A i \in 1..Len(history) : Turn(i) = TurnAt(history, i)
           /\ \A t, f : SaidIn(history, t, f) => TurnOf(f) = t
<1> DEFINE n == Len(history)
<1>1. \A i \in 1..n : history[i] \in Utterable(dialect) /\ history[i] \in HistoryMessage
  BY ElementOfSeq DEF Utterable
<1>2. n \in Nat
  BY LenProperties
<1>3. ASSUME NEW i \in 1..n, NEW f
      PROVE  (\E p \in ToSet(history[i].pieces) : f \in ToSet(p.text)) <=> Utters(history[i], f)
  <2> DEFINE ps == history[i].pieces
  <2>1. ps \in Seq(HistoryPiece)
    BY <1>1, Uttered
  <2> HIDE DEF ps
  <2>2. (\E p \in ToSet(ps) : f \in ToSet(p.text)) <=> \E j \in 1..Len(ps) : f \in ToSet(ps[j].text)
    BY <2>1, LenProperties DEF ToSet
  <2>3. QED
    BY <2>2 DEF Utters, ps
<1>4. ASSUME NEW i \in 1..n, NEW j \in 1..n, NEW f, Utters(history[i], f), Utters(history[j], f) PROVE i = j
  <2>1. ~(i < j)
    BY <1>4 DEF Consecutive, Precedes
  <2>2. ~(j < i)
    BY <1>4 DEF Consecutive, Precedes
  <2>3. QED
    BY <1>2, <2>1, <2>2
<1> HIDE DEF n
<1>5. ASSUME NEW i \in 1..n PROVE Turn(i) = TurnAt(history, i)
  <2>1. {j \in 1..(i - 1) : history[j] \in TurnEnd} = {j \in 1..(i - 1) : history[j].role \in {"user", "tool"}}
    BY <1>1, <1>2 DEF TurnEnd
  <2>2. QED
    BY <2>1 DEF TurnAt, CountBefore, Turn
<1>6. ASSUME NEW t, NEW f, SaidIn(history, t, f) PROVE TurnOf(f) = t
  <2>1. PICK i \in 1..n : TurnAt(history, i) = t /\ Utters(history[i], f)
    BY <1>6 DEF SaidIn, n
  <2> DEFINE found == CHOOSE j \in 1..n : \E p \in ToSet(history[j].pieces) : f \in ToSet(p.text)
  <2>2. found \in 1..n /\ \E p \in ToSet(history[found].pieces) : f \in ToSet(p.text)
    BY <1>3, <2>1
  <2>3. found = i
    <3> HIDE DEF found
    <3>1. QED
      BY <1>3, <1>4, <2>1, <2>2
  <2>4. QED
    BY <1>5, <2>1, <2>3 DEF TurnOf, n
<1>7. QED
  BY <1>5, <1>6 DEF n

\* What the invariants say of reasoning when the request goes out.
LEMMA TurnsReason == RequestInv /\ ComesBackInv /\ TellInv => ReasoningGoesWithItsTurn
<1> SUFFICES ASSUME RequestInv, ComesBackInv, TellInv, pc = "upstream"
             PROVE  /\ \A k \in 1..Len(out) : Reasons(out[k]) =>
                          \A f \in ToSet(out[k].reasoning), g \in ToSet(Fragments(out[k])) : TurnOf(f) = TurnOf(g)
                    /\ \A i \in 1..Len(history) :
                          (\E p \in ToSet(history[i].pieces) : ReadBack(history[i], p)) /\ Continues(i) =>
                              \E k \in 1..Len(out) : Reasons(out[k]) /\ TurnOf(out[k].reasoning[1]) = Turn(i)
  BY DEF ReasoningGoesWithItsTurn
<1> DEFINE ms == ParseOf(dialect)[history].messages
<1>1. /\ dialect \in Dialect /\ history \in Seq(Utterable(dialect))
      /\ out = Request(dialect, history)
  BY DEF RequestInv, Typed, Building, ComesBackInv
<1>2. Consecutive(dialect, history)
  BY <1>1 DEF TellInv, Recent
<1>3. ms \in Seq(CanonicalMessage) /\ out = NormalOf[ms].out /\ Thoughtful(dialect, history, ms)
  BY <1>1, <1>2, RequestTyped, HistoryThinks DEF Request
<1> HIDE DEF ms
<1>4. /\ \A i \in 1..Len(history) : Turn(i) = TurnAt(history, i)
      /\ \A t, f : SaidIn(history, t, f) => TurnOf(f) = t
  BY <1>1, <1>2, TurnIsKnown
<1>5. ASSUME NEW k \in 1..Len(out), Reasons(out[k]),
             NEW f \in ToSet(out[k].reasoning), NEW g \in ToSet(Fragments(out[k]))
      PROVE  TurnOf(f) = TurnOf(g)
  <2>1. PICK j \in 1..Len(ms) : ms[j] = out[k]
    BY <1>3, <1>5, NormalThinks
  <2>2. PICK t : Whole(history, out[k], t)
    BY <1>3, <1>5, <2>1 DEF Thoughtful
  <2>3. QED
    BY <1>4, <1>5, <2>2 DEF Whole
<1>6. ASSUME NEW i \in 1..Len(history), NEW p \in ToSet(history[i].pieces), ReadBack(history[i], p), Continues(i)
      PROVE  \E k \in 1..Len(out) : Reasons(out[k]) /\ TurnOf(out[k].reasoning[1]) = Turn(i)
  <2>1. Thinks(dialect, history[i])
    <3> DEFINE ps == history[i].pieces
    <3>1. ps \in Seq(HistoryPiece)
      BY <1>1, ElementOfSeq, Uttered
    <3> HIDE DEF ps
    <3>2. PICK j \in 1..Len(ps) : p = ps[j]
      BY <3>1, LenProperties DEF ToSet, ps
    <3>3. QED
      BY <1>6, <3>2 DEF Thinks, ReadBack, ps
  <2>2. Carried(dialect, history, i)
    BY <1>1, <1>4, <1>6, LenProperties DEF Carried, Continues, GoesOn
  <2>3. PICK j \in 1..Len(ms) : Reasons(ms[j]) /\ \A f \in ToSet(ms[j].reasoning) : SaidIn(history, Turn(i), f)
    BY <1>3, <1>4, <2>1, <2>2 DEF Thoughtful, Recalls
  <2>4. PICK k \in 1..Len(out) : out[k] = ms[j]
    BY <1>3, AllGoOut
  <2> DEFINE r == ms[j].reasoning
  <2>5. r \in Seq(Nat) /\ r # <<>>
    BY <1>3, <2>3, ElementOfSeq DEF CanonicalMessage, Reasons
  <2> HIDE DEF r
  <2>6. r[1] \in ToSet(r)
    BY <2>5, EmptySeq, LenProperties DEF ToSet
  <2>7. QED
    BY <1>4, <2>3, <2>4, <2>6 DEF r
<1>7. QED
  BY <1>5, <1>6

\* Reasoning stays with its turn: whatever a client brings and the model
\* answers, no request shows the model a thought beside the text or a call of
\* another turn, and a turn whose reasoning is read back, and goes on, goes out
\* with some (the parsers with what is pending between their items, the
\* emitters, and normalize_tool_parents, whose parents think nothing).
THEOREM ReasoningStays == Spec => []ReasoningGoesWithItsTurn
<1>1. Init => RequestInv /\ ComesBackInv /\ TellInv
  BY InitRequestInv, InitComesBack, InitTell
<1>2. RequestInv /\ ComesBackInv /\ TellInv /\ [Next]_vars => (RequestInv /\ ComesBackInv /\ TellInv)'
  BY NextRequestInv, NextComesBack, NextTell
<1>3. QED
  BY <1>1, <1>2, TurnsReason, PTL DEF Spec

=============================================================================

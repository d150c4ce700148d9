---------------------------- MODULE MCStreamPump ----------------------------
(***************************************************************************)
(* Every stream of up to MaxItems items over a small alphabet, that ends   *)
(* well or breaks off.                                                     *)
(***************************************************************************)
EXTENDS StreamPump

CONSTANTS MaxItems, c1

\* A whole usage object with a count beyond the word, and two partial ones.
u1 == [prompt |-> Word + 1, completion |-> 1]
u2 == [prompt |-> None, completion |-> 2]
u3 == [prompt |-> 2, completion |-> None]

MCReport == {u1, u2, u3}

Data(chunk) == [kind |-> "data", chunk |-> chunk]
Call(k, args) == [index |-> k, args |-> args]

MCItems ==
    { [kind |-> "done", chunk |-> Blank],
      Data([Blank EXCEPT !.reasoning = TRUE]),
      Data([Blank EXCEPT !.text = TRUE, !.usage = u1]),
      Data([Blank EXCEPT !.reasoning = TRUE, !.text = TRUE]),
      Data([Blank EXCEPT !.calls = <<Call(1, TRUE), Call(0, FALSE), Call(1, TRUE)>>]),
      Data([Blank EXCEPT !.calls = <<Call(0, TRUE)>>, !.finish = TRUE, !.usage = u3]),
      Data([Blank EXCEPT !.usage = u2, !.cost = c1]),
      Data([Blank EXCEPT !.error = TRUE]) }

\* What is no chunk at all, once.
MCNoise == {<< [kind |-> "noise", chunk |-> Blank] >>}

MCScripts ==
    [items : MCNoise \cup UNION {[1..n -> MCItems] : n \in 0..MaxItems},
     stop : {"eof", "broken"}]
=============================================================================

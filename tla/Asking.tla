------------------------------- MODULE Asking --------------------------------
(* Questions about pure functions.  A state is a question: an input of one  *)
(* of them, or nothing.                                                     *)
VARIABLE question

About(topic) == question.about = topic
Nothing == [about |-> "nothing"]
Unasked == question = Nothing

AskAgain == ~About("nothing") /\ question' = Nothing
=============================================================================

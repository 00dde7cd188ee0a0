----------------------------- MODULE UserQuestion -----------------------------
(***************************************************************************)
(* What ask promises of a question (worker/decisions.py), without a word   *)
(* on connections, broadcasts and screens: it is put only to somebody who  *)
(* listens, the first answer to it that arrives settles it, it is declined *)
(* only when nobody listens any more, and it returns what settled it.      *)
(***************************************************************************)
CONSTANTS Choice, None

VARIABLES heard,     \* somebody listens
          open,      \* a question is open
          said,      \* the answers to it that are under way
          answer,    \* what settled it
          result     \* what the last question returned

vars == <<heard, open, said, answer, result>>

Init == heard = FALSE /\ open = FALSE /\ said = {} /\ answer = None /\ result = None

\* No answer precedes its question.
Pose ==
    /\ ~ open /\ heard
    /\ open' = TRUE /\ said' = {} /\ answer' = None /\ result' = None
    /\ UNCHANGED heard

\* Listeners come and go, answers are sent; none is lost as long as it counts.
Others ==
    /\ heard' \in BOOLEAN /\ said' \subseteq Choice
    /\ open /\ answer = None => said \subseteq said'
    /\ UNCHANGED <<open, answer, result>>

Settle(choice) ==
    /\ open /\ answer = None /\ choice \in said
    /\ answer' = choice /\ said' \subseteq said
    /\ UNCHANGED <<heard, open, result>>

GiveUp ==
    /\ open /\ answer = None /\ ~ heard'
    /\ answer' = "decline"
    /\ UNCHANGED <<open, said, result>>

Return ==
    /\ open /\ answer # None
    /\ open' = FALSE /\ answer' = None /\ result' = answer
    /\ UNCHANGED <<heard, said>>

Next == Pose \/ Others \/ GiveUp \/ Return \/ \E choice \in Choice : Settle(choice)

Spec == Init /\ [][Next]_vars
===============================================================================

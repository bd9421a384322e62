-------------------------- MODULE InferenceService --------------------------
(***************************************************************************)
(* What an inference session promises its client (infcom.h, "Inference     *)
(* Mode"): every image the client submits is answered once, in the order   *)
(* of submission, with its own label, and the session is closed only when  *)
(* all of them have been answered.  Either side may break the connection.  *)
(***************************************************************************)
EXTENDS Naturals, Sequences

CONSTANTS NumImages,    \* images the client submits, numbered 1..NumImages
          Label(_)      \* the answer to an image

VARIABLES submitted,    \* images 1..submitted have been submitted
          answers,      \* <<image, label>> pairs, in the order received
          status        \* "open", "closed" or "broken"

vars == <<submitted, answers, status>>

Init == submitted = 0 /\ answers = <<>> /\ status = "open"

Submit ==
    /\ status = "open" /\ submitted < NumImages
    /\ submitted' = submitted + 1
    /\ UNCHANGED <<answers, status>>

Answer ==
    /\ status = "open"
    /\ \E n \in (Len(answers) + 1)..submitted :
         answers' = [i \in 1..n |-> IF i <= Len(answers) THEN answers[i]
                                    ELSE <<i, Label(i)>>]
    /\ UNCHANGED <<submitted, status>>

Close ==
    /\ status = "open" /\ submitted = NumImages /\ Len(answers) = NumImages
    /\ status' = "closed"
    /\ UNCHANGED <<submitted, answers>>

Break ==
    /\ status = "open"
    /\ status' = "broken"
    /\ UNCHANGED <<submitted, answers>>

Next == Submit \/ Answer \/ Close \/ Break

Spec == Init /\ [][Next]_vars
FairSpec == Spec /\ WF_vars(Submit) /\ WF_vars(Answer) /\ WF_vars(Close)
=============================================================================

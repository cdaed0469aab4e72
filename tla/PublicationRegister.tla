------------------------- MODULE PublicationRegister -------------------------
(***************************************************************************)
(* What the model publication promises to whoever downloads the model: the *)
(* accepted model is one value that an invocation replaces in one step, an *)
(* answer is the value that was accepted when the request looked, and a    *)
(* request that cannot be answered is refused, never answered with a       *)
(* mixture or with a model nobody accepted.                                *)
(***************************************************************************)
CONSTANTS Generation, Reader, None, Refusal

VARIABLES
    current,    \* the accepted generation, or None
    history,    \* the generations ever accepted
    asked,      \* what each request saw when it looked
    answer      \* what each request was answered

vars == <<current, history, asked, answer>>

Init ==
    /\ current = None
    /\ history = {}
    /\ asked = [r \in Reader |-> None]
    /\ answer = [r \in Reader |-> None]

\* A generation is accepted once.
Accept ==
    /\ \E g \in Generation \ history : current' = g /\ history' = history \cup {g}
    /\ UNCHANGED <<asked, answer>>

\* A loss of power may undo an acceptance whose durability was not confirmed.
Revert ==
    /\ current' \in history \cup {None}
    /\ UNCHANGED <<history, asked, answer>>

Ask ==
    /\ \E r \in Reader : asked' = [asked EXCEPT ![r] = current]
    /\ UNCHANGED <<current, history, answer>>

\* Files from before the first acceptance, or of one that was undone, may still
\* answer a request that saw no acceptance.
Answer ==
    /\ \E r \in Reader :
         \E a \in Refusal \cup {asked[r]} \cup (IF asked[r] = None THEN history ELSE {}) :
           answer' = [answer EXCEPT ![r] = a]
    /\ UNCHANGED <<current, history, asked>>

Next == Accept \/ Revert \/ Ask \/ Answer

Spec == Init /\ [][Next]_vars
=============================================================================

---------------------------- MODULE SessionChain ----------------------------
(***************************************************************************)
(* What a session is to a client: a chain of refresh tokens of which one   *)
(* at most is good at a time.  A session is named by its first token.      *)
(* Every exchange replaces the good token by a new one; a closed session   *)
(* never gets a token again, and no token is ever used twice.              *)
(***************************************************************************)
CONSTANTS Tokens, None

VARIABLES
    current,    \* the good token of a session, None before and after it
    spent       \* tokens that have been handed out

Open(k) ==
    /\ k \notin spent
    /\ current' = [current EXCEPT ![k] = k]
    /\ spent' = spent \cup {k}

Rotate(s, k) ==
    /\ current[s] # None /\ k \notin spent
    /\ current' = [current EXCEPT ![s] = k]
    /\ spent' = spent \cup {k}

Close(s) == current' = [current EXCEPT ![s] = None] /\ UNCHANGED spent

Init == current = [s \in Tokens |-> None] /\ spent = {}

Next ==
    \/ \E k \in Tokens : Open(k)
    \/ \E s, k \in Tokens : Rotate(s, k)
    \/ \E s \in Tokens : Close(s)

Spec == Init /\ [][Next]_<<current, spent>>
=============================================================================

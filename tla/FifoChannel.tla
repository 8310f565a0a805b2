----------------------------- MODULE FifoChannel -----------------------------
(***************************************************************************)
(* What a client connection promises its server: messages are numbered in  *)
(* the order they were sent, each is handed over once and in that order,   *)
(* and only a closed connection may withhold the rest.                     *)
(***************************************************************************)
EXTENDS Naturals

VARIABLES
    sent,      \* how many messages were sent
    received,  \* how many of them the peer has got
    open

channel == <<sent, received, open>>

Init == sent = 0 /\ received = 0 /\ open = TRUE

Send ==
    /\ open
    /\ sent' > sent /\ sent' \in Nat
    /\ UNCHANGED <<received, open>>

Deliver ==
    /\ open
    /\ received < sent
    /\ received' = received + 1
    /\ UNCHANGED <<sent, open>>

Close ==
    /\ open' = FALSE
    /\ UNCHANGED <<sent, received>>

Next == Send \/ Deliver \/ Close

(* An open connection delivers everything in the end.                      *)
Spec == Init /\ [][Next]_channel /\ WF_channel(Deliver)
=============================================================================

-------------------------- MODULE MCWebSocketServer --------------------------
(* WebSocketServer on small sets; sessions and players are interchangeable. *)
EXTENDS WebSocketServer, TLC

(* Every client sends anything.                                            *)
Anything == [s \in Session |-> Frame]

(* The same up to the names of the players, for liveness, where TLC cannot *)
(* use symmetry: whatever player a certain session claims is called p.     *)
AnythingUpToNames ==
    LET t == CHOOSE s \in Session : TRUE
        p == CHOOSE q \in Player : TRUE
    IN [s \in Session |-> IF s = t THEN {f \in Frame : f = Malformed \/ f \in [player : {p}, seq : 0 .. MaxSeq]}
                                   ELSE Frame]

Symmetry == Permutations(Session) \cup Permutations(Player)
=============================================================================

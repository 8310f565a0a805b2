------------------------------ MODULE MCFlight -------------------------------
(***************************************************************************)
(* Flight with interchangeable players and lengths in units of 5 mm, where *)
(* directions have length 5: a projectile flies 0.5 m in a tick of 1/60 s, *)
(* starts 0.3 m before the shooter and touches within 0.7 m.  From There   *)
(* it is aimed at the middle of the Origin; from the Origin it is aimed    *)
(* past There, and grazes.  A move goes from the Origin to There: the runs *)
(* of inputs that take a player somewhere are one input.                   *)
(***************************************************************************)
EXTENDS Flight, TLC

There == [x |-> 210, y |-> 135]

MCPlaces == {Origin, There}

MCMove == {Origin, There}

MCAim == {[x |-> 5, y |-> 0], [x |-> -4, y |-> -3]}

Symmetry == Permutations(Player)
=============================================================================

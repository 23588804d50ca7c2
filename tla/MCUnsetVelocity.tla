--------------------------- MODULE MCUnsetVelocity ---------------------------
(* Rides of one leg and of two, the second of distance 0 or not known. *)
EXTENDS UnsetVelocity

MCRides == {<<5>>, <<5, 0>>}
=============================================================================

-------------------------- MODULE MCNetworkService --------------------------
(* Small instances of NetworkService for TLC. *)
EXTENDS NetworkService

CONSTANTS a, b

MCPlans == a :> {<<0, 1, 0>>} @@ b :> {<<>>}
MCCuts == a :> {2, 6, 10} @@ b :> {}
=============================================================================

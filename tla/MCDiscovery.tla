----------------------------- MODULE MCDiscovery ----------------------------
(* Values for the constants of Discovery that a .cfg cannot write. *)
EXTENDS Discovery, TLC

CONSTANTS e1, e2, a1, b1, a2

MCAddressesOf == (e1 :> {a1, b1}) @@ (e2 :> {a2})
=============================================================================

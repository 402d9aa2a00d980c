------------------------------ MODULE MCBusTap ------------------------------
(* Values for the constants of BusTap that a .cfg cannot write. *)
EXTENDS BusTap

CONSTANT h1

Ask(rate, mask) == [rate |-> rate, mask |-> mask]

\* a host that leaves the configuration alone, and one that changes it
MCListener == h1 :> Ask(0, {})
MCReconfigures == h1 :> Ask(2, {0})

MCTwoChannels == {0, 1}
MCNone == {}
=============================================================================

------------------------------ MODULE MCSession -----------------------------
(* Values for the constants of Session that a .cfg cannot write. *)
EXTENDS Session

MCTwoChannels == {0, 1}

\* fs_total * speed = 4 samples per instant
MCDue == [t \in 0..MaxNow |-> 4 * t]
=============================================================================

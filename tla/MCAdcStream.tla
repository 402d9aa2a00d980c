---------------------------- MODULE MCAdcStream -----------------------------
(* Values for the constants of AdcStream that a .cfg cannot write. *)
EXTENDS AdcStream, TLC

CONSTANTS h1, h2

Ask(rate, mask) == [rate |-> rate, mask |-> mask]

\* h1 asks for a rate and channels, h2 only for channels
MCFullAndPartial == (h1 :> Ask(2, {0, 1})) @@ (h2 :> Ask(0, {2}))

\* one host, asking for another rate and fewer channels
MCOneHost == h1 :> Ask(2, {0, 1})

MCAllChannels == Channels
MCTwoChannels == {0, 1}

MCNone == {}
\* the driver refuses h1's configuration
MCRefused == {[rate |-> 2, mask |-> {0, 1}]}
=============================================================================

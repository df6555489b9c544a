------------------------------ MODULE MC_MDEC ------------------------------
(* The MDEC and its two channels for model checking.                       *)
EXTENDS MDEC

MCOrder == <<"MDECin", "MDECout">>
MCMode == [c \in Channels |-> "request"]
MCStarts == {<<"MDECin", 2>>, <<"MDECout", 2>>}
MCDpcr == {{}, Channels}
MCEnables == [in : BOOLEAN, out : BOOLEAN]
MCCommands == {[kind |-> "colour", words |-> 3], [kind |-> "mono", words |-> 3],
               [kind |-> "table", words |-> 1], [kind |-> "table", words |-> 2],
               [kind |-> "unknown", words |-> 0]}

\* The input channel may start its transfer within itself, but once.
MaxInputTransfers == 2
ReentersOnce == Cardinality(Transfers("MDECin")) <= MaxInputTransfers
=============================================================================

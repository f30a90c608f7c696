--------------------------- MODULE MCAnteRouting ----------------------------
\* Every combination of options and messages at one fee, and plain Cosmos and
\* Ethereum transactions of all fees, with and without a fault of their own.
EXTENDS AnteRouting

Options == {<<>>, <<"ethereum">>, <<"dynamicFee">>, <<"other">>,
            <<"ethereum", "dynamicFee">>, <<"dynamicFee", "ethereum">>,
            <<"dynamicFee", "dynamicFee">>, <<"dynamicFee", "other">>}

Messages == {{"cosmos"}, {"ethereum"}, {"nestedEthereum"}, {"cosmos", "ethereum"}}

Shaped ==
    [options : Options, messages : Messages, sender : Account, sequence : {0, 1},
     fee : {2}, fails : {"none"}]

Plain ==
    [options : {<<>>}, messages : {{"cosmos"}}, sender : Account, sequence : {0, 1},
     fee : {1, 2}, fails : {"none", "ValidateMemo", "RedundantRelay"}]
    \cup
    [options : {<<"ethereum">>}, messages : {{"ethereum"}}, sender : Account,
     sequence : {0, 1}, fee : {1, 2}, fails : {"none", "EVMMono"}]

MCTx == Shaped \cup Plain

=============================================================================

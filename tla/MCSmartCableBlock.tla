-------------------------- MODULE MCSmartCableBlock --------------------------
EXTENDS SmartCableBlock

Asked == {<<>>, <<1>>, <<165, 1>>, <<165, 1, 250>>}
Told == {<<0, 5>>}

ASSUME Distinguishable

\* The sum tells apart, too, blocks that PFTC and the mock server really exchange: every request, that of
\* SET_NETIF with the mock's own settings, and the answers to all but two of them.
PftcRequests ==
  {<<1>>, <<2>>, <<3, 0>>, <<7, 0>>, <<8, 0>>,
   <<4, 0, 1, 1, 0, 192, 168, 1, 42, 24, 192, 168, 1, 1, 0, 8, 77, 111, 99, 107, 83, 83, 73, 68, 0>>}
MockResponses ==
  {<<32, 0, 80, 70, 67, 49, 0, 0, 255, 255, 0, 0, 0, 0>>, <<32, 0, 1, 0, 1, 1>>,
   <<32, 0, 0, 1, 1, 2, 192, 168, 1, 42, 24, 192, 168, 1, 1, 192, 168, 1, 1, 0, 0, 6, 211,
     8, 77, 111, 99, 107, 83, 83, 73, 68>>,
   <<32, 0>>, <<16, 1>>, <<16, 2>>, <<16, 4>>}

ASSUME RealBlocksArePlain ==
  (\A b \in PftcRequests : PlainRequest(b)) /\ (\A b \in MockResponses : PlainResponse(b))

=============================================================================

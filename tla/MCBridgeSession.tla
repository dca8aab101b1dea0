--------------------------- MODULE MCBridgeSession ---------------------------
EXTENDS BridgeSession

Cmd(op, p, q) == [op |-> op, p |-> p, q |-> q]

MCRequests(a, b, m) ==
  {Cmd("list", a, a), Cmd("mkdir", a, a), Cmd("delete", a, a), Cmd("delete", m, m),
   Cmd("rmdir", a, a), Cmd("rename", a, b), Cmd("copy", a, b), Cmd("other", a, a), Empty}

CONSTANTS a, b, m

SessionRequests == MCRequests(a, b, m)
PlainPieces == {Cmd("other", a, a)}

RenameRequest == {Cmd("rename", a, b)}
DeleteRequests == {Cmd("delete", a, a), Cmd("delete", m, m)}

=============================================================================

----------------------------- MODULE MCTerminal -----------------------------
(* Terminal with every kind of command, of which a client sends some.       *)
EXTENDS Terminal

AllKinds == {"plain", "push", "back", "quit", "invalid", "fail"}
=============================================================================

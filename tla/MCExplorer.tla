----------------------------- MODULE MCExplorer -----------------------------
(* One account; two passwords that agree in the 72 bytes bcrypt looks at, of *)
(* which one goes on after them.                                             *)
EXTENDS Explorer

CONSTANTS head, tail

MCPasswords == {[head |-> head, tail |-> NoTail], [head |-> head, tail |-> tail]}
=============================================================================

----------------------------- MODULE MCRawEcho -----------------------------
(* RawEcho with two clients that both fit in the table.                    *)
EXTENDS RawEcho

CONSTANTS c1, c2

OneClient == {c1}
TwoClients == {c1, c2}
=============================================================================

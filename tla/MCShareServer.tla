--------------------------- MODULE MCShareServer ---------------------------
(* Small shares for TLC: a few requests, of the kinds that take different   *)
(* branches of the handlers.                                                *)
EXTENDS ShareServer, TLC

A(g, p, b, c) == [get |-> g, path |-> p, body |-> b, code |-> c]

Good      == A(TRUE, "baseline", "none", TRUE)
WrongCode == A(TRUE, "baseline", "none", FALSE)
Chunked   == A(TRUE, "baseline", "chunked", TRUE)

(* One ask for each branch of Gate, and the body that its test lets pass. *)
EveryAsk  == {Good, WrongCode, Chunked, A(TRUE, "baseline", "sized", TRUE),
              A(TRUE, "resolve", "none", TRUE), A(FALSE, "baseline", "none", TRUE)}

(* Only what consumes a slot, or just fails to. *)
Downloads == {Good, WrongCode}
Uploads   == {Chunked}

Symmetry == Permutations(Requests)
=============================================================================

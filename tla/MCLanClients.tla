---------------------------- MODULE MCLanClients ----------------------------
(* Two shares on one host, taking turns on a port or side by side, and the  *)
(* commands their teammates type.                                           *)
EXTENDS LanClients, TLC

CONSTANTS s1, s2

Offer(repo, open, lan, unsafe, ttl, port) ==
  [repo |-> repo, open |-> open, lan |-> lan, unsafe |-> unsafe, ttl |-> ttl, port |-> port]

CompareWith(repo, code) ==
  [prog |-> "compare", repo |-> repo, code |-> code, from |-> None, pin |-> None,
   unsafe |-> FALSE]

CheckFrom(s, pin, unsafe) ==
  [prog |-> "check", repo |-> "", code |-> None, from |-> s, pin |-> pin, unsafe |-> unsafe]

(* LAN shares on one port or on two, with and without a code, in the clear  *)
(* for once, and one that has a code but is given by its URL.               *)
LanOffers == {Offer("app", FALSE, TRUE, FALSE, 1, 1), Offer("app", TRUE, TRUE, FALSE, 2, 1),
              Offer("app", FALSE, TRUE, FALSE, 1, 2), Offer("lib", TRUE, TRUE, FALSE, 1, 2),
              Offer("app", TRUE, TRUE, TRUE, 1, 2), Offer("app", FALSE, FALSE, FALSE, 1, 1)}

LanCommands == {CompareWith("", None), CompareWith("app", s1), CompareWith("", s2),
                CompareWith("app", None), CheckFrom(s1, s1, FALSE)}

(* Open shares given by URL, over TLS and in the clear, on the same port. *)
UrlOffers == {Offer("app", TRUE, FALSE, FALSE, 1, 1), Offer("app", TRUE, FALSE, TRUE, 1, 1),
              Offer("app", FALSE, TRUE, FALSE, 1, 1)}

UrlCommands == {CheckFrom(s1, s1, FALSE), CheckFrom(s1, None, TRUE), CheckFrom(s2, s2, FALSE),
                CheckFrom(s2, None, TRUE), CheckFrom(s1, s2, FALSE), CompareWith("app", s1)}

(* --ttl 0, which StartServer replaces and advertiseLAN does not. *)
ZeroTTL    == {Offer("app", TRUE, TRUE, FALSE, 0, 1)}
(* share current without --lan and without --open. *)
CodeByUrl  == {Offer("app", FALSE, FALSE, FALSE, 1, 1)}
(* What a teammate types who was given a URL and a pin. *)
GivenUrl   == {CheckFrom(s1, s1, FALSE)}
(* Two shares of one repository, and what the second one printed. *)
SameRepo   == {Offer("app", FALSE, TRUE, FALSE, 1, 1), Offer("app", FALSE, TRUE, FALSE, 1, 2)}
GivenCode  == {CompareWith("app", s2)}
=============================================================================

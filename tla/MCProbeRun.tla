----------------------------- MODULE MCProbeRun -----------------------------
(* Two hosts; configurations in which each kind of probe occurs, alone or  *)
(* beside another one.                                                     *)
EXTENDS ProbeRun, TLC

CONSTANTS h1, h2

P(kind, host, required) ==
  [kind |-> kind, name |-> "n", host |-> host, required |-> required,
   timeout |-> 0, expected |-> "", within |-> 0]

None == [k \in Kinds |-> <<>>]

TLS(name, host, within) == [P("tls", host, TRUE) EXCEPT !.name = name, !.within = within]

MCConfigs ==
  { None,
    [None EXCEPT !["tcp"]   = <<[P("tcp", h1, TRUE) EXCEPT !.timeout = 2]>>,
                 !["redis"] = <<[P("redis", h1, TRUE) EXCEPT !.timeout = 2]>>],
    [None EXCEPT !["dns"]   = <<P("dns", h1, FALSE)>>,
                 !["http"]  = <<P("http", h2, TRUE), [P("http", h2, FALSE) EXCEPT !.expected = "503"]>>],
    [None EXCEPT !["tls"]   = <<TLS("a", h1, 0), TLS("b", h1, 9)>>],
    [None EXCEPT !["tls"]   = <<TLS("a", h1, 9), TLS("a", h2, 0)>>],
    [None EXCEPT !["postgres"] = <<P("postgres", h1, TRUE)>>,
                 !["redis"]    = <<P("redis", h2, FALSE)>>],
    [None EXCEPT !["tcp"]   = <<P("tcp", h2, FALSE)>>,
                 !["mysql"] = <<P("mysql", h1, TRUE)>>] }

MCAnswers ==
  (h1 :> { <<"S">>, <<"E">>, <<"len2", "seq", "v10", "5.7">>, <<"len2", "seq", "v9">>,
           <<"len0", "seq">>, <<"len9", "seq", "v10">>, <<"+PO", "NG">> })
    @@ (h2 :> { <<>>, <<"-NOAUTH">>, <<"+PO", "NG">>, <<"junk", "junk", "junk">> })

MCCertificate ==
  (h1 :> [valid |-> TRUE, expired |-> FALSE, days |-> 9])
    @@ (h2 :> [valid |-> FALSE, expired |-> FALSE, days |-> 90])

Line == [cmd |-> "probe", noNetwork |-> FALSE, noTLS |-> FALSE, timeout |-> 1, format |-> TRUE]

MCCommandLines == { Line, [Line EXCEPT !.cmd = "check", !.timeout = -1],
                    [Line EXCEPT !.noNetwork = TRUE, !.timeout = 1],
                    [Line EXCEPT !.noTLS = TRUE, !.format = FALSE, !.timeout = 1] }

MCStatuses == (h1 :> {"200"}) @@ (h2 :> {"200", "503"})
=============================================================================

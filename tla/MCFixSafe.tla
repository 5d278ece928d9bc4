----------------------------- MODULE MCFixSafe -----------------------------
(* Three keys: a sensitive one, one with a default, and one that people    *)
(* fill in.                                                                *)
EXTENDS FixSafe, TLC

CONSTANTS token, port, url

FileWith(present, val, last, nl) ==
  [exists |-> TRUE, vals |-> [k \in Keys |-> IF k \in present THEN val[k] ELSE "absent"],
   last |-> last, nl |-> nl]

ExampleVals == (token :> "default") @@ (port :> "default") @@ (url :> "blank")
UserVals    == [k \in Keys |-> "user"]

(* As `snagify init` leaves it: every declared key is in .env.example. *)
FullExample  == FileWith(Keys, ExampleVals, url, TRUE)
(* A configuration that has outgrown its example. *)
ShortExample == FileWith({token, port}, ExampleVals, port, TRUE)

FullExamples  == {FullExample, NoFile}
ShortExamples == {ShortExample}
OneExample    == {FullExample}

NothingYet  == {NoFile}
EndedFiles  == {NoFile, Empty, FileWith({url}, UserVals, url, TRUE),
                FileWith({port, url}, UserVals, port, TRUE)}
CutFiles    == {FileWith({url}, UserVals, url, FALSE)}
=============================================================================

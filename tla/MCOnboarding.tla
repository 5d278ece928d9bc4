---------------------------- MODULE MCOnboarding ----------------------------
(* A machine and the ways in which another one differs from it; one        *)
(* configuration for each section.                                         *)
EXTENDS Onboarding, TLC

MCKeys      == {"API_KEY", "SMTP_ENABLED", "SMTP_TOKEN", "PORT"}
MCSensitive == {"API_KEY", "SMTP_TOKEN"}
MCDisables  == [k \in MCKeys |-> IF k = "SMTP_ENABLED" THEN {k, "SMTP_TOKEN"} ELSE {}]

Comment(words) == [kind |-> "comment", words |-> words]
KeyLine(key, value) == [kind |-> "key", key |-> key, value |-> value]
Blank == [kind |-> "blank"]

V(v) == [version |-> v, clean |-> TRUE]
Raw(v) == [version |-> v, clean |-> FALSE]

Here ==
  [version |-> [n \in RuntimeNames |-> CASE n = "node" -> V(<<20, 1>>) [] n = "go" -> V(<<1, 21>>)
                                          [] OTHER -> Raw(<<>>)],
   path |-> {"node", "npm", "go", "git", "docker", "make"}, listening |-> {"5432"},
   git |-> [present |-> TRUE, branch |-> "main", dirty |-> FALSE, untracked |-> FALSE],
   docker |-> [images |-> {[repository |-> <<"pg">>, tag |-> "16"]},
               containers |-> {{"db", "pg"}}],
   arch |-> "amd64", timezone |-> "UTC", locale |-> "C", fs |-> "yes",
   manifests |-> {"package.json"}, files |-> {"compose.yml"},
   example |-> <<Comment({"required"}), Comment({}), KeyLine("PORT", "x"), KeyLine("API_KEY", "")>>,
   envExists |-> TRUE, env |-> {"PORT", "API_KEY"}, envTracked |-> FALSE, ignored |-> TRUE,
   weakMode |-> FALSE, leaks |-> FALSE]

MCMachines ==
  { Here,
    [Here EXCEPT !.version["node"] = V(<<20>>), !.example = <<Comment({"optional"}), Blank, KeyLine("API_KEY", "")>>],
    [Here EXCEPT !.version["node"] = Raw(<<18, 9>>), !.env = {"PORT"}, !.leaks = TRUE],
    [Here EXCEPT !.version["node"] = Raw(<<>>), !.listening = {"3000"}],
    [Here EXCEPT !.path = {"git"}, !.envExists = FALSE, !.env = {}],
    [Here EXCEPT !.git.dirty = TRUE, !.git.branch = "topic", !.envTracked = TRUE, !.ignored = FALSE],
    [Here EXCEPT !.git = [present |-> FALSE, branch |-> "", dirty |-> FALSE, untracked |-> FALSE],
                 !.manifests = {"go.mod", "pom.xml"}, !.files = {}],
    [Here EXCEPT !.docker = [images |-> {}, containers |-> {}], !.arch = "arm64", !.fs = "no",
                 !.example = <<KeyLine("SMTP_TOKEN", ""), KeyLine("SMTP_ENABLED", "false")>>] }

Needs(n, requirement) ==
  [EmptyConfig EXCEPT !.runtimes = (n :> requirement)]
C(op, want) == [op |-> op, want |-> want]

MCHandwritten ==
  { Needs("node", <<C(">=", <<18>>), C("<", <<20, 1>>)>>),
    Needs("node", <<C("", <<20, 0>>)>>),
    Needs("node", <<C("=", <<>>), C("<", <<18>>)>>),
    [Needs("deno", <<>>) EXCEPT !.ignored = {"node"}, !.required = {"API_KEY"},
                                !.recommended = {"PORT"}, !.listening = {"5432"}, !.free = {"3000"}],
    [EmptyConfig EXCEPT !.branch = "main", !.requireClean = TRUE, !.commands = {"go", "git"}],
    [EmptyConfig EXCEPT !.warnDirty = TRUE, !.arch = {"amd64"}, !.timezone = "UTC",
                        !.locale = "C", !.fs = "yes",
                        !.docker = [required |-> TRUE, files |-> {"compose.yml"},
                                    images |-> {<<"pg", "16">>, <<"pg">>}, containers |-> {"db"}]] }

MakeIsNeeded == { [EmptyConfig EXCEPT !.commands = {"make"}] }
=============================================================================

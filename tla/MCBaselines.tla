---------------------------- MODULE MCBaselines ----------------------------
(* A machine, and machines that differ from it in one way or another.      *)
EXTENDS Baselines, TLC

None   == [present |-> FALSE, version |-> <<>>, clean |-> FALSE]
V(v)   == [present |-> TRUE, version |-> v, clean |-> TRUE]
Raw(v) == [present |-> TRUE, version |-> v, clean |-> FALSE]

Tools(java, maven) ==
  [n \in RuntimeNames |-> CASE n = "java" -> java [] n = "maven" -> maven [] OTHER -> None]

Here ==
  [host |-> "here", absolute |-> Places, manifests |-> {"pom.xml"},
   environment |-> [os |-> "linux", arch |-> "amd64", git |-> "2.40"],
   runtimes |-> Tools(V(<<17, 1>>), V(<<3, 9>>)),
   ports |-> ("5432" :> TRUE @@ "8080" :> FALSE), missing |-> {}]

(* Another major version and port and a key less; a version that is no     *)
(* number, another system and a key less; another project without Maven    *)
(* and an older release that dials fewer ports.                            *)
MCMachines ==
  { Here,
    [Here EXCEPT !.runtimes = Tools(V(<<21>>), V(<<3, 9>>)), !.ports["8080"] = TRUE,
                 !.missing = {"API_KEY"}],
    [Here EXCEPT !.runtimes = Tools(Raw(<<21>>), V(<<3, 9>>)), !.missing = {"API_KEY"},
                 !.environment = [os |-> "darwin", arch |-> "amd64", git |-> "2.50"]],
    [Here EXCEPT !.manifests = {}, !.runtimes = Tools(V(<<17, 2>>), None),
                 !.ports = ("5432" :> TRUE)] }

(* Two that lack a key of .env which the other one has.                    *)
TwoKeys == { [Here EXCEPT !.missing = {k}] : k \in {"API_KEY", "PORT"} }

Symmetry == Permutations(Members)
=============================================================================

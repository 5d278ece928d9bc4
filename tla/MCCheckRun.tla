----------------------------- MODULE MCCheckRun -----------------------------
(* Configurations and answers for the runs of CheckRun.                    *)
EXTENDS CheckRun

Check(severity) == [named |-> TRUE, run |-> TRUE, severity |-> severity]
Program(p)      == [named |-> TRUE, program |-> p]

(* Two checks and a plugin; malformed entries; plugins alone.              *)
MCConfigs == {
  [sections |-> {"docker"},
   custom   |-> <<Check("critical"), Check("other")>>,
   plugins  |-> <<Program("command")>>],
  [sections |-> {"system"},
   custom   |-> <<[Check("warning") EXCEPT !.run = FALSE], Check("warning")>>,
   plugins  |-> <<Program("binary"), [Program("path") EXCEPT !.named = FALSE]>>],
  [sections |-> {},
   custom   |-> <<>>,
   plugins  |-> <<Program("path"), Program("blank")>>]}

PluginOnly == {[sections |-> {}, custom |-> <<>>, plugins |-> <<Program("command")>>]}

Says(results) == [kind |-> "results", results |-> results]
MCAnswers == {Says({}), Says({"ok", "critical"}), Says({"warning", "other"}),
              [kind |-> "bailed", results |-> {"critical"}],
              [kind |-> "badjson", results |-> {}]}
=============================================================================

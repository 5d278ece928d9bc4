\* One plugin whose descendant keeps its output pipe open.
CONSTANTS
  Configs <- PluginOnly
  Answers <- MCAnswers
SPECIFICATION FairSpec
PROPERTY NothingWedgesTheHost
CHECK_DEADLOCK FALSE

SPECIFICATION FairSpec
CONSTANTS
  Tests = {"condition_variable"}
  count_limit = 2
  NoPlayer = NoPlayer
PROPERTIES Returns

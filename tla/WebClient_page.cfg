CONSTANTS
  None = None
  alice = alice
  Menu = {"transition", "update", "comment"}
  OthersMenu = {"transition"}
  Targets = {"new", "resolved"}
  Assignees = {alice}
  MaxWrites = 2
  MaxRevision = 2
  MaxResends = 1
SPECIFICATION FairSpec
INVARIANTS TypeOK FreshAfterWrite RefusedOnlyIfChanged
PROPERTIES ViewsAdvance PageSettles

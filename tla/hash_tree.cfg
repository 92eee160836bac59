SPECIFICATION Spec
CONSTANTS
  Height = 2
  Width <- Full
  Content = {0, 1}
  Blank = 0
  MaxTorn = 0
  Leaf <- LeafOf
  Join <- JoinOf
INVARIANT OnlyTornDisagree
PROPERTIES
  UpdateRepairsPath
  TreeRepairs
  LeavesSuffice
  AcceptsOnlyRightPaths
  Returns

SPECIFICATION CfgSpec
CONSTANTS
  Devs <- MCDevs
  Resources <- MCResources
  End = 4
  Width = 8
  MaxOps = 2
INVARIANTS TakenIsSaved   

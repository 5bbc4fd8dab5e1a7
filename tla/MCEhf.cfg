\* Three secure priorities, up to three of them activated at a time.
CONSTANTS
  L = 3
  NsMasks = {5, 6}
  Idle = 7
  MaxDepth = 8
  MaxSync = 3
SPECIFICATION EhfSpec
INVARIANTS NsMaskRestored SecureIsProtected
 

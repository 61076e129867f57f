SPECIFICATION Spec
CONSTANTS
  s1 = s1
  s2 = s2
  j1 = j1
  j2 = j2
  j3 = j3
  None = None
  Sessions = {s1, s2}
  Jobs = {j1, j2, j3}
  Graphs = {s1}
  Prompt <- MCPrompt
  Config <- MCConfig
  Breakable <- MCBreakable
  MaxNew = 3
  Context = 4
  PageTokens = 2
  MaxFaults = 0
  Poison = TRUE
INVARIANTS
  TokensInOrder

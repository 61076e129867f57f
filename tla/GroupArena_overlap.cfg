SPECIFICATION Spec
CONSTANTS
  SlotCounts = {2, 4}
  Tiers = {8192, 131072}
  Limits = {32, 4096}
INVARIANTS
  TablesKept

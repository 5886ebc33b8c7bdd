\* Segments of up to three of the four sectors, up to two sealed layers.
SPECIFICATION Spec
CONSTANTS
  NSectors = 4
  MaxInserts = 3
  MaxLayers = 2
  MaxLength = 3
  LookupSizes = {1, 2, 5}
INVARIANTS MappingsDisjoint LookupFindsLatest CompactKeepsView Index0CountsBlocks
CHECK_DEADLOCK FALSE

SPECIFICATION ProfileSpec
CONSTANTS
  Updates = {r1, r2, r3}
  Names = {"go", "Go", "ml", "-", "long"}
  Slug <- Spelled
  LongSlugs = {"long"}
  Goals = {"lead", "Lead"}
  Fold <- Cases
  Extracts <- Texts
  Plans <- Lacks
  Pickings <- Picks
  Changes <- Edits
  MaxTopics = 2
  MaxGoals = 2
  MaxExtracted = 1
  MaxGoalsRead = 1
  MaxGaps = 2
  NotGiven = NotGiven
SYMMETRY Interchangeable
CHECK_DEADLOCK FALSE
INVARIANT ProfileConsistent

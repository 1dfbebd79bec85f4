\* Every split of up to 24 segments; seven templates and titles of up to two
\* tokens, keys and halves of keys.
CONSTANTS
  SegmentCounts <- SmallSegmentCounts
  ThreadCounts <- SmallThreadCounts
  Key = {"title", "id", "description"}
  Erased = {"description"}
  Word = {"title", "TITLE", "id", "description", "x", "_"}
  Lower <- LowerCase
  Templates <- SomeTemplates
  Values <- SomeValues
  MaxLength = 12
SPECIFICATION LoopsSpec
INVARIANTS
  ClosedForm
  Partition
  Expanded
  SavedWhereAsked
PROPERTY
  Returns

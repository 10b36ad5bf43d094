SPECIFICATION FairSpec

CONSTANTS
  None = None
  Gone = Gone
  ReviewIds = {1, 2, 3}
  Authors = {a}
  Comments = {good, bad}
  Unreadable = {bad}
  Creates = {c1, c2, c3}
  Jobs = {j1, j2}
  BatchSize = 2
  Faults = {"ai", "find", "crash"}
  Open = {"create", "edit", "delete"}

INVARIANT TypeOK
INVARIANT DuplicateIsRace
INVARIANT NothingTwice
INVARIANT AnalysisHasReview
INVARIANT AnalysisIsOfText
PROPERTY ReadableAnalysed

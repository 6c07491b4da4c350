SPECIFICATION Spec
CONSTANTS
  r1 = r1  r2 = r2  m1 = m1  Gone = Gone
  Requests = {r1, r2}
  Images = {m1}
  Types <- MCTypes
  Drafts <- MCDrafts
  Changes <- MCChanges
  Calendars <- MCCalendars
  MaxDocs = 3
  MaxEvents = 4
SYMMETRY MCSymmetry
INVARIANTS
  ContentsHaveTemplate
  DanglingExplained
  PublishedAreLogged
CHECK_DEADLOCK FALSE

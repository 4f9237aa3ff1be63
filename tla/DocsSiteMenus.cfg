SPECIFICATION Spec
CONSTANTS
  Pages <- DocsPages
  MaxHistory = 3
INVARIANTS
  NoDeadLink
  SectionAtHand

CONSTANTS
  Drafts = {d1, d2}
  NoDraft = NoDraft
  MaxAttempts = 2
SPECIFICATION Spec
SYMMETRY Symmetry
INVARIANTS SentReported SentOnce CopyKept
\* Every draft is sent or closed in the end.
CHECK_DEADLOCK FALSE

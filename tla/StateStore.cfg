SPECIFICATION LookupSpec
CONSTANTS
  x = x
  y = y
  tRefers = tRefers
  tBoth = tBoth
  tBroken = tBroken
  Uris = {a, b}
  Names = {x, y}
  Texts = {tRefers, tBoth, tBroken}
  Outcome <- MCOutcome
  Declares <- MCDeclares
  Refers <- MCRefers
  Threads = {t1, t2}
  Readers = {r1}
  NoThread = NoThread
  NoDocument = NoDocument
  NoArgs = NoArgs
  NoPass = NoPass
  MaxVersion = 1
  Prefetches = {"prefetch"}
  Completions = {"completion"}
  MaxReleases = 1
SYMMETRY ThreadSymmetry
INVARIANTS
  IndexesMirrorDocuments
  NeverTorn
  OwnNamesResolve
  AnswersCurrent
  DiagnosticsKnow
PROPERTIES ServesAtomically

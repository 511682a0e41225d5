SPECIFICATION SessionSpec
CONSTANTS
  both = both
  twice = twice
  manifest = manifest
  entity = entity
  anything = anything
  here = here
  elsewhere = elsewhere
  nowhere = nowhere
  Files <- MCFiles
  Existing <- MCExisting
  Protected <- MCProtected
  ProtectedBasenames <- MCProtectedBasenames
  Plans <- MCPlans
  Responses <- MCResponses
  MaxRetryCount = 1
  Aimed = Aimed
  Unnamed = Unnamed
  Nothing = Nothing
  Arguments <- MCArguments
  Meaning <- MCMeaning
  Directories <- MCDirectories
  Cwd = here
  Listing <- MCListing
  Edited <- MCEdited
  Configured <- MCConfigured
INVARIANTS CommittedIsVerified CheckpointsSurvive FailureIsRolledBack
PROPERTIES SessionIsHonest
CHECK_DEADLOCK FALSE

SPECIFICATION FairSpec
CONSTANTS
  None = None
  Image <- MCImage
  NgxBuild <- MCNgxBuild
INVARIANT CheckCorrect
INVARIANT NoWildRead
INVARIANT ResolvedMatches
INVARIANT UncheckedAfterFailure
PROPERTY SearchTerminates
CHECK_DEADLOCK FALSE

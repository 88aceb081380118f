SPECIFICATION BrowseSpec
CONSTANTS
  Place <- MCPlace
  Lower <- MCLower
  Suffixed <- MCSuffixed
  Bare <- MCBare
  Extended <- MCExtended
  Stem <- MCStem
  NoPath = NoPath
  Folders <- MCFolders
  Files <- MCFiles
  Typed <- MCTyped
  Targets <- MCTargets
  LinksIn <- MCLinksIn
  Says <- MCSays
  Tagged <- MCTagged
  PageSize = 2
  FetchLimit = 1
  SearchLimit = 3
  MaxMessages = 2
  MaxChanges = 1
INVARIANT ButtonsOpenWhatTheyShow
INVARIANT LinksResolve
INVARIANT StakesAreNamed

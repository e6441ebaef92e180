CONSTANTS
    Bookmarks <- MCBookmarks
    MaxTrail = 2
SPECIFICATION NavSpec
INVARIANTS
    NavIsSound
    TablesAgree
    NoDeadLinks

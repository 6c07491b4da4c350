\* Up to four documents, pages of one or two, a change at any time.
SPECIFICATION PagingSpec
CONSTANTS
    Docs = {1, 2, 3, 4}
    Keys <- MCKeys
    Cases <- MCCases
    MaxSize = 2
    MaxChanges = 1
INVARIANTS WalkOnce PageAdjoins PageInfoTrue

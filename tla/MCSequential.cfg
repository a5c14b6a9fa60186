\* WideSizes straddle the 32 elements of one unrolled iteration and its double;
\* Lengths straddle the prefetch distance; runs of more than 20 iterations
\* see the error twice.  Up to three words, so up to four cells; hashes that
\* share a cell with (0, 4 and 3, 15) and without (3, 3) being equal, and that
\* start at the last cell.  A text of four characters in at most two lines.
CONSTANTS
    Sizes = {0, 1, 3}
    WideSizes = {0, 1, 31, 32, 33, 64, 66}
    FixedSizes = {8, 16, 24}
    MaxPasses = 2
    Lengths = {0, 1, 2, 9, 10, 11, 13}
    Dimensions = {1, 2, 3}
    Chunks = {1, 2, 3}
    MaxSums = 2
    NODE_COUNT = 4
    MaxWalks = 3
    MaxChecks = 21
    MaxBranchRuns = 3
    Words = {w1, w2, w3}
    Hashes = {0, 3, 4, 15}
    Width = 4
    MaxWords = 3
    NoWord = NoWord
    Entries <- MCEntries
    MaxText = 4
SPECIFICATION Spec
INVARIANTS
    NoStrayAccess
    ErrorsExact
    PairsAgree
    EachVisitedOnce
PROPERTIES
    ImplementsSet
    ProgramsReturn

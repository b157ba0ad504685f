SPECIFICATION ConversionSpec
CONSTANTS
    Links <- MCLinks
    Entries <- MCEntries
    Xrays <- MCXrays
    Documents <- MCDocuments
    Rankings <- MCRankings
    CountryOf <- MCCountryOf
    LowerCase <- MCLowerCase
    CharsOf <- MCCharsOf
    BeforeColon <- MCBeforeColon
    PercentDecoded <- MCPercentDecoded
    Trimmed <- MCTrimmed
INVARIANTS
    ReadingsAgree
    FeedKeepsServer
    NothingLost
    ExportListsServed
CHECK_DEADLOCK FALSE

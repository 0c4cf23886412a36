SPECIFICATION CrawlSpec
CONSTANTS
    Inputs <- SmallInputs
    Letters <- SmallLetters
    Digits <- SmallDigits
    MaxPieces = 4
    MaxUrlPieces = 4
INVARIANTS
    OwnHref
    AnchorsFound
    Resolved
    UrlSplit
    SameSite

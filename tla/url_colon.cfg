SPECIFICATION CrawlSpec
CONSTANTS
    Inputs <- SmallInputs
    Letters <- SmallLetters
    Digits <- SmallDigits
    MaxPieces = 1
    MaxUrlPieces = 3
INVARIANT
    ColonInPath

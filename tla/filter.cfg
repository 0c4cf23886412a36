SPECIFICATION FilterSpec
CONSTANTS
    p1 = p1  p2 = p2  short = short  image = image  other = other  f1 = f1  f2 = f2
    Links <- AllLinks
    Short <- ShortLinks
    Local <- LocalLinks
    Page <- PageLinks
    Funcs <- TwoFuncs
    HashVectors <- AllHashes
    Factor = 1
    MaxLinks = 3
INVARIANTS
    KeptOnce
    LostOnlyByCollision
    Filtered

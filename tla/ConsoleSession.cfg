SPECIFICATION FairSpec
CONSTANTS
    Calls = {c1, c2}
    MaxLogins = 2
    MaxTokens = 2
INVARIANTS TypeOK OneRenewal StoreCoherent
PROPERTIES ResentInItsSession OnlyLoginBegins CallsSettle
CHECK_DEADLOCK FALSE

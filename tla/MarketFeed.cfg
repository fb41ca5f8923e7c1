SPECIFICATION FeedSpec
CONSTANTS
    h1 = h1
    h2 = h2
    Handlers = {h1, h2}
    StaleAfter = 1
    MaxDrops = 3
INVARIANTS
    AlertsAlternate
PROPERTIES
    FeedConnects

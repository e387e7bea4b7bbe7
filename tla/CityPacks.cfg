CONSTANTS
    o1 = o1
    o2 = o2
    o3 = o3
    o4 = o4
    o5 = o5
    w1 = w1
    w2 = w2
    w3 = w3
    w4 = w4
    w5 = w5
    x1 = x1
    x2 = x2
    x3 = x3
    Place <- MCPlace
    Wiki <- MCWiki
    Name <- MCName
    Tags <- MCTags
    Key <- MCKey
    Spot <- MCSpot
    Alike <- MCAlike
    Inside <- MCInside
    Sitelinks <- MCSitelinks
    Returns <- MCReturns
    Enough = 2
    Target = 2
    PoolCap = 2
    PackCap = 3
    Phrases <- MCPhrases
    Flaws <- MCFlaws
    Likeness <- MCLikeness
    MaxNames = 2
    MaxDeaths = 1
SPECIFICATION PacksSpec
INVARIANTS
    PoolIsSound PoolIsMaximal DemoIsAnnounced ReadyPackIsWhole
PROPERTIES MarksClear

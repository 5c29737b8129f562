SPECIFICATION ServeSpec
CONSTANTS
    p1 = p1
    p2 = p2
    t1 = t1
    t2 = t2
    s1 = s1
    s2 = s2
    AtFirst = p1
    Port <- TwoPorts
    Token <- TwoTokens
    Blank = Blank
    Socket <- OneSocket
    Listeners = 2
    MaxTaken = 1
SYMMETRY Symmetry
INVARIANTS OptionsAreTrue
 

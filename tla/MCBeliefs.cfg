SPECIFICATION FairSpec
CONSTANTS
    a = a
    b = b
    person = person
    vain = vain
    likes = likes
    isA = isA
    says = says
    X = X
    Y = Y
    Implies = Implies
    Not = Not
    And = And
    Or = Or
    Xor = Xor
    Name = {a, b, person, vain, likes, isA, says}
    FreeVar = {X, Y}
    Data <- MCData
    World <- MCWorlds
    Individual <- MCIndividual
    Told <- MCTold
    Rule <- MCRules
    Query <- MCQuery
    FirstBuckets = 3
    MaxCalls = 2
INVARIANTS TypeOK BeliefsTrue AnswersTrue DerivesAll
PROPERTIES AnswersKept DerivationEnds
CHECK_DEADLOCK FALSE

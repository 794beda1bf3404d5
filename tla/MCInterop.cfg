SPECIFICATION FairSpec
CONSTANTS
    c = c
    Script <- MCScript
    Lines <- MCLines
    Char = {c}
    Garbage = garbage
    PipeSize = 2
    BufferSize = 3
    Crashes = {"back", "front"}
INVARIANTS TypeOK ResponsesAreAnswers NothingLost
PROPERTIES AnswersReturn BothEnd RefinesTermChannel

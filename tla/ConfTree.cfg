SPECIFICATION Spec
CONSTANTS
    Name <- MCName
    Word <- MCWord
    AttrName = {"a"}
    Text <- MCText
    Default <- MCDefault
    Requests <- MCRequests
    Paths <- MCPaths
    InfoPath <- MCInfoPath
    BoardInfo = {b, Nil}
    NoData = NoData
    Nil = Nil
    Empty = Empty
    Read <- MCRead
    Bad <- MCBad
    ReadName <- MCReadName
    Joined = Joined
    MaxNodes = 9
    p = p
    b = b
    padded = padded
    blank = blank
    quoted = quoted
    unquoted = unquoted
    markup = markup
    arrow = arrow
    cut = cut
INVARIANTS
    TypeOK
    PathsStable
    ReadBack
    OthersUntouched
    RestartKeeps
    StartsUnlessOddText

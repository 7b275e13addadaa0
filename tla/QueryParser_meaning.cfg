\* Every query of up to twelve tokens, by a parser that may have read another one.
SPECIFICATION ParserSpec
CONSTANTS
    known = known
    unknown = unknown
    five = five
    Names = {known, unknown}
    Numbers = {five}
    Texts = {}
    Allowed = {known}
    Operators = {"=", ">=", "&", "|"}
    MaxTokens = 12
    MaxWrong = 5
    MaxLeft = 1
    None = None
INVARIANTS
    ParserTypeOK
    MeansWhatItSays
    FiltersAreAllowed
    ArrivesAsSent
\* The application may stop calling, or the program may have aborted.
CHECK_DEADLOCK FALSE

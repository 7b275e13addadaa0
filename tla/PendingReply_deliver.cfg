\* Results set and callbacks registered from the event loop, from the slots of
\* valueChanged and from the callbacks.
SPECIFICATION Spec
CONSTANTS
    both = both
    successOnly = successOnly
    failedOnly = failedOnly
    script1 = script1
    script2 = script2
    int1 = int1
    int2 = int2
    number = number
    text = text
    word = word
    rejected = rejected
    Callbacks = {both, successOnly, failedOnly, script1, script2}
    Scripts = {script1, script2}
    WithSuccess = {both, successOnly, script1}
    WithFailed = {both, failedOnly, script1, script2}
    Types = {"plain", "enum", "flag", "variant"}
    Typed = {int1, int2}
    Given = {int1, number, text, word}
    Convert <- MCConvert
    Keys = {int2, word}
    Rejected = rejected
    NoValue = NoValue
    MaxDepth = 7
    None = None
INVARIANTS
    TypeOK
    CalledTruthfully
    NobodyForgotten
PROPERTIES
    ImplementsPromise
    EveryoneHears
\* The application may stop calling, or the program may have aborted.
CHECK_DEADLOCK FALSE

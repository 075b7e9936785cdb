\* Lines of up to 9 lexemes, enough for a command with two options, with quotes,
\* doubled separators and odd numbers.
CONSTANTS
    Commands <- Table
    Verbs <- AllVerbs
    Words <- AllWords
    Lexicon <- AllSeen
    MaxArgc = 5
    MaxLine = 9
    MaxExtra = 2
    SP = SP
    QT = QT
    None = None
    NaN = NaN
SPECIFICATION DispatchSpec
INVARIANTS ArgListCorrect CanonicalExecuted 

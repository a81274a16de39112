CONSTANTS
    Char <- MCChar
    Line <- MCLine
    MaxLines = 3
    CommandWidth = 3
    KeyWidth = 14
    ValueWidth = 14
    MaxAnswers = 4
SPECIFICATION MainSpec
INVARIANTS AnswersRight OnlyNextLineLost
PROPERTY EndsOrStuck

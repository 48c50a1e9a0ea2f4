\* Three commands of two users, each in its thread, and two answers.
SPECIFICATION FairSpec
CONSTANTS
    u1 = u1  u2 = u2
    User = {u1, u2}
    MaxCommands = 3
    MaxAnswers = 2
CONSTRAINT OneOrder
INVARIANT FreshAnswers
PROPERTIES AnswersMakeRoom CooldownsEnd
CHECK_DEADLOCK FALSE

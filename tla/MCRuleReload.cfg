\* Hot reload of the rule file while other programs change it.
\* When the changes have come to an end the service waits forever.
SPECIFICATION Spec
CONSTANTS
    NoFile = NoFile
    Unwatched = Unwatched
    Bad = Bad
    MaxChanges = 5
    MaxStarts = 2
PROPERTY RulesCatchUp
CHECK_DEADLOCK FALSE

CONSTANTS
    h1 = h1
    h2 = h2
    Handles = {h1, h2}
    Nifs = {"agnss"}
    WaitForClose = {}
    MaxBacklog = 3

SPECIFICATION Spec

INVARIANTS TypeOK HeldForSomeone ConnectionsReturned
PROPERTIES AnswersAreDue RequestsAnswered

CONSTANTS
    v1 = v1
    v2 = v2
    ByHand = ByHand
    Texts <- MCTexts
    Clash <- MCClash
    Releases = {v1, v2}
    RuleOf <- MCRuleOf
    MaxByHand = 2
    Turns = {1, 2}
    Replies = {r1, r2}
    Rude = {r2}
    r1 = r1
    r2 = r2
    Window = 2
    MaxNow = 4
    Contexts <- MCContexts
    Maximum = 30
    Moves = {1, 2}
    Messages = {"statement", "question", "repeat"}
    Repeats = {"repeat"}
    Asking = {"question"}
    Answering = {"statement", "repeat"}
    Quality <- MCQuality
SPECIFICATION Together
INVARIANTS
    ContradictionsReviewed
    CreditsJustified
    SelectedPassedGates
CHECK_DEADLOCK FALSE

SPECIFICATION Spec
CONSTANTS
    Domains = {d1, d2}
    Ranges = {r1, r2}
    Families = {"domain4", "domain6"}
    Used = {"domain4"}
    Size = 4
    Creators = {p1}
    None = None
PROPERTIES
    AnswersInRange
CHECK_DEADLOCK FALSE

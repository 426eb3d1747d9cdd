SPECIFICATION Spec
CONSTANTS
    Domains = {d1, d2}
    Ranges = {r1, r2}
    Families = {"domain4", "domain6"}
    Used = {"domain4", "domain6"}
    Size = 4
    Creators = {p1, p2}
    None = None
SYMMETRY Symmetry
INVARIANTS
    MappingsAreInverse
PROPERTIES
    NoEarlyReuse
CHECK_DEADLOCK FALSE

SPECIFICATION Spec
CONSTANTS
    Callers = {c1, c2}
    Nobody = Nobody
    Ops = {"DeleteAllMods", "ImportModsFromSave", "ReadActive"}
INVARIANT ReplacementUnobserved

\* One graph over four names, or two over three of them.
SPECIFICATION Spec
CONSTANTS
    a = a
    b = b
    c = c
    d = d
    Name = {a, b, c, d}
    WithOther = TRUE
    MissingChild = FALSE
    Nil = Nil
SYMMETRY Sym
CONSTRAINT Small
INVARIANTS CountsPaths SortIsTopological SubGraphIsExact
PROPERTIES RenameKeeps MergeAddContains

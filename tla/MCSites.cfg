CONSTANTS
    Browsers = {b1, b2}
    Names = {kim, lee}
    MaxRows <- MCMaxRows
    MaxHashes = 3
    Served = {"workshop", "todo", "articles", "music"}
SYMMETRY Symmetry
CHECK_DEADLOCK FALSE
SPECIFICATION Spec
INVARIANT OwnersWroteTheirArticles
PROPERTIES ErrorsHaveACause PasswordsMoveOn StaysLoggedIn IdsComeBackLate
    RowsKeepTheirParent

SPECIFICATION Spec
CONSTANTS
    Mods = {"main", "a", "b", "c"}
    Main = "main"
    Dir = "dir"
    Directory <- Variants
    Names = {"x", "n"}
    Namespaces = {"n"}
    MaxImports = 3
    Tags = {"none", "target"}
    AtCwd = {TRUE}
    Dotted = {FALSE}
INVARIANTS
    ImportsTypeOK
    ImportsFirst
    RedeclaredIsReal
    SeesItsImports
    PlatformFiles

\* Three modes in a table that grows by two, and up to three arguments.
SPECIFICATION Spec
CONSTANTS
    Names = {"spin", "nop", "pipe"}
    Increment = 2
    Section <- LinkOrder
    Varieties = 5
    OptStrings <- Strings
    MaxArgs = 3
INVARIANTS
    TypeOK
    TableSound
    RunsModeAsked
    MethodsInTable
    RunsMethodListed
    OptionForMode

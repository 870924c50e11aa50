\* Metadata cache: two lookups at a time of the indexes of a table, and time passes.
SPECIFICATION FairSpec
CONSTANTS
    Key = {"indexes"}
    Event = {"DropTable", "RenameTable", "CreateIndex", "CreateDatabase"}
    Reader = {r1, r2}
    Writer = {w}
    MaxEntry = 2
    MaxDdl = 1
INVARIANT CleanInvalidation
PROPERTY StaleEnds
CHECK_DEADLOCK FALSE

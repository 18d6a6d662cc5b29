SPECIFICATION Spec
CONSTANTS
    Tab = {t1, t2}
    Fn = {f1, f2}
    Existing = {f1}
    Name = {main, lib}
    Main = main
    Archive <- ArchiveDef
    Absent = Absent
    None = None
    ForeignKeys = {TRUE, FALSE}
    MaxEdits = 1
    MaxCalls = 3
SYMMETRY Symmetry
INVARIANTS SourcesInv EditsExplainDifferences BuildReadsEditors
CHECK_DEADLOCK FALSE

SPECIFICATION MCSpec
CONSTANTS
    SetLengths = {3, 10, 14, 18}
    FieldCounts = {0, 1, 2}
    MaxRecords = 6
    Totals = {15, 25, 43}
    SetIDs = {1, 2, 3, 255, 256}
    TemplateIDs = {0, 256}
    ScopeCounts = {1, 2}
    FieldLengths = {2, 5}
    Totals9 = {19, 30, 47}
    SetIDs9 = {0, 1, 2, 255, 256}
    TemplateIDs9 = {256}
    OptionLengths = {4, 8}
    FieldLengths9 = {3, 5}
    SFlowTotals = {20, 110, 160}
    SampleCounts = {1, 2}
    SampleLengths = {12, 48, 56, 100}
    RecordLengths = {0, 10, 16, 28, 60}
    HeaderLengths = {16, 43}
    SampledFrames <- MCFrames
    Filters <- MCFilters
CHECK_DEADLOCK FALSE
INVARIANTS
    ReadInPlace NothingMissing TemplatesWhole
PROPERTIES OneTemplatePerSet DecodeEnds

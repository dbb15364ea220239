SPECIFICATION FairProjectSpec
CONSTANTS
    Issues = {1, 2}
    Programs = {h1, h2}
    FirstFields <- FieldKinds
    LegacyItems <- LegacyKinds
    MaxWrites = 1
    MaxFaults = 1
INVARIANT FieldsTypeOK
INVARIANT AppliedIsReadable
PROPERTY MigrationKeepsMeaning
PROPERTY MigrationCompletes

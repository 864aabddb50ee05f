SPECIFICATION Spec
CHECK_DEADLOCK FALSE
CONSTANT
    MaxCreates = 2
INVARIANTS
    TypeOK
    ReceiptTruth
    ExposedIsMarked
    NoRetry
PROPERTIES
    BlobBeforeRole

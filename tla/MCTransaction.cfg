SPECIFICATION FairSpec
CONSTANTS
    Lengths = {12, 28, 31, 47, 50}
    MAX_TRANSACTION_SIZE = 49
    MAX_INPUTS = 2
    MAX_OUTPUTS = 3
    LIST_SIZE = 2
    max_money = 1
    AmountLimit = 2
    OutputNumbers = {0, 1}
    Scripts = {"s1"}
    Addresses = {"a1"}
    Sizes <- FieldSizes
INVARIANTS TypeOK AllRead InputsAreKnown ShownIsHashed
PROPERTY Returns

SPECIFICATION Spec
CONSTANTS
    Poster = {s, p}
    Sequencer = s
    TxUnits = {4}
    TxFees = {0, 2}
    BatchGas = {1}
    BaseFees = {3}
    MaxU64 = 8
    MaxTime = 3
    MaxPool = 4
    MaxReports = 2
    ParamSets <- MCParams
INVARIANTS TypeOK PoolBacked SpendingSettled TotalIsSum
PROPERTIES PriceFollowsSurplus

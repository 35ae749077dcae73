CONSTANTS
    None = None
    p1 = p1
    a1 = a1
    b1 = b1
    t1 = t1
    t2 = t2
    Query = {p1, a1, b1}
    Tx = {t1, t2}
    TxOf <- MCTxOf
    Conn = {c1, c2, c3, c4}
    Limits = {1, 2}
    Drift = 1
SPECIFICATION FairSpec
INVARIANTS Exclusive TransactionIntact
PROPERTIES EveryWaiterServed

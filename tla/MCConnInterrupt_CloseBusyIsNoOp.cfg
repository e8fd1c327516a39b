CONSTANTS
    d1 = d1
    d2 = d2
    Nil = Nil
    Signals <- MCSignals
    Goroutines <- MCGoroutines
    MaxStmts <- MCMaxStmts

SPECIFICATION Spec

PROPERTY CloseBusyIsNoOp

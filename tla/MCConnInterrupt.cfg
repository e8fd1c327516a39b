CONSTANTS
    d1 = d1
    d2 = d2
    Nil = Nil
    Signals <- MCSignals
    Goroutines <- MCGoroutines
    MaxStmts <- MCMaxStmts

SPECIFICATION Spec

INVARIANT TypeOK
INVARIANT NoLeakedInterrupter
INVARIANT InterrupterNeedsOpenConn
PROPERTY InterruptHonoured

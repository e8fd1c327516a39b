--------------------------- MODULE MCConnInterrupt ---------------------------
(* Two done channels, three interrupter goroutines (three SetInterrupt     *)
(* calls with a channel), and one prepared statement at a time.            *)
EXTENDS ConnInterrupt

CONSTANTS d1, d2

MCSignals == {d1, d2}
MCGoroutines == 1 .. 3
MCMaxStmts == 1
=============================================================================

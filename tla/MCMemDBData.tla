----------------------------- MODULE MCMemDBData -----------------------------
(* Sectors of 4 bytes standing for 64K, files of up to two sectors, and    *)
(* one nonzero byte value, so that stale or misplaced bytes show as 1.     *)
EXTENDS MemDBData

MCSectorSize == 4
MCMaxSize == 8
MCBytes == {1}
=============================================================================

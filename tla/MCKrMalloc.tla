---------------------------- MODULE MCKrMalloc -----------------------------
(* KrMalloc on the heap and the requests of MCKrMalloc.cfg.                  *)
EXTENDS KrMalloc
=============================================================================

------------------------ MODULE MCJustificationQueue ------------------------
(* Small instances of JustificationQueue.                                  *)
EXTENDS JustificationQueue
=============================================================================

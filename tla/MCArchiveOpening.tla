--------------------------- MODULE MCArchiveOpening ---------------------------
(* An instance of ArchiveOpening for TLC: the archive runtime, the media
   worker and one more thread.  Safety holds under any renaming of them, but
   the liveness of the same run rules symmetry out. *)
EXTENDS ArchiveOpening
=============================================================================

--------------------------- MODULE MCMcuDownload ---------------------------
(* McuDownload with one revision of each script.                             *)
EXTENDS McuDownload

MCMethods == {2, 3, 4, 5, 8, 9, 10, 11, 12, 31, 32, 33}
=============================================================================

--------------------------- MODULE MCScanPipeline ----------------------------
(* Two files of the same name in different directories.                    *)
EXTENDS ScanPipeline

MCBase == [f \in Files |-> "setup.exe"]

=============================================================================

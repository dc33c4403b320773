-------------------------- MODULE MCBlobVisibility --------------------------
(* Trees for TLC: one name is also the content of a file.                  *)
EXTENDS BlobVisibility

MCDirModes == {{"r", "x"}, {"x"}, {}}
=============================================================================

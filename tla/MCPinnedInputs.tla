--------------------------- MODULE MCPinnedInputs ---------------------------
(* A tarball that is signed but not the pinned one, and one that is neither. *)
EXTENDS PinnedInputs

MCContents == {"pinned", "signed", "other"}
MCSigned == {"pinned", "signed"}
MCFiles == Essential \cup {"rest"}
=============================================================================

---------------------------- MODULE MCLifecycle ----------------------------
(***************************************************************************)
(* An instance of Lifecycle for TLC: one rule, with or without a prefix,   *)
(* over a bucket with trash, live objects on several pages and an upload.      *)
(***************************************************************************)
EXTENDS Lifecycle, TLC

Prefixes == {"", "docs"}
Sets     == {{"delete", "multipart"}, {"delete", "trash"}}
Keys     == <<[area |-> "trash", dir |-> "docs"], [area |-> "live", dir |-> "docs"],
              [area |-> "live", dir |-> ""], [area |-> "live", dir |-> ""],
              [area |-> "upload", dir |-> "docs"]>>
=============================================================================

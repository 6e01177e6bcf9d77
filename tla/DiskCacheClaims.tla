--------------------------- MODULE DiskCacheClaims ---------------------------
(* What the documentation says of the disk cache and the code does not do.   *)
EXTENDS DiskCache

\* docs/README.md:305, lookup "returns either an appropriate hit handler or `None`".
HitOrNone == \A c \in Calls : kind[c] = "lookup" => pc[c] # "error"

=============================================================================

--------------------------- MODULE MCInstancePool ---------------------------
(* A small instance of InstancePool: three workspaces, room for two. *)
EXTENDS InstancePool, TLC

CONSTANTS x, y, z

=============================================================================

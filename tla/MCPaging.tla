------------------------------ MODULE MCPaging ------------------------------
(* Pages of a small table.                                                   *)
EXTENDS Paging
=============================================================================

---------------------------- MODULE MCPagination ----------------------------
(***************************************************************************)
(* Three rows, two requests that write, pages of two, and a clock with     *)
(* room for equal times before the walk and later ones during it.          *)
(***************************************************************************)
EXTENDS Pagination

MCItems == 1 .. 3
=============================================================================

------------------------------ MODULE MCHeaps ------------------------------
(* A small instance of Heaps for TLC; no request to the buddy heap wraps.  *)
EXTENDS Heaps

ASSUME NoPageWrap
=============================================================================

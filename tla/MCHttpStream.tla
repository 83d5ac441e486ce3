----------------------------- MODULE MCHttpStream -----------------------------
(***************************************************************************)
(* A small instance of HttpStream: a producer of three events and the      *)
(* producer that replaces it.                                              *)
(***************************************************************************)
EXTENDS HttpStream

ThreeThenTwo == <<3, 2>>
==============================================================================

--------------------------- MODULE MCAsyncLogging ----------------------------
(* An instance of asynchronous logging by itself for model checking.       *)
EXTENDS AsyncLogging
=============================================================================

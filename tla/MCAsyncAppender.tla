--------------------------- MODULE MCAsyncAppender ---------------------------
(* An instance of the asynchronous appender by itself for model checking.  *)
EXTENDS AsyncAppender
=============================================================================

------------------------------ MODULE MCRequest -----------------------------
(* RequestPipeline with the middlewares of three applications.                *)
EXTENDS RequestPipeline

AppsDef == {{}, {"DatabaseTrx", "AuthN"}, {"RequestLogger", "DatabaseTrx", "AuthN", "AuthZ"}}
=============================================================================

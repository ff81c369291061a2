---------------------------- MODULE MCAuthModule ----------------------------
(* The instance of AuthModule: the editor's thread and one of the client's. *)
EXTENDS AuthModule

TwoThreads == {"ui", "poll"}
=============================================================================

----------------------------- MODULE MCSession ------------------------------
(* An instance of Session for TLC: a first response of one chunk, which an *)
(* interrupt can cut, and a second that ends or fails at once.             *)
EXTENDS Session, TLC

MCMaxChunks == 1 :> 1 @@ 2 :> 0
=============================================================================

----------------------------- MODULE MCFtpClient -----------------------------
(* A file of two bytes to fetch and one of two bytes to store.              *)
EXTENDS FtpClient

CONSTANTS d, u

MCSize == [f \in Files |-> 2]
=============================================================================

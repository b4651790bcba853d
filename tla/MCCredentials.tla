---------------------------- MODULE MCCredentials -----------------------------
(***************************************************************************)
(* TLC instance of Credentials: every inherited environment, and lines     *)
(* that set a variable, are missing, are too long, or set something else.  *)
(***************************************************************************)
EXTENDS Credentials

AnyEnvironment == SUBSET Variables
AnyLines == [name : {"DB_USER", "DB_PASSWD"}, form : {"set", "long", "bare"}]
                \cup [name : {"", "OTHER"}, form : {"set"}]
================================================================================

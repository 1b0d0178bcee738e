---------------------------- MODULE MCAuthSession ----------------------------
(* One browser and small sets of requests, sessions and tokens for TLC.    *)
EXTENDS AuthSession
=============================================================================

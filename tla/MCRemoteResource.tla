-------------------------- MODULE MCRemoteResource --------------------------
(* RemoteResource for TLC: the constants are given in the configurations.  *)
EXTENDS RemoteResource
=============================================================================

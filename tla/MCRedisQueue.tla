---------------------------- MODULE MCRedisQueue ----------------------------
(***************************************************************************)
(* An instance of RedisQueue for TLC: two pushes and a poll, so that the   *)
(* poll waits, finds one item or two and leaves one; AUTH, SELECT and the  *)
(* command proper on every connection; a grace longer than the delay.      *)
(***************************************************************************)
EXTENDS RedisQueue
=============================================================================

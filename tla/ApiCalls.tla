------------------------------- MODULE ApiCalls -------------------------------
(***************************************************************************)
(* What the service modules share.  The API is one Node process: a call is *)
(* a chain of awaits, each at most one database statement or outside call, *)
(* and between two of them any other call may run.  Each module keeps the  *)
(* calls in flight in slots of its own, one await per step.                *)
(***************************************************************************)
CONSTANT
    None   \* the absent value: SQL's NULL, a missing row, no one
=============================================================================

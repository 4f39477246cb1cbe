---------------------------- MODULE MCEasyFlash ----------------------------
(***************************************************************************)
(* Small instances of EasyFlash for TLC.                                   *)
(***************************************************************************)
EXTENDS EasyFlash, TLC

CONSTANTS k1, k2

\* One key has a short and a long value, the other one a short one.
Lengths == (k1 :> (1 :> 2 @@ 2 :> 3)) @@ (k2 :> (1 :> 2))
=============================================================================

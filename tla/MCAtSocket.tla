----------------------------- MODULE MCAtSocket -----------------------------
(***************************************************************************)
(* Small instances of AtSocket for TLC.                                    *)
(***************************************************************************)
EXTENDS AtSocket

\* Data on one of two sockets: 3 bytes, in packets of 1 and 2.
OneStream == [s \in Slots |-> IF s = 0 THEN 3 ELSE 0]

\* The properties claim nothing once sockets are closed in another order.
Tidy == tidy
=============================================================================

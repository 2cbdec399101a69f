------------------------------ MODULE MCExport ------------------------------
(***************************************************************************)
(* A short log of admissions or of token key rotations.                    *)
(***************************************************************************)
EXTENDS AuditExport

MCCall == {[kind |-> "call.admitted", key_id |-> "none"]}
MCRotation == {[kind |-> "key.rotated", key_id |-> "t2"]}
=============================================================================

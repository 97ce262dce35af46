---------------------------- MODULE MCAdmission ----------------------------
(* A group whose member may be muted: some of these messages come, for TLC. *)
EXTENDS Admission
CONSTANTS s1, s2, t1, t2, mu1
=============================================================================

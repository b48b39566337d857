------------------------------- MODULE MCAuth -------------------------------
(* Instances of AuthSessions for TLC. *)
EXTENDS AuthSessions, TLC

AuthSymmetry == Permutations(Users) \cup Permutations(Sessions) \cup Permutations(Tabs) \cup Permutations(Admins)
=============================================================================

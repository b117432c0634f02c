--------------------------- MODULE MCAuthService ---------------------------
(* AuthService with interchangeable requests, for TLC.                      *)
EXTENDS AuthService, TLC

RequestSymmetry == Permutations(Requests)

=============================================================================

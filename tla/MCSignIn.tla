------------------------------ MODULE MCSignIn -------------------------------
(* SignIn with two logins and two validations.                               *)
EXTENDS SignIn
=============================================================================

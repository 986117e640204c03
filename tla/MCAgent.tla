------------------------------ MODULE MCAgent ------------------------------
(* Small instances of Agent for TLC. *)
EXTENDS Agent, TLC

CONSTANTS u1, u2, a1, a2

TwoUsersOneAutomatic == {u1, u2, a1}
OneUserTwoAutomatic  == {u1, a1, a2}
OneOfEach == {u1, a1}
TwoUsers == {u1, u2}
Users == {u1, u2}
OneUser == {u1}
Nothing == {}
Everything == {"clear", "hold", "abort", "reset"}
Hold == {"hold"}
=============================================================================

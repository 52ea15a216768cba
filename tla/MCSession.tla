------------------------------ MODULE MCSession ------------------------------
(* Small instances of Session.  Connections are interchangeable; player ids *)
(* are not, since the registry hands out the lowest.                        *)
EXTENDS Session, TLC

ConnSymmetry == Permutations(Conn)
=============================================================================

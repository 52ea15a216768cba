------------------------------- MODULE MCInputs -------------------------------
(* Small instances of Inputs. *)
EXTENDS Inputs

Left == -1
LeftAndRight == {-1, 1}
=============================================================================

-------------------------------- MODULE Bounds --------------------------------
(* min and max of two numbers. *)
EXTENDS Integers

Least(a, b) == IF a <= b THEN a ELSE b
Greatest(a, b) == IF a >= b THEN a ELSE b
=============================================================================

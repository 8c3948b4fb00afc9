------------------------------ MODULE MCCottiI2c ------------------------------
(***************************************************************************)
(* A register that is written with another value than its number, and read *)
(* by others.                                                              *)
(***************************************************************************)
EXTENDS CottiI2c

Op(kind, reg, val) == [kind |-> kind, reg |-> reg, val |-> val]

MCOperations == {Op("write", 0, 1), Op("read", 0, 0)}
=============================================================================

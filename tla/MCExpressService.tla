-------------------------- MODULE MCExpressService --------------------------
(***************************************************************************)
(* Parameters for TLC: numbers on both sides of the checks of the handlers *)
(* and past the squares of 5, 7 and 11, and loads at each limit.           *)
(***************************************************************************)
EXTENDS ExpressServiceProperties

MCNumbers == {NaN, -1, 122}
Load(c, m) == [cpu |-> c, mem |-> m]
MCLoads == {Load(NaN, 0), Load(-1, 0), Load(0, -1), Load(0, 101), Load(0, 32768)}
=============================================================================

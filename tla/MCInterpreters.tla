---------------------------- MODULE MCInterpreters ----------------------------
(* Three plugins, each in any of the four languages.                        *)
EXTENDS Interpreters, TLC

CONSTANTS p1, p2, p3, nobody

MCImpls == {p1, p2, p3}
MCSymmetry == Permutations(MCImpls)
===============================================================================

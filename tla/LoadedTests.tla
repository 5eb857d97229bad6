----------------------------- MODULE LoadedTests -----------------------------
(* The test objects of the script and Ada plugins of one program.           *)
EXTENDS Integers, Sequences, FiniteSets

CONSTANTS
    Impls,      \* the objects a plugin loader makes, one each
    Nobody      \* no such object

ASSUME ImplsAssumption == IsFiniteSet(Impls) /\ Nobody \notin Impls
===============================================================================

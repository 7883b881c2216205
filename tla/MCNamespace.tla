---------------------------- MODULE MCNamespace ----------------------------
(* Finite instances of Namespace for TLC. *)
EXTENDS Namespace, TLC

CONSTANTS total, w1, w2

\* One ordinary name, and one the caller spells like a generated name.
MCExplicitNames == {total, GeneratedName("cell", 1)}

WriterSymmetry == Permutations({w1, w2})
=============================================================================

----------------------------- MODULE MCCASStack -----------------------------
(* The CAS stack on small instances: the consumers are interchangeable.    *)
EXTENDS CASStack, TLC

ConsumerSymmetry == Permutations(Consumers)
=============================================================================

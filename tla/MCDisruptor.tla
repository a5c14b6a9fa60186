---------------------------- MODULE MCDisruptor ----------------------------
(* Small instances of Disruptor for TLC. *)
EXTENDS Disruptor, TLC

(* Threads of the same kind are interchangeable. *)
ConsumerSymmetry == Permutations(Consumers)
ProducerSymmetry == Permutations(Producers)
=============================================================================

-------------------------- MODULE DisruptorProofs --------------------------
(***************************************************************************)
(* Proofs about Disruptor, for any producers, consumers, capacity and      *)
(* bounds.                                                                 *)
(***************************************************************************)
EXTENDS Disruptor, TLAPS

(* The range of the slot index: a slot of the array or the word past it. *)
LEMMA SlotRange == \A s \in Int : Slot(s) \in Slots
<1>1. SUFFICES ASSUME NEW s \in Int PROVE Slot(s) \in Slots
  OBVIOUS
<1>2. N \in Nat /\ N > 0
  BY CapacityAssumption
<1>3. (s \div N) \in Int
  BY <1>2
<1>4. (s \div N) % 2 \in {0, 1}
  BY <1>3
<1>5. CASE (s \div N) % 2 = 0
  BY <1>2, <1>5 DEF Slot, Slots
<1>6. CASE (s \div N) % 2 = 1
  BY <1>2, <1>6 DEF Slot, Slots
<1> QED
  BY <1>4, <1>5, <1>6

(* Sequences below N all use slot 0: bit N of the sequence is clear. *)
LEMMA SlotZero == \A s \in Int : 0 <= s /\ s < N => Slot(s) = 0
<1>1. SUFFICES ASSUME NEW s \in Int, 0 <= s, s < N PROVE Slot(s) = 0
  OBVIOUS
<1>2. N \in Nat /\ N > 0
  BY CapacityAssumption
<1>3. s \div N = 0
  BY <1>1, <1>2
<1> QED
  BY <1>2, <1>3 DEF Slot

-----------------------------------------------------------------------------
(* Every step of producers, consumers and client keeps the variables in    *)
(* their types, with any number of producers.                              *)
LEMMA TypeInit == Init => TypeOK
<1> SUFFICES ASSUME Init PROVE TypeOK
  OBVIOUS
<1>1. buffer_ \in [Slots -> Int]
  BY DEF Init, InitBuffer, Empty, Torn
<1>2. cursor_ \in [Sequencers -> Int] /\ starts \in 0 .. MaxStarts
  BY BoundsAssumption DEF Init, InitSequencers
<1>3. sequencer_ \in [Producers \cup Consumers -> Sequencers]
  BY DEF Init, Sequencers
<1>4. /\ sequence \in [Producers -> Int]
      /\ data \in [Producers -> Int]
      /\ next_sequence_ \in [Consumers -> Nat]
  BY DEF Init, InitProcessors, Empty
<1>5. claimed \in Seq(Int) /\ consumed \in [Consumers -> Seq(Int)]
  BY DEF Init
<1>6. running_ \in [Consumers -> BOOLEAN]
  BY DEF Init, InitProcessors
<1> QED
  BY <1>1, <1>2, <1>3, <1>4, <1>5, <1>6 DEF Init, TypeOK

LEMMA TypeProducer == ASSUME TypeOK, NEW p \in Producers, onData(p) PROVE TypeOK'
<1> USE DEF TypeOK, clientVars, consumerVars, producerVars
<1>1. CASE next(p)
  <2>1. CursorOf(p) \in Int /\ sequencer_[p] \in Sequencers
    BY DEF CursorOf
  <2>2. /\ cursor_' \in [Sequencers -> Int]
        /\ sequence' \in [Producers -> Int]
        /\ claimed' \in Seq(Int)
    BY <1>1, <2>1 DEF next
  <2>3. data' \in [Producers -> Int]
    BY <1>1 DEF next
  <2>4. ppc' \in [Producers -> {"idle", "claimed", "setting", "set"}]
    BY <1>1 DEF next
  <2> QED
    BY <1>1, <2>2, <2>3, <2>4 DEF next
<1>2. CASE set_begin(p)
  <2>1. raced' \in SUBSET Producers
    BY <1>2 DEF set_begin, WritersOf
  <2>2. crashed' \in BOOLEAN
    BY <1>2 DEF set_begin, Faults
  <2>3. ppc' \in [Producers -> {"idle", "claimed", "setting", "set"}]
    BY <1>2 DEF set_begin
  <2> QED
    BY <1>2, <2>1, <2>2, <2>3 DEF set_begin
<1>3. CASE set_end(p)
  <2>1. Slot(sequence[p]) \in Slots
    BY SlotRange
  <2>2. buffer_' \in [Slots -> Int]
    BY <1>3, <2>1 DEF set_end, Written, Torn
  <2>3. ppc' \in [Producers -> {"idle", "claimed", "setting", "set"}]
    BY <1>3 DEF set_end, Written
  <2> QED
    BY <1>3, <2>2, <2>3 DEF set_end, Written
<1>4. CASE publish(p)
  BY <1>4 DEF publish, Published
<1> QED
  BY <1>1, <1>2, <1>3, <1>4 DEF onData

LEMMA TypeConsumer == ASSUME TypeOK, NEW c \in Consumers, run(c) PROVE TypeOK'
<1> USE DEF TypeOK, clientVars, producerVars
<1>1. CASE run_outer(c)
  BY <1>1 DEF run_outer, Stay
<1>2. CASE run_inner(c)
  BY <1>2 DEF run_inner, Available
<1>3. CASE consume(c)
  <2> DEFINE i == Slot(next_sequence_[c])
  <2>1. i \in Slots
    BY SlotRange
  <2>2. get(i) \in Int
    BY <2>1 DEF get, Torn
  <2> HIDE DEF i
  <2>3. consumed' \in [Consumers -> Seq(Int)]
    BY <1>3, <2>2 DEF consume, i
  <2>4. next_sequence_' \in [Consumers -> Nat]
    BY <1>3 DEF consume
  <2>5. crashed' \in BOOLEAN
    BY <1>3 DEF consume, Faults
  <2>6. cpc' \in [Consumers -> {"none", "outer", "inner", "read", "exited"}]
    BY <1>3 DEF consume
  <2> QED
    BY <1>3, <2>3, <2>4, <2>5, <2>6 DEF consume
<1> QED
  BY <1>1, <1>2, <1>3 DEF run

LEMMA TypeClient == ASSUME TypeOK, Client PROVE TypeOK'
<1> USE DEF TypeOK, consumerVars, producerVars, clientVars
<1>1. CASE Construct
  BY <1>1 DEF Construct, Rewired, Sequencers
<1>2. CASE start
  BY <1>2, BoundsAssumption DEF start
<1>3. ASSUME NEW c \in Consumers, start_thread(c) PROVE TypeOK'
  BY <1>3 DEF start_thread
<1>4. CASE halt
  BY <1>4 DEF halt
<1>5. ASSUME NEW c \in Consumers, halt_processor(c) PROVE TypeOK'
  BY <1>5 DEF halt_processor
<1>6. CASE halt_notified
  BY <1>6 DEF halt_notified
<1>7. ASSUME NEW c \in Consumers, join(c) PROVE TypeOK'
  BY <1>7 DEF join, Exited
<1> QED
  BY <1>1, <1>2, <1>3, <1>4, <1>5, <1>6, <1>7 DEF Client

LEMMA TypeStutter == ASSUME TypeOK, UNCHANGED vars PROVE TypeOK'
BY DEF TypeOK, vars, clientVars, consumerVars, producerVars

(* The type invariant holds in every behaviour, with any number of         *)
(* producers and consumers, any capacity and any number of events.         *)
THEOREM TypeCorrect == Spec => []TypeOK
<1>1. TypeOK /\ [Next]_vars => TypeOK'
  BY TypeProducer, TypeConsumer, TypeClient, TypeStutter
     DEF Next, Step, Stopped
<1> QED
  BY <1>1, TypeInit, PTL DEF Spec

-----------------------------------------------------------------------------
LEMMA ClaimInit == Init => ClaimInv
BY DEF Init, ClaimInv, InitSequencers, InitProcessors

LEMMA ClaimStep == TypeOK /\ ClaimInv /\ [Next]_vars => ClaimInv'
<1> SUFFICES ASSUME TypeOK, ClaimInv, [Next]_vars PROVE ClaimInv'
  OBVIOUS
<1> USE DEF TypeOK, ClaimInv, clientVars, producerVars, consumerVars
<1>1. ASSUME NEW p \in Producers, next(p) PROVE ClaimInv'
  <2>1. sequencer_[p] \in Sequencers
    OBVIOUS
  <2>2. Len(claimed') = Len(claimed) + 1
    BY <1>1, <2>1 DEF next, CursorOf
  <2>3. CursorOf(p) + 1 \in Int /\ CursorOf(p) + 1 < Len(claimed')
    BY <2>1, <2>2 DEF CursorOf
  <2> QED
    BY <1>1, <2>1, <2>2, <2>3 DEF next
<1>2. ASSUME NEW p \in Producers, set_begin(p) PROVE ClaimInv'
  BY <1>2 DEF set_begin
<1>3. ASSUME NEW p \in Producers, set_end(p) PROVE ClaimInv'
  BY <1>3 DEF set_end, Written
<1>4. ASSUME NEW p \in Producers, publish(p) PROVE ClaimInv'
  BY <1>4 DEF publish, Published
<1>5. ASSUME NEW c \in Consumers, run_outer(c) PROVE ClaimInv'
  BY <1>5 DEF run_outer, Stay
<1>6. ASSUME NEW c \in Consumers, run_inner(c) PROVE ClaimInv'
  <2>1. CursorOf(c) < Len(claimed) /\ CursorOf(c) \in Int
    BY DEF CursorOf
  <2> QED
    BY <1>6, <2>1 DEF run_inner, Available
<1>7. ASSUME NEW c \in Consumers, consume(c) PROVE ClaimInv'
  BY <1>7 DEF consume
<1>8. CASE Client
  BY <1>8 DEF Client, Construct, Rewired, start, start_thread, halt, halt_processor,
              halt_notified, join, Exited
<1>9. CASE UNCHANGED vars
  BY <1>9 DEF vars
<1> QED
  BY <1>1, <1>2, <1>3, <1>4, <1>5, <1>6, <1>7, <1>8, <1>9
     DEF Next, Step, Stopped, onData, run

(* No phantom sequences, for any number of producers racing in next() and  *)
(* publish(), any capacity and any number of events.                       *)
THEOREM NoPhantom == Spec => []NoPhantomSequence
<1>1. ClaimInv => NoPhantomSequence
  BY DEF ClaimInv, NoPhantomSequence, cursor, Sequencers
<1> QED
  BY <1>1, TypeCorrect, ClaimInit, ClaimStep, PTL DEF Spec

-----------------------------------------------------------------------------
(* The single-producer invariant. *)

LEMMA SingleInit == ASSUME SingleProducer PROVE Init => SingleProducerInv
<1> SUFFICES ASSUME Init PROVE SingleProducerInv
  OBVIOUS
<1>1. TypeOK
  BY TypeInit
<1>2. WiringInv
  BY DEF Init, WiringInv, Idle
<1>3. claimed = <<>> /\ Filled = 0
  BY DEF Init, Filled
<1>4. buffer_[0] = -1
  BY CapacityAssumption DEF Init, InitBuffer, Slots, OutOfBounds, Empty
<1>5. ProducerInv
  BY <1>3, <1>4, BoundsAssumption
     DEF Init, ProducerInv, cursor, InitSequencers, Sequencers
<1>6. ConsumerInv /\ ConsumedNeverGoesBack
  BY <1>3 DEF Init, ConsumerInv, ConsumedNeverGoesBack, InitProcessors
<1> QED
  BY <1>1, <1>2, <1>5, <1>6 DEF SingleProducerInv

(* While an event is in flight its slot is slot 0. *)
LEMMA InFlightSlot ==
    ASSUME SingleProducer, TypeOK, ProducerInv,
           NEW p \in Producers, ppc[p] # "idle"
    PROVE  Slot(sequence[p]) = 0
<1>1. sequence[p] \in Int /\ 0 <= sequence[p] /\ sequence[p] < N
  BY BoundsAssumption, CapacityAssumption DEF SingleProducer, ProducerInv, TypeOK
<1> QED
  BY <1>1, SlotZero

(* What a consumer about to read finds: the slot's payload, or Torn while  *)
(* the producer is inside set().                                           *)
LEMMA ReadSlot ==
    ASSUME SingleProducer, TypeOK, ProducerInv, ConsumerInv,
           NEW c \in Consumers, cpc[c] = "read"
    PROVE  /\ Slot(next_sequence_[c]) = 0
           /\ get(0) \in {buffer_[0], Torn}
           /\ Idle => get(0) = buffer_[0]
<1>1. /\ next_sequence_[c] \in Int
      /\ 0 <= next_sequence_[c]
      /\ next_sequence_[c] < N
  BY BoundsAssumption, CapacityAssumption
     DEF SingleProducer, ProducerInv, ConsumerInv, TypeOK
<1>2. Idle => WritersOf(0) = {}
  BY DEF Idle, WritersOf
<1> QED
  BY <1>1, <1>2, SlotZero DEF get

LEMMA SingleProducerStep ==
    ASSUME SingleProducer, SingleProducerInv, NEW p \in Producers, onData(p)
    PROVE  SingleProducerInv'
<1> USE DEF SingleProducerInv, clientVars, producerVars, consumerVars
<1>0. TypeOK'
  BY TypeProducer
<1>a. \A q \in Producers : q = p
  BY DEF SingleProducer
<1>b. Len(claimed) \in Nat /\ 0 \in Slots /\ buffer_[0] \in Int
  BY CapacityAssumption DEF TypeOK, Slots
<1>1. CASE next(p)
  <2>1. phase = "started" /\ sequencer_[p] = "own" /\ ppc[p] = "idle"
    BY <1>1 DEF next, WiringInv
  <2>2. CursorOf(p) + 1 = Len(claimed)
    BY <2>1, <1>b DEF CursorOf, ProducerInv, cursor, TypeOK, Sequencers
  <2>3. claimed' = Append(claimed, Len(claimed)) /\ Len(claimed') = Len(claimed) + 1
    BY <1>1, <2>2 DEF next, TypeOK
  <2>4. ppc'[p] = "claimed" /\ sequence'[p] = Len(claimed) /\ data'[p] = Len(claimed)
    BY <1>1, <2>2 DEF next, TypeOK
  <2>5. Filled' = Len(claimed) /\ Filled = Len(claimed)
    BY <1>a, <1>b, <2>1, <2>3, <2>4 DEF Filled
  <2>6. cursor' = Len(claimed)
    BY <1>1, <2>1, <2>2 DEF next, cursor, TypeOK, Sequencers
  <2>7. WiringInv'
    BY <1>1, <2>1 DEF next, WiringInv
  <2>8. ProducerInv'
    BY <1>1, <1>a, <1>b, <2>3, <2>4, <2>5, <2>6, BoundsAssumption
       DEF next, ProducerInv
  <2>9. ConsumerInv'
    BY <1>1, <1>b, <2>3, <2>5 DEF next, ConsumerInv, TypeOK
  <2>10. ConsumedNeverGoesBack'
    BY <1>1 DEF next, ConsumedNeverGoesBack
  <2> QED
    BY <1>0, <2>7, <2>8, <2>9, <2>10
<1>2. CASE set_begin(p)
  <2>1. ppc[p] = "claimed" /\ ppc'[p] = "setting"
    BY <1>2 DEF set_begin, TypeOK
  <2>2. Filled' = Filled
    BY <1>2, <1>a, <2>1 DEF set_begin, Filled
  <2>3. WritersOf(Slot(sequence[p])) = {}
    BY <1>a, <2>1 DEF WritersOf
  <2>4. WiringInv'
    BY <1>2, <2>1 DEF set_begin, WiringInv, Idle
  <2>5. ProducerInv'
    BY <1>2, <1>a, <2>1, <2>2, <2>3 DEF set_begin, ProducerInv, cursor
  <2>6. ConsumerInv' /\ ConsumedNeverGoesBack'
    BY <1>2, <2>2 DEF set_begin, ConsumerInv, ConsumedNeverGoesBack
  <2> QED
    BY <1>0, <2>4, <2>5, <2>6
<1>3. CASE set_end(p)
  <2>1. ppc[p] = "setting" /\ ppc'[p] = "set"
    BY <1>3 DEF set_end, Written, TypeOK
  <2>2. Filled' = Len(claimed) /\ Filled = Len(claimed) - 1
    BY <1>3, <1>a, <2>1 DEF set_end, Written, Filled
  <2>3. p \notin raced /\ data[p] = Len(claimed) - 1 /\ Slot(sequence[p]) = 0
    BY <2>1, InFlightSlot DEF ProducerInv
  <2>4. buffer_'[0] = Len(claimed) - 1
    BY <1>3, <1>b, <2>3 DEF set_end, Written, TypeOK
  <2>5. WiringInv'
    BY <1>3, <2>1 DEF set_end, Written, WiringInv, Idle
  <2>6. ProducerInv'
    BY <1>3, <1>a, <2>1, <2>2, <2>4 DEF set_end, Written, ProducerInv, cursor
  <2>7. ConsumerInv'
    <3> SUFFICES ASSUME NEW c \in Consumers, NEW i \in 1 .. Len(consumed[c])
                 PROVE  consumed[c][i] = Torn
                          \/ consumed[c][i] \in i - 2 .. Filled' - 1
      BY <1>3 DEF set_end, Written, ConsumerInv
    <3>1. consumed[c][i] = Torn \/ consumed[c][i] \in i - 2 .. Filled - 1
      BY DEF ConsumerInv
    <3>2. consumed[c] \in Seq(Int)
      BY DEF TypeOK
    <3> QED
      BY <1>b, <2>2, <3>1, <3>2
  <2>8. ConsumedNeverGoesBack'
    BY <1>3 DEF set_end, Written, ConsumedNeverGoesBack
  <2> QED
    BY <1>0, <2>5, <2>6, <2>7, <2>8
<1>4. CASE publish(p)
  <2>1. ppc[p] = "set" /\ ppc'[p] = "idle"
    BY <1>4 DEF publish, Published, TypeOK
  <2>2. Filled' = Filled
    BY <1>4, <1>a, <2>1 DEF publish, Published, Filled
  <2>3. cursor' = cursor
    <3>1. sequence[p] = cursor
      BY <2>1 DEF ProducerInv
    <3> QED
      BY <1>4, <3>1 DEF publish, Published, cursor, TypeOK, Sequencers
  <2>4. WiringInv'
    BY <1>4, <2>1 DEF publish, Published, WiringInv, Idle
  <2>5. ProducerInv'
    BY <1>4, <1>a, <2>1, <2>2, <2>3 DEF publish, Published, ProducerInv
  <2>6. ConsumerInv' /\ ConsumedNeverGoesBack'
    BY <1>4, <2>2 DEF publish, Published, ConsumerInv, ConsumedNeverGoesBack
  <2> QED
    BY <1>0, <2>4, <2>5, <2>6
<1> QED
  BY <1>1, <1>2, <1>3, <1>4 DEF onData

LEMMA SingleConsumerStep ==
    ASSUME SingleProducer, SingleProducerInv, NEW c \in Consumers, run(c)
    PROVE  SingleProducerInv'
<1> USE DEF SingleProducerInv, clientVars, producerVars, consumerVars
<1>0. TypeOK'
  BY TypeConsumer
<1>1. CASE run_outer(c)
  <2>1. ProducerInv' /\ ConsumedNeverGoesBack'
    BY <1>1 DEF run_outer, Stay, ProducerInv, Filled, cursor, ConsumedNeverGoesBack
  <2>2. WiringInv'
    BY <1>1 DEF run_outer, Stay, WiringInv, Idle
  <2>3. ConsumerInv'
    BY <1>1 DEF run_outer, Stay, ConsumerInv, Filled, TypeOK
  <2> QED
    BY <1>0, <2>1, <2>2, <2>3
<1>2. CASE run_inner(c)
  <2>1. ProducerInv' /\ ConsumedNeverGoesBack'
    BY <1>2 DEF run_inner, Available, ProducerInv, Filled, cursor, ConsumedNeverGoesBack
  <2>2. WiringInv'
    BY <1>2 DEF run_inner, Available, WiringInv, Idle
  <2>3. CursorOf(c) = Len(claimed) - 1
    BY <1>2 DEF run_inner, Available, WiringInv, CursorOf, ProducerInv, cursor
  <2>4. ConsumerInv'
    BY <1>2, <2>3 DEF run_inner, Available, ConsumerInv, Filled, TypeOK
  <2> QED
    BY <1>0, <2>1, <2>2, <2>4
<1>3. CASE consume(c)
  <2>1. cpc[c] = "read"
    BY <1>3 DEF consume
  <2>2. PICK v \in {buffer_[0], Torn} :
            consumed' = [consumed EXCEPT ![c] = Append(@, v)]
    BY <1>3, <2>1, ReadSlot DEF consume
  <2>3. v \in Int /\ (v = Torn \/ v = Filled - 1)
    BY CapacityAssumption DEF TypeOK, Slots, Torn, ProducerInv
  <2>4. /\ Filled' = Filled
        /\ Filled \in Int
        /\ Len(claimed) \in Nat
        /\ Filled >= Len(claimed) - 1
    BY <1>3 DEF consume, Filled, TypeOK
  <2>5. \A d \in Consumers : consumed[d] \in Seq(Int) /\ Len(consumed[d]) \in Nat
    BY DEF TypeOK
  <2>6. /\ Len(consumed'[c]) = Len(consumed[c]) + 1
        /\ consumed'[c][Len(consumed[c]) + 1] = v
        /\ \A i \in 1 .. Len(consumed[c]) : consumed'[c][i] = consumed[c][i]
    BY <2>2, <2>3, <2>5 DEF TypeOK
  <2>7. \A d \in Consumers \ {c} : consumed'[d] = consumed[d]
    BY <2>2 DEF TypeOK
  <2>8. ProducerInv'
    BY <1>3, <2>4 DEF consume, ProducerInv, cursor
  <2>9. WiringInv'
    BY <1>3 DEF consume, WiringInv, Idle
  <2>10. ConsumerInv'
    <3>1. ASSUME NEW d \in Consumers
          PROVE  /\ next_sequence_'[d] = Len(consumed'[d])
                 /\ next_sequence_'[d] <= Len(claimed')
                 /\ cpc'[d] = "read" => next_sequence_'[d] < Len(claimed')
      BY <1>3, <2>1, <2>5, <2>6, <2>7 DEF consume, ConsumerInv, TypeOK
    <3>2. ASSUME NEW i \in 1 .. Len(consumed'[c])
          PROVE  consumed'[c][i] = Torn \/ consumed'[c][i] \in i - 2 .. Filled' - 1
      <4>1. CASE i \in 1 .. Len(consumed[c])
        BY <2>4, <2>6, <4>1 DEF ConsumerInv
      <4>2. CASE i = Len(consumed[c]) + 1
        <5>1. Len(consumed[c]) < Len(claimed)
          BY <2>1 DEF ConsumerInv
        <5> QED
          BY <2>3, <2>4, <2>5, <2>6, <4>2, <5>1
      <4> QED
        BY <2>5, <2>6, <4>1, <4>2
    <3>3. ASSUME NEW d \in Consumers \ {c}, NEW i \in 1 .. Len(consumed'[d])
          PROVE  consumed'[d][i] = Torn \/ consumed'[d][i] \in i - 2 .. Filled' - 1
      BY <2>4, <2>7 DEF ConsumerInv
    <3> QED
      BY <3>1, <3>2, <3>3 DEF ConsumerInv
  <2>11. ConsumedNeverGoesBack'
    <3> SUFFICES ASSUME NEW d \in Consumers,
                        NEW i \in 1 .. Len(consumed'[d]),
                        NEW j \in 1 .. Len(consumed'[d]),
                        i < j, consumed'[d][i] # Torn, consumed'[d][j] # Torn
                 PROVE  consumed'[d][i] <= consumed'[d][j]
      BY DEF ConsumedNeverGoesBack
    <3>1. CASE d # c
      BY <2>7, <3>1 DEF ConsumedNeverGoesBack
    <3>2. CASE d = c /\ j \in 1 .. Len(consumed[c])
      <4>1. i \in 1 .. Len(consumed[c])
        BY <2>5, <3>2
      <4>2. consumed'[c][i] = consumed[c][i] /\ consumed'[c][j] = consumed[c][j]
        BY <2>6, <3>2, <4>1
      <4> QED
        BY <3>2, <4>1, <4>2 DEF ConsumedNeverGoesBack
    <3>3. CASE d = c /\ j = Len(consumed[c]) + 1
      <4>1. i \in 1 .. Len(consumed[c])
        BY <2>5, <3>3
      <4>2. consumed[c][i] \in i - 2 .. Filled - 1
        BY <2>6, <3>3, <4>1 DEF ConsumerInv
      <4> QED
        BY <2>3, <2>4, <2>6, <3>3, <4>1, <4>2
    <3> QED
      BY <2>5, <2>6, <3>1, <3>2, <3>3
  <2> QED
    BY <1>0, <2>8, <2>9, <2>10, <2>11
<1> QED
  BY <1>1, <1>2, <1>3 DEF run

LEMMA SingleClientStep ==
    ASSUME SingleProducerInv, Client PROVE SingleProducerInv'
<1> USE DEF SingleProducerInv, clientVars, producerVars, consumerVars
<1>1. TypeOK'
  BY TypeClient
<1>2. /\ UNCHANGED <<claimed, ppc, cursor_, sequence, data, raced, buffer_>>
      /\ UNCHANGED <<next_sequence_, consumed>>
      /\ \A c \in Consumers : cpc'[c] = "read" => cpc[c] = "read"
  BY DEF Client, Construct, Rewired, start, start_thread, halt, halt_processor,
         halt_notified, join, Exited, TypeOK
<1>3. ProducerInv' /\ ConsumerInv' /\ ConsumedNeverGoesBack'
  BY <1>2 DEF ProducerInv, ConsumerInv, ConsumedNeverGoesBack, Filled, cursor
<1>4. WiringInv'
  BY <1>2 DEF Client, Construct, Rewired, start, start_thread, halt, halt_processor,
         halt_notified, join, Exited, WiringInv, Idle, TypeOK
<1> QED
  BY <1>1, <1>3, <1>4

LEMMA SingleStutter ==
    ASSUME SingleProducerInv, UNCHANGED vars PROVE SingleProducerInv'
<1> USE DEF vars, clientVars, producerVars, consumerVars
<1>1. TypeOK'
  BY TypeStutter DEF SingleProducerInv
<1>2. WiringInv' /\ ProducerInv'
  BY DEF SingleProducerInv, WiringInv, Idle, ProducerInv, Filled, cursor
<1>3. ConsumerInv' /\ ConsumedNeverGoesBack'
  BY DEF SingleProducerInv, ConsumerInv, ConsumedNeverGoesBack, Filled
<1> QED
  BY <1>1, <1>2, <1>3 DEF SingleProducerInv

(* The inductive invariant of a Disruptor with one producer and no more    *)
(* events than slots, for any such capacity, bounds and consumers.         *)
THEOREM SingleInvariant ==
    ASSUME SingleProducer PROVE Spec => []SingleProducerInv
<1>1. SingleProducerInv /\ [Next]_vars => SingleProducerInv'
  BY SingleProducerStep, SingleConsumerStep, SingleClientStep, SingleStutter
     DEF Next, Step, Stopped
<1> QED
  BY <1>1, SingleInit, PTL DEF Spec

(* The tests' EXPECT_EQ on cursor(): with one producer the cursor counts   *)
(* the finished on_data calls.                                             *)
THEOREM CursorCounts ==
    ASSUME SingleProducer PROVE Spec => []CursorCountsCalls
<1>1. SingleProducerInv => CursorCountsCalls
  BY DEF SingleProducerInv, ProducerInv, CursorCountsCalls
<1> QED
  BY <1>1, SingleInvariant, PTL

(* A consumer is never more than one event behind the sequence it prints,  *)
(* although next() announces a sequence before its payload is written.     *)
THEOREM OneBehind ==
    ASSUME SingleProducer PROVE Spec => []AtMostOneBehind
<1>1. SingleProducerInv => AtMostOneBehind
  <2> SUFFICES ASSUME SingleProducerInv, NEW c \in Consumers,
                      NEW i \in 1 .. Len(consumed[c])
               PROVE  consumed[c][i] = Torn \/ consumed[c][i] >= i - 2
    BY DEF AtMostOneBehind
  <2>1. consumed[c][i] = Torn \/ consumed[c][i] \in i - 2 .. Filled - 1
    BY DEF SingleProducerInv, ConsumerInv
  <2>2. consumed[c] \in Seq(Int)
    BY DEF SingleProducerInv, TypeOK
  <2> QED
    BY <2>1, <2>2
<1> QED
  BY <1>1, SingleInvariant, PTL

(* The intact payloads one consumer prints never go back to an older       *)
(* event, though the producer overwrites slot 0 without waiting.           *)
THEOREM NeverGoesBack ==
    ASSUME SingleProducer PROVE Spec => []ConsumedNeverGoesBack
<1>1. SingleProducerInv => ConsumedNeverGoesBack
  BY DEF SingleProducerInv
<1> QED
  BY <1>1, SingleInvariant, PTL

(* Only consume() prints an event or moves a processor to the next one. *)
LEMMA OnlyConsume ==
    ASSUME [Next]_vars, ~\E c \in Consumers : consume(c)
    PROVE  UNCHANGED <<consumed, next_sequence_>>
<1> USE DEF clientVars, producerVars, consumerVars
<1>1. ASSUME NEW p \in Producers, onData(p)
      PROVE  UNCHANGED <<consumed, next_sequence_>>
  BY <1>1 DEF onData, next, set_begin, set_end, publish
<1>2. ASSUME NEW c \in Consumers, run(c)
      PROVE  UNCHANGED <<consumed, next_sequence_>>
  BY <1>2 DEF run, run_outer, run_inner
<1>3. CASE Client
  BY <1>3 DEF Client, Construct, start, start_thread, halt, halt_processor,
              halt_notified, join
<1>4. CASE UNCHANGED vars
  BY <1>4 DEF vars
<1> QED
  BY <1>1, <1>2, <1>3, <1>4 DEF Next, Step, Stopped

(* A caught-up consumer reads exactly the event of its sequence while the  *)
(* producer is between two calls.                                          *)
THEOREM ExactReads ==
    ASSUME SingleProducer PROVE Spec => ExactWhenCaughtUp
<1> DEFINE A == \A c \in Consumers :
                  (Idle /\ next_sequence_[c] = cursor
                        /\ Len(consumed'[c]) > Len(consumed[c]))
                     => consumed'[c] = Append(consumed[c], cursor)
<1>1. SingleProducerInv /\ [Next]_vars => [A]_vars
  <2> SUFFICES ASSUME SingleProducerInv, Next, NEW c \in Consumers, Idle,
                      Len(consumed'[c]) > Len(consumed[c])
               PROVE  consumed'[c] = Append(consumed[c], cursor)
    OBVIOUS
  <2> USE DEF SingleProducerInv, clientVars, producerVars, consumerVars
  <2>1. Len(consumed[c]) \in Nat
    BY DEF TypeOK
  <2>2. PICK d \in Consumers : consume(d)
    BY <2>1, OnlyConsume
  <2>3. d = c
    BY <2>1, <2>2 DEF consume, TypeOK
  <2>4. consumed'[c] = Append(consumed[c], buffer_[0])
    BY <2>2, <2>3, ReadSlot DEF consume, TypeOK
  <2>5. Filled = Len(claimed)
    BY DEF Idle, Filled
  <2> QED
    BY <2>4, <2>5 DEF ProducerInv
<1> QED
  BY <1>1, SingleInvariant, PTL DEF Spec, ExactWhenCaughtUp

-----------------------------------------------------------------------------
(* Refinement. *)

LEMMA StreamInit == Init => Stream!Init
BY DEF Init, Stream!Init, Filled

LEMMA StreamStep ==
    ASSUME SingleProducer, SingleProducerInv, [Next]_vars
    PROVE  [Stream!Next]_Stream!vars
<1> USE DEF SingleProducerInv, clientVars, producerVars, consumerVars
<1>a. Len(claimed) \in Nat /\ claimed \in Seq(Int)
  BY DEF TypeOK
<1>1. ASSUME NEW p \in Producers, next(p) PROVE Stream!Claim
  <2>1. \A q \in Producers : q = p
    BY DEF SingleProducer
  <2>2. ppc[p] = "idle" /\ ppc'[p] = "claimed" /\ consumed' = consumed
    BY <1>1 DEF next, TypeOK
  <2>3. Len(claimed') = Len(claimed) + 1
    BY <1>1, <1>a, TypeProducer DEF next, onData, CursorOf, TypeOK
  <2> QED
    BY <1>a, <2>1, <2>2, <2>3 DEF Stream!Claim, Filled
<1>2. ASSUME NEW p \in Producers, set_end(p) PROVE Stream!Fill
  <2>1. \A q \in Producers : q = p
    BY DEF SingleProducer
  <2>2. ppc[p] = "setting" /\ ppc'[p] = "set"
    BY <1>2 DEF set_end, Written, TypeOK
  <2>3. claimed' = claimed /\ consumed' = consumed
    BY <1>2 DEF set_end
  <2>4. Filled = Len(claimed) - 1
    BY <2>2 DEF Filled
  <2>5. Filled' = Len(claimed)
    BY <2>1, <2>2, <2>3 DEF Filled
  <2> QED
    BY <1>a, <2>3, <2>4, <2>5 DEF Stream!Fill
<1>3. ASSUME NEW p \in Producers, set_begin(p) \/ publish(p)
      PROVE  UNCHANGED Stream!vars
  <2>1. \A q \in Producers : q = p
    BY DEF SingleProducer
  <2> QED
    BY <1>3, <2>1 DEF set_begin, publish, Published, Stream!vars, Filled, TypeOK
<1>4. ASSUME NEW c \in Consumers, consume(c) PROVE Stream!Take(c)
  <2>1. cpc[c] = "read" /\ claimed' = claimed /\ Filled' = Filled
    BY <1>4 DEF consume, Filled
  <2>2. Len(consumed[c]) < Len(claimed)
    BY <2>1 DEF ConsumerInv
  <2>3. consumed' = [consumed EXCEPT ![c] = Append(@, get(0))]
    BY <1>4, <2>1, ReadSlot DEF consume
  <2>4. get(0) \in Stream!Visible
    <3>1. CASE \E p \in Producers : ppc[p] \in {"claimed", "setting"}
      <4>1. Filled = Len(claimed) - 1 /\ get(0) \in {Len(claimed) - 2, Torn}
        BY <1>a, <2>1, <3>1, ReadSlot DEF Filled, ProducerInv
      <4> QED
        BY <1>a, <4>1 DEF Stream!Visible
    <3>2. CASE \A p \in Producers : ppc[p] \notin {"claimed", "setting"}
      <4>1. Filled = Len(claimed) /\ buffer_[0] = Len(claimed) - 1
        BY <3>2 DEF Filled, ProducerInv
      <4>2. get(0) = buffer_[0]
        BY <3>2 DEF get, WritersOf
      <4> QED
        BY <4>1, <4>2 DEF Stream!Visible
    <3> QED
      BY <3>1, <3>2
  <2> QED
    BY <2>1, <2>2, <2>3, <2>4 DEF Stream!Take
<1>5. ASSUME NEW c \in Consumers, run_outer(c) \/ run_inner(c)
      PROVE  UNCHANGED Stream!vars
  BY <1>5 DEF run_outer, Stay, run_inner, Available, Stream!vars, Filled
<1>6. CASE Client
  BY <1>6 DEF Client, Construct, Rewired, start, start_thread, halt, halt_processor,
              halt_notified, join, Exited, Stream!vars, Filled
<1>7. CASE UNCHANGED vars
  BY <1>7 DEF vars, Stream!vars, Filled
<1> QED
  BY <1>1, <1>2, <1>3, <1>4, <1>5, <1>6, <1>7
     DEF Next, Step, Stopped, onData, run, Stream!Next

(* The single-producer Disruptor implements the one-place event stream,    *)
(* for any consumers and any capacity no smaller than the number of events.*)
THEOREM Refinement == ASSUME SingleProducer PROVE Spec => ImplementsStream
<1>1. SingleProducerInv /\ [Next]_vars => [Stream!Next]_Stream!vars
  BY StreamStep
<1> QED
  BY <1>1, StreamInit, SingleInvariant, PTL DEF Spec, ImplementsStream, Stream!Spec

-----------------------------------------------------------------------------
(* The lifecycle.  A thread inside run() has been started and not joined;  *)
(* from the end of halt()'s first loop on, running_ is false for ever; so  *)
(* from the second start() on, no thread gets past its first test.         *)
LifecycleInv ==
    /\ \A c \in Consumers : cpc[c] \in {"outer", "inner", "read"} => c \in threads_
    /\ phase = "halted" => threads_ = {}
    /\ phase \in {"wiring", "built"} => starts = 0
    /\ phase \in {"joining", "halted"} => \A c \in Consumers : ~running_[c]
    /\ starts >= 2 => \A c \in Consumers : ~running_[c] /\ cpc[c] \notin {"inner", "read"}

LEMMA LifecycleInit == Init => LifecycleInv
<1> SUFFICES ASSUME Init PROVE LifecycleInv
  OBVIOUS
<1>1. phase = "wiring" /\ starts = 0 /\ \A c \in Consumers : cpc[c] = "none"
  BY DEF Init
<1> QED
  BY <1>1 DEF LifecycleInv

LEMMA LifecycleStep == TypeOK /\ LifecycleInv /\ [Next]_vars => LifecycleInv'
<1> SUFFICES ASSUME TypeOK, LifecycleInv, [Next]_vars PROVE LifecycleInv'
  OBVIOUS
<1> USE DEF LifecycleInv, clientVars, producerVars, consumerVars
<1>1. ASSUME NEW p \in Producers, onData(p) PROVE LifecycleInv'
  BY <1>1 DEF onData, next, set_begin, set_end, Written, publish, Published
<1>2. ASSUME NEW c \in Consumers, run(c) PROVE LifecycleInv'
  <2>1. c \in threads_ /\ UNCHANGED <<clientVars, running_>>
    BY <1>2 DEF run, run_outer, Stay, run_inner, Available, consume
  <2>2. starts >= 2 => cpc'[c] \notin {"inner", "read"}
    BY <1>2 DEF run, run_outer, Stay, run_inner, Available, consume, TypeOK
  <2>3. \A d \in Consumers \ {c} : cpc'[d] = cpc[d]
    BY <1>2 DEF run, run_outer, Stay, run_inner, Available, consume, TypeOK
  <2> QED
    BY <2>1, <2>2, <2>3
<1>3. CASE Construct
  BY <1>3 DEF Construct, Rewired
<1>4. CASE start
  <2>1. CASE phase = "built"
    BY <1>4, <2>1 DEF start, TypeOK
  <2>2. CASE phase = "halted"
    BY <1>4, <2>2 DEF start, TypeOK
  <2> QED
    BY <1>4, <2>1, <2>2 DEF start
<1>5. ASSUME NEW c \in Consumers, start_thread(c) PROVE LifecycleInv'
  BY <1>5 DEF start_thread, TypeOK
<1>6. CASE halt \/ halt_notified
  BY <1>6 DEF halt, halt_notified
<1>7. ASSUME NEW c \in Consumers, halt_processor(c) PROVE LifecycleInv'
  BY <1>7 DEF halt_processor, TypeOK
<1>8. ASSUME NEW c \in Consumers, join(c) PROVE LifecycleInv'
  BY <1>8 DEF join, Exited, TypeOK
<1>9. CASE UNCHANGED vars
  BY <1>9 DEF vars
<1> QED
  BY <1>1, <1>2, <1>3, <1>4, <1>5, <1>6, <1>7, <1>8, <1>9
     DEF Next, Step, Stopped, Client

LEMMA Lifecycle == Spec => []LifecycleInv
BY TypeCorrect, LifecycleInit, LifecycleStep, PTL DEF Spec

(* halt() leaves no processor thread inside run(), for any consumers and   *)
(* any number of sessions.                                                 *)
THEOREM HaltedIsQuiet == Spec => []NoConsumerAfterHalt
<1>1. TypeOK /\ LifecycleInv => NoConsumerAfterHalt
  BY DEF TypeOK, LifecycleInv, NoConsumerAfterHalt
<1> QED
  BY <1>1, TypeCorrect, Lifecycle, PTL

(* A restarted Disruptor never delivers: halt() clears running_ and no     *)
(* later start() sets it.                                                  *)
THEOREM RestartIsDead == Spec => NoDeliveryAfterRestart
<1> DEFINE A == \A c \in Consumers :
                  starts >= 2 => next_sequence_'[c] = next_sequence_[c]
<1>1. TypeOK /\ LifecycleInv /\ [Next]_vars => [A]_vars
  <2> SUFFICES ASSUME LifecycleInv, [Next]_vars, starts >= 2
               PROVE  next_sequence_' = next_sequence_
    OBVIOUS
  <2>1. ~\E c \in Consumers : consume(c)
    BY DEF consume, LifecycleInv
  <2> QED
    BY <2>1, OnlyConsume
<1> QED
  BY <1>1, TypeCorrect, Lifecycle, PTL DEF Spec, NoDeliveryAfterRestart
=============================================================================

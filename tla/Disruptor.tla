----------------------------- MODULE Disruptor -----------------------------
(***************************************************************************)
(* The disruptor of src/disruptor: producers that claim a sequence, write  *)
(* an event and publish it; event processors (consumers) that poll the     *)
(* cursor on threads of their own; and the client thread that builds the   *)
(* Disruptor, starts it, and halts it.                                     *)
(*                                                                         *)
(* Every step below is one access to shared memory.  cursor_ is a          *)
(* sequentially consistent atomic and separates the plain accesses to the  *)
(* events, so interleaving the steps loses no outcome; a plain read that   *)
(* overlaps a plain write of the same event is a data race and yields      *)
(* Torn.                                                                   *)
(***************************************************************************)
EXTENDS Integers, Sequences, FiniteSets

CONSTANTS
    Producers,   \* the producers_ vector
    Consumers,   \* the processors_ vector
    N,           \* capacity of the ring, a template parameter
    MaxEvents,   \* bound: calls of on_data
    MaxStarts    \* bound: calls of start()

ASSUME CapacityAssumption == N \in Nat \ {0} /\ \E k \in 0 .. N : N = 2^k
ASSUME BoundsAssumption == MaxEvents \in Nat /\ MaxStarts \in Nat
ASSUME ThreadsAssumption == Consumers # {} /\ Producers \cap Consumers = {}

VARIABLES
    phase,           \* where the client thread is
    threads_,        \* consumers whose thread is in Disruptor::threads_
    starts,          \* calls of start() so far (bounded by MaxStarts)
    sequencer_,      \* whose Sequencer each producer and consumer holds
    cursor_,         \* Sequencer::cursor_, one per Sequencer
    buffer_,         \* payloads of the shared RingBuffer, and the word past it
    ppc,             \* where each producer is in on_data
    sequence,        \* the local variable of on_data
    data,            \* the payload of the on_data call in progress
    raced,           \* producers whose set() overlapped another one
    cpc,             \* where each consumer is in run()
    running_,        \* EventProcessor::running_
    next_sequence_,  \* EventProcessor::next_sequence_
    crashed,         \* an out-of-bounds access has faulted
    claimed,         \* history: the sequences next() returned, in order
    consumed         \* history: the payloads each consumer printed

clientVars   == <<phase, threads_, starts, sequencer_>>
producerVars == <<ppc, sequence, data, raced>>
consumerVars == <<cpc, running_, next_sequence_, consumed>>
vars == <<clientVars, cursor_, buffer_, producerVars, consumerVars,
          crashed, claimed>>

(***************************************************************************)
(* Payloads.  The k-th call of on_data (from 0, in the order in which the  *)
(* calls reach Sequencer::next) carries payload k; an Event starts as the  *)
(* empty string; Torn is any mixture of an old and a new string.           *)
(***************************************************************************)
Empty == -1
Torn  == -2

(* The Sequencer the client made and the one Disruptor's constructor makes. *)
Sequencers == {"user", "own"}

(* Disruptor::cursor *)
cursor == cursor_["own"]

(* Sequencer::cursor, through the handle x holds *)
CursorOf(x) == cursor_[sequencer_[x]]

(***************************************************************************)
(* RingBuffer::get indexes with  sequence & N.  N is a power of two, so    *)
(* the result is bit N of the sequence: 0 or N, never anything between.    *)
(* Index N is one past the end of std::array<Event, N>.                    *)
(***************************************************************************)
Slot(s) == N * ((s \div N) % 2)

Slots == 0 .. N

OutOfBounds(i) == i >= N

(* An access past the array may kill the process, or go unnoticed. *)
Faults(i) == IF OutOfBounds(i) THEN BOOLEAN ELSE {FALSE}

-----------------------------------------------------------------------------
(* The members' initial values. *)
InitSequencers == cursor_ = [s \in Sequencers |-> -1]

InitProcessors ==
    /\ running_ = [c \in Consumers |-> TRUE]
    /\ next_sequence_ = [c \in Consumers |-> 0]

(* The memory past the array is not an Event: reading it yields anything. *)
InitBuffer == buffer_ = [i \in Slots |-> IF OutOfBounds(i) THEN Torn ELSE Empty]

Init ==
    /\ phase = "wiring"
    /\ threads_ = {}
    /\ starts = 0
    /\ sequencer_ = [x \in Producers \cup Consumers |-> "user"]
    /\ InitSequencers
    /\ InitBuffer
    /\ ppc = [p \in Producers |-> "idle"]
    /\ sequence = [p \in Producers |-> -1]
    /\ data = [p \in Producers |-> Empty]
    /\ raced = {}
    /\ cpc = [c \in Consumers |-> "none"]
    /\ InitProcessors
    /\ crashed = FALSE
    /\ claimed = <<>>
    /\ consumed = [c \in Consumers |-> <<>>]

-----------------------------------------------------------------------------
(* Producer::on_data, one action per shared access. *)

(* Sequencer::next: the atomic increment also moves the public cursor. *)
next(p) ==
    /\ phase = "started"
    /\ ppc[p] = "idle"
    /\ Len(claimed) < MaxEvents
    /\ LET s == CursorOf(p) + 1 IN
        /\ cursor_' = [cursor_ EXCEPT ![sequencer_[p]] = s]
        /\ sequence' = [sequence EXCEPT ![p] = s]
        /\ claimed' = Append(claimed, s)
    /\ data' = [data EXCEPT ![p] = Len(claimed)]
    /\ ppc' = [ppc EXCEPT ![p] = "claimed"]
    /\ UNCHANGED <<clientVars, buffer_, raced, consumerVars, crashed>>

(* The producers that are inside Event::set on slot i. *)
WritersOf(i) == {q \in Producers : ppc[q] = "setting" /\ Slot(sequence[q]) = i}

(* Event::set starts to overwrite the string. *)
set_begin(p) ==
    LET i == Slot(sequence[p]) IN
    /\ ppc[p] = "claimed"
    /\ ppc' = [ppc EXCEPT ![p] = "setting"]
    /\ raced' = IF WritersOf(i) = {} THEN raced \ {p}
                                     ELSE raced \cup {p} \cup WritersOf(i)
    /\ crashed' \in Faults(i)
    /\ UNCHANGED <<clientVars, cursor_, buffer_, sequence, data, consumerVars,
                   claimed>>

(* What Event::set leaves: the payload, or a mixture if another overlapped. *)
Shadowed(p) == {buffer_[Slot(sequence[p])]}

Written(p) == {data[p]} \cup (IF p \in raced THEN {Torn} ELSE {})

(* Event::set returns. *)
set_end(p) ==
    LET i == Slot(sequence[p]) IN
    /\ ppc[p] = "setting"
    /\ ppc' = [ppc EXCEPT ![p] = "set"]
    /\ \E v \in Written(p) : buffer_' = [buffer_ EXCEPT ![i] = v]
    /\ UNCHANGED <<clientVars, cursor_, sequence, data, raced, consumerVars,
                   crashed, claimed>>

PublishedPlusOne(p) == sequence[p] + 1

Published(p) == sequence[p]

(* Sequencer::publish: a plain store, whatever the cursor has become. *)
publish(p) ==
    /\ ppc[p] = "set"
    /\ cursor_' = [cursor_ EXCEPT ![sequencer_[p]] = Published(p)]
    /\ ppc' = [ppc EXCEPT ![p] = "idle"]
    /\ UNCHANGED <<clientVars, buffer_, sequence, data, raced, consumerVars,
                   crashed, claimed>>

-----------------------------------------------------------------------------
(* EventProcessor::run, one action per shared access. *)

StayForever(c) == TRUE

Stay(c) == running_[c]

(* while (running_) *)
run_outer(c) ==
    /\ cpc[c] = "outer"
    /\ cpc' = [cpc EXCEPT ![c] = IF Stay(c) THEN "inner" ELSE "exited"]
    /\ UNCHANGED <<clientVars, cursor_, buffer_, producerVars, running_,
                   next_sequence_, consumed, crashed, claimed>>

AvailableTooSoon(c) == next_sequence_[c] <= CursorOf(c) + 1

AvailableTooLate(c) == next_sequence_[c] < CursorOf(c)

Available(c) == next_sequence_[c] <= CursorOf(c)

(* while (next_sequence_ <= sequencer_->cursor()) *)
run_inner(c) ==
    /\ cpc[c] = "inner"
    /\ cpc' = [cpc EXCEPT ![c] = IF Available(c) THEN "read" ELSE "outer"]
    /\ UNCHANGED <<clientVars, cursor_, buffer_, producerVars, running_,
                   next_sequence_, consumed, crashed, claimed>>

(* Event::get: a copy of the string, torn when a set() is in progress. *)
get(i) == IF WritersOf(i) = {} THEN buffer_[i] ELSE Torn

(* The inner loop's body: get the event, print it, ++next_sequence_. *)
consume(c) ==
    LET i == Slot(next_sequence_[c]) IN
    /\ cpc[c] = "read"
    /\ consumed' = [consumed EXCEPT ![c] = Append(@, get(i))]
    /\ next_sequence_' = [next_sequence_ EXCEPT ![c] = @ + 1]
    /\ cpc' = [cpc EXCEPT ![c] = "inner"]
    /\ crashed' \in Faults(i)
    /\ UNCHANGED <<clientVars, cursor_, buffer_, producerVars, running_, claimed>>

-----------------------------------------------------------------------------
(* The client thread: Disruptor's constructor, start() and halt(). *)

Rewired == [x \in Producers \cup Consumers |-> "own"]

(* The constructor replaces every handle.  No thread runs yet. *)
Construct ==
    /\ phase = "wiring"
    /\ sequencer_' = Rewired
    /\ phase' = "built"
    /\ UNCHANGED <<threads_, starts, cursor_, buffer_, producerVars,
                   consumerVars, crashed, claimed>>

(* The client calls start() on a Disruptor that is not running. *)
start ==
    /\ phase \in {"built", "halted"}
    /\ starts < MaxStarts
    /\ starts' = starts + 1
    /\ phase' = "starting"
    /\ UNCHANGED <<threads_, sequencer_, cursor_, buffer_, producerVars,
                   consumerVars, crashed, claimed>>

(* One round of start()'s loop: a thread that runs processor->run(). *)
start_thread(c) ==
    /\ phase = "starting"
    /\ c \notin threads_
    /\ threads_' = threads_ \cup {c}
    /\ cpc' = [cpc EXCEPT ![c] = "outer"]
    /\ phase' = IF threads_' = Consumers THEN "started" ELSE "starting"
    /\ UNCHANGED <<starts, sequencer_, cursor_, buffer_, producerVars,
                   running_, next_sequence_, consumed, crashed, claimed>>

(* The client calls halt(), with none of its on_data calls in progress. *)
halt ==
    /\ phase = "started"
    /\ \A p \in Producers : ppc[p] = "idle"
    /\ phase' = "halting"
    /\ UNCHANGED <<threads_, starts, sequencer_, cursor_, buffer_,
                   producerVars, consumerVars, crashed, claimed>>

(* 1. Notify all processors to stop: EventProcessor::halt. *)
halt_processor(c) ==
    /\ phase = "halting"
    /\ running_[c]
    /\ running_' = [running_ EXCEPT ![c] = FALSE]
    /\ UNCHANGED <<clientVars, cursor_, buffer_, producerVars, cpc,
                   next_sequence_, consumed, crashed, claimed>>

halt_notified ==
    /\ phase = "halting"
    /\ \A c \in Consumers : ~running_[c]
    /\ phase' = "joining"
    /\ UNCHANGED <<threads_, starts, sequencer_, cursor_, buffer_,
                   producerVars, consumerVars, crashed, claimed>>

Detached(c) == TRUE

Exited(c) == cpc[c] = "exited"

(* 2. Join the threads; 3. with the last one joined, threads_.clear(). *)
join(c) ==
    /\ phase = "joining"
    /\ c \in threads_
    /\ Exited(c)
    /\ threads_' = threads_ \ {c}
    /\ phase' = IF threads_' = {} THEN "halted" ELSE "joining"
    /\ UNCHANGED <<starts, sequencer_, cursor_, buffer_, producerVars,
                   consumerVars, crashed, claimed>>

-----------------------------------------------------------------------------
onData(p) == next(p) \/ set_begin(p) \/ set_end(p) \/ publish(p)

run(c) == run_outer(c) \/ run_inner(c) \/ consume(c)

Client ==
    \/ Construct
    \/ start
    \/ \E c \in Consumers : start_thread(c)
    \/ halt
    \/ \E c \in Consumers : halt_processor(c)
    \/ halt_notified
    \/ \E c \in Consumers : join(c)

Step == /\ ~crashed
        /\ \/ \E p \in Producers : onData(p)
           \/ \E c \in Consumers : run(c)
           \/ Client

(* main() has returned, or the process has died. *)
Stopped ==
    /\ crashed \/ (phase = "halted" /\ starts = MaxStarts)
    /\ UNCHANGED vars

Next == Step \/ Stopped

Spec == Init /\ [][Next]_vars

(***************************************************************************)
(* Fairness.  The operating system runs every thread: each consumer thread *)
(* takes its next step, a producer inside on_data goes on, and the client  *)
(* goes on inside start() and halt().  Nothing obliges the client to call  *)
(* on_data, start or halt at all.                                          *)
(***************************************************************************)
ConsumerFairness == \A c \in Consumers : WF_vars(~crashed /\ run(c))

ProducerFairness == \A p \in Producers :
    WF_vars(~crashed /\ (set_begin(p) \/ set_end(p) \/ publish(p)))

ClientFairness ==
    /\ WF_vars(~crashed /\ \E c \in Consumers : start_thread(c))
    /\ WF_vars(~crashed /\ \E c \in Consumers : halt_processor(c))
    /\ WF_vars(~crashed /\ halt_notified)
    /\ WF_vars(~crashed /\ \E c \in Consumers : join(c))

FairSpec == Spec /\ ConsumerFairness /\ ProducerFairness /\ ClientFairness

-----------------------------------------------------------------------------
(* Properties. *)

(* Every variable keeps its type. *)
TypeOK ==
    /\ phase \in {"wiring", "built", "starting", "started", "halting",
                  "joining", "halted"}
    /\ threads_ \in SUBSET Consumers
    /\ starts \in 0 .. MaxStarts
    /\ sequencer_ \in [Producers \cup Consumers -> Sequencers]
    /\ cursor_ \in [Sequencers -> Int]
    /\ buffer_ \in [Slots -> Int]
    /\ ppc \in [Producers -> {"idle", "claimed", "setting", "set"}]
    /\ sequence \in [Producers -> Int]
    /\ data \in [Producers -> Int]
    /\ raced \in SUBSET Producers
    /\ cpc \in [Consumers -> {"none", "outer", "inner", "read", "exited"}]
    /\ running_ \in [Consumers -> BOOLEAN]
    /\ next_sequence_ \in [Consumers -> Nat]
    /\ crashed \in BOOLEAN
    /\ claimed \in Seq(Int)
    /\ consumed \in [Consumers -> Seq(Int)]

Idle == \A p \in Producers : ppc[p] = "idle"

(***************************************************************************)
(* One producer: between two on_data calls the cursor counts the calls, as *)
(* the tests' EXPECT_EQ(disruptor.cursor(), ...) require: -1 before the    *)
(* first, k after call k.  It needs next() and publish() to agree, and     *)
(* both to act on the Sequencer Disruptor reads.                           *)
(***************************************************************************)
CursorCountsCalls == Idle => cursor = Len(claimed) - 1

(***************************************************************************)
(* One producer, no more than N events: what a consumer prints for         *)
(* sequence s is torn, or the payload of an event no older than the one    *)
(* before s.  The consumer may run ahead of the write (next() has already  *)
(* moved the cursor), but by one event at most.                            *)
(***************************************************************************)
AtMostOneBehind ==
    \A c \in Consumers : \A i \in 1 .. Len(consumed[c]) :
        consumed[c][i] = Torn \/ consumed[c][i] >= i - 2

(***************************************************************************)
(* One producer, no more than N events: the intact payloads a consumer     *)
(* prints never go back to an older event, although the producer           *)
(* overwrites the only slot in use without waiting for any consumer.       *)
(***************************************************************************)
ConsumedNeverGoesBack ==
    \A c \in Consumers : \A i, j \in 1 .. Len(consumed[c]) :
        (i < j /\ consumed[c][i] # Torn /\ consumed[c][j] # Torn)
            => consumed[c][i] <= consumed[c][j]

(***************************************************************************)
(* No consumer handles, and no cursor announces, a sequence that next()    *)
(* has not handed out, however many producers race in next and publish.    *)
(***************************************************************************)
NoPhantomSequence ==
    /\ cursor < Len(claimed)
    /\ \A c \in Consumers : next_sequence_[c] <= Len(claimed)

(* The inductive form of NoPhantomSequence: it also bounds what a producer *)
(* still holds and may publish late, and what a consumer is about to read. *)
ClaimInv ==
    /\ \A s \in Sequencers : cursor_[s] < Len(claimed)
    /\ \A p \in Producers : sequence[p] < Len(claimed)
    /\ \A c \in Consumers :
          /\ next_sequence_[c] <= Len(claimed)
          /\ cpc[c] = "read" => next_sequence_[c] < Len(claimed)

(***************************************************************************)
(* Once halt() has returned, no processor thread of this Disruptor is      *)
(* still inside run(): the client may destroy the processors.              *)
(***************************************************************************)
NoConsumerAfterHalt ==
    phase = "halted" => \A c \in Consumers : cpc[c] \in {"none", "exited"}

(***************************************************************************)
(* running_ is never set again: a processor that halt() has notified never *)
(* handles a further event once it re-reads the flag, not even after       *)
(* another start().                                                        *)
(***************************************************************************)
NoDeliveryAfterRestart ==
    [][\A c \in Consumers :
          starts >= 2 => next_sequence_'[c] = next_sequence_[c]]_vars

(***************************************************************************)
(* One producer, no more than N events: a consumer that has caught up      *)
(* with the cursor while the producer is between two calls reads exactly   *)
(* the event of that sequence. main.cpp's sleep between calls aims at      *)
(* this case.                                                              *)
(***************************************************************************)
ExactWhenCaughtUp ==
    [][\A c \in Consumers :
          (Idle /\ next_sequence_[c] = cursor
                /\ Len(consumed'[c]) > Len(consumed[c]))
             => consumed'[c] = Append(consumed[c], cursor)]_vars

(***************************************************************************)
(* Liveness.  halt() returns: every processor sees running_ go false and   *)
(* every join succeeds, because the producers are quiet while it runs.     *)
(***************************************************************************)
HaltReturns == (phase = "halting") ~> (phase = "halted")

(***************************************************************************)
(* One producer: a sequence the cursor has reached is handled by every     *)
(* running processor, unless the client halts it.                          *)
(***************************************************************************)
EventuallyConsumed ==
    \A c \in Consumers : \A s \in 0 .. MaxEvents - 1 :
        (phase = "started" /\ running_[c] /\ s <= cursor)
            ~> (next_sequence_[c] > s \/ ~running_[c])

-----------------------------------------------------------------------------
(***************************************************************************)
(* The inductive invariant behind the single-producer properties, for one  *)
(* producer and no more than N events.  The slot in use is slot 0.         *)
(***************************************************************************)

(* At most one producer, and no more events than slots: main.cpp and the   *)
(* tests, which send 100 and 2 events through 1024 slots.                  *)
SingleProducer == (\A p, q \in Producers : p = q) /\ MaxEvents <= N

(* Until the constructor has run, and no longer, the client's Sequencer is *)
(* in use; no event exists before start() has returned.                    *)
WiringInv ==
    /\ phase # "wiring" => \A x \in Producers \cup Consumers : sequencer_[x] = "own"
    /\ phase \in {"wiring", "built"} => threads_ = {} /\ Idle /\ claimed = <<>>
    /\ phase = "wiring" => \A c \in Consumers : cpc[c] = "none"

(* The events whose payload is in the slot: all, or all but the last. *)
Filled == IF \E p \in Producers : ppc[p] \in {"claimed", "setting"}
          THEN Len(claimed) - 1 ELSE Len(claimed)

(* next() alone moves the cursor: publish() stores what is there already. *)
ProducerInv ==
    /\ Len(claimed) <= MaxEvents
    /\ cursor = Len(claimed) - 1
    /\ \A p \in Producers : ppc[p] # "idle" =>
          /\ sequence[p] = Len(claimed) - 1
          /\ data[p] = Len(claimed) - 1
          /\ Len(claimed) > 0
    /\ raced = {}
    /\ buffer_[0] = Filled - 1

(* What a consumer has printed lies between the event before its sequence  *)
(* and the content of the slot.                                            *)
ConsumerInv ==
    \A c \in Consumers :
        /\ next_sequence_[c] = Len(consumed[c])
        /\ next_sequence_[c] <= Len(claimed)
        /\ cpc[c] = "read" => next_sequence_[c] < Len(claimed)
        /\ \A i \in 1 .. Len(consumed[c]) :
              consumed[c][i] = Torn \/ consumed[c][i] \in i - 2 .. Filled - 1

(* The conjunction is inductive, and every single-producer property above  *)
(* follows from it: next(), set() and publish() of one producer keep the   *)
(* cursor, the claimed count and the slot in step.                         *)
SingleProducerInv ==
    TypeOK /\ WiringInv /\ ProducerInv /\ ConsumerInv /\ ConsumedNeverGoesBack

(***************************************************************************)
(* With one producer and no more than N events the Disruptor implements    *)
(* EventStream: next() claims, the end of set() fills, a consumer's read   *)
(* takes, and every other step of producer, consumer and client, publish() *)
(* included, is invisible.                                                 *)
(***************************************************************************)
Stream == INSTANCE EventStream
            WITH claimed <- Len(claimed), filled <- Filled, taken <- consumed

ImplementsStream == Stream!Spec

-----------------------------------------------------------------------------
(* What the repository's documents say of a disruptor, as stated there. *)

(* README.txt: data is copied first and made public by committing; consumers *)
(* wait for a sequence to become available before they read the entry.       *)
ReadsOnlyCommitted ==
    \A c \in Consumers : cpc[c] = "read" =>
        \A p \in Producers : ppc[p] \in {"claimed", "setting"}
            => sequence[p] # next_sequence_[c]

(* README.txt: the ring buffer is a bounded structure of N entries, and a    *)
(* producer writes to the slot it has claimed.                               *)
SlotInBounds ==
    \A p \in Producers : ppc[p] = "setting" => ~OutOfBounds(Slot(sequence[p]))

(* README.txt: the cursor represents the latest entry available.             *)
CursorNeverGoesBack == [][cursor' >= cursor]_vars
=============================================================================

------------------------- MODULE ZapPipelineProofs --------------------------
(***************************************************************************)
(* Theorems of ZapPipeline, for any runs, processors, workers, partitions  *)
(* and any number of faults.                                               *)
(***************************************************************************)
EXTENDS ZapPipeline, TLAPS, FiniteSetTheorems, SequenceTheorems, LeastNumber

---------------------------------------------------------------------------
(***************************************************************************)
(* The inductive invariant.                                                *)
(***************************************************************************)
Message  == [run : Run, stage : Nat]
First(r) == [run |-> r, stage |-> 0]
NextOf(x) == [run |-> x[1], stage |-> x[2] + 1]
Decided  == {"SUCCESS", "FAILED"}

\* What TypeOK leaves unsaid: what the functions are defined on.
Shape ==
    /\ log \in [Partition -> Seq(Message)]
    /\ committed \in [Partition -> Nat]
    /\ source \in [Worker -> [partition : Partition \cup {"none"}, offset : Nat]]

\* All stages of r before stage n have succeeded.
Reached(r, n) == \A k \in 0..(n - 1) : <<r, k>> \in Stage /\ stage[<<r, k>>] = "SUCCESS"

LinearInv == \A q \in Partition : \A i \in 1..Len(log[q]) : Reached(log[q][i].run, log[q][i].stage)

\* The message of a stage.
MessageOf(x) == [run |-> x[1], stage |-> x[2]]

\* Nobody begins a stage but on its message.
StartedInv == \A x \in Stage : stage[x] # "absent" => MessageOf(x) \in Logged

\* The stage of a message is decided, and a success is carried on.
Settled(m) ==
    LET x == <<m.run, m.stage>> IN
    /\ x \in Stage /\ stage[x] \in Decided
    /\ stage[x] = "SUCCESS" /\ HasNext(x) => NextOf(x) \in Logged

CommittedInv == \A q \in Partition : \A i \in 1..committed[q] : Settled(log[q][i])

\* A worker knows what it says about its message, and is at the head of its partition
\* for as long as the partition is its own.
WorkerInv(w) ==
    /\ wpc[w] \in {"claim", "execute", "settle", "commit"} => At(w) \in Stage
    /\ wpc[w] = "settle" => stage[At(w)] \in Decided /\ (advance[w] <=> stage[At(w)] = "SUCCESS")
    /\ wpc[w] = "commit" => Settled(Msg(w))
    /\ wpc[w] # "idle" /\ assigned[source[w].partition] = w =>
         source[w].offset = committed[source[w].partition] + 1

\* Every accepted run is still owed to the log or in it, and what a processor is about
\* to delete is in it.
RelayInv ==
    /\ \A r \in accepted : r \in outbox \/ First(r) \in Logged
    /\ \A r \in Run : First(r) \in Logged => r \in accepted
    /\ \A p \in Processor : batch[p] \subseteq accepted
    /\ \A p \in Processor : ppc[p] = "delete" => \A r \in batch[p] : First(r) \in Logged

IInv ==
    /\ TypeOK
    /\ Shape
    /\ LinearInv
    /\ StartedInv
    /\ CommittedInv
    /\ \A w \in Worker : WorkerInv(w)
    /\ RelayInv

---------------------------------------------------------------------------
(***************************************************************************)
(* The log only grows.                                                     *)
(***************************************************************************)

\* The events of the log are those at its offsets.
LEMMA LoggedMembers ==
    ASSUME NEW m
    PROVE  m \in Logged <=> \E q \in Partition : \E i \in 1..Len(log[q]) : log[q][i] = m
BY DEF Logged, Messages

\* A stage is a run with a number.
LEMMA StageMembers ==
    ASSUME NEW x \in Stage
    PROVE  x[1] \in Run /\ x[2] \in Nat /\ x = <<x[1], x[2]>>
BY PipelineAssumption DEF Stage

Extends ==
    /\ log' \in [Partition -> Seq(Message)]
    /\ \A q \in Partition :
         /\ Len(log[q]) <= Len(log'[q])
         /\ \A i \in 1..Len(log[q]) : log'[q][i] = log[q][i]

\* Every event of the new log was there before or is in M.
Adds(M) == \A q \in Partition : \A i \in 1..Len(log'[q]) :
               i \in 1..Len(log[q]) \/ log'[q][i] \in M

\* Decisions are final, and a stage is begun on its message.
Steady ==
    \A x \in Stage :
        /\ stage[x] \in Decided => stage'[x] = stage[x]
        /\ stage'[x] # "absent" => stage[x] # "absent" \/ MessageOf(x) \in Logged

LEMMA SameLog == ASSUME Shape, log' = log PROVE Extends /\ Adds({})
BY DEF Shape, Extends, Adds

\* Nothing leaves the log, and what is new is in M.
LEMMA GrownLog ==
    ASSUME Shape, Extends
    PROVE  /\ \A m : m \in Logged => m \in Logged'
           /\ \A M : Adds(M) => \A m : m \in Logged' => m \in Logged \/ m \in M
<1>1. \A q \in Partition : Len(log[q]) \in Nat /\ Len(log'[q]) \in Nat
  BY DEF Shape, Extends
<1>2. ASSUME NEW m, m \in Logged PROVE m \in Logged'
  <2>1. PICK q \in Partition : \E i \in 1..Len(log[q]) : log[q][i] = m
    BY <1>2, LoggedMembers
  <2>2. PICK i \in 1..Len(log[q]) : log[q][i] = m
    BY <2>1
  <2>3. i \in 1..Len(log'[q]) /\ log'[q][i] = m
    BY <1>1, <2>2 DEF Extends
  <2>. QED  BY <2>3 DEF Logged, Messages
<1>3. ASSUME NEW M, Adds(M), NEW m, m \in Logged' PROVE m \in Logged \/ m \in M
  <2>0. PICK q \in Partition : \E i \in 1..Len(log'[q]) : log'[q][i] = m
    BY <1>3 DEF Logged, Messages
  <2>1. PICK i \in 1..Len(log'[q]) : log'[q][i] = m
    BY <2>0
  <2>2. CASE i \in 1..Len(log[q])
    BY <2>1, <2>2, LoggedMembers DEF Extends
  <2>3. CASE i \notin 1..Len(log[q])
    BY <1>3, <2>1, <2>3 DEF Adds
  <2>. QED  BY <2>2, <2>3
<1>. QED  BY <1>2, <1>3

\* A stage queued behind a message.
LEMMA AppendedLog ==
    ASSUME Shape, NEW x \in Stage, AppendNext(x)
    PROVE  Extends /\ Adds({NextOf(x)}) /\ NextOf(x) \in Logged'
<1>1. PICK p \in Partition : log' = [log EXCEPT ![p] = Append(@, NextOf(x))]
  BY DEF AppendNext, NextOf
<1>2. NextOf(x) \in Message
  BY StageMembers DEF NextOf, Message
<1>3. ASSUME NEW q \in Partition, q # p PROVE log'[q] = log[q]
  BY <1>1, <1>3 DEF Shape
<1>4. log'[p] = Append(log[p], NextOf(x)) /\ log[p] \in Seq(Message)
  BY <1>1 DEF Shape
<1>5. /\ log'[p] \in Seq(Message) /\ Len(log'[p]) = Len(log[p]) + 1 /\ Len(log[p]) \in Nat
      /\ \A i \in 1..Len(log[p]) : log'[p][i] = log[p][i]
      /\ log'[p][Len(log[p]) + 1] = NextOf(x)
  BY <1>2, <1>4
<1>6. Extends
  <2>1. log' \in [Partition -> Seq(Message)]
    BY <1>1, <1>2, <1>4 DEF Shape
  <2>2. ASSUME NEW q \in Partition
        PROVE  /\ Len(log[q]) <= Len(log'[q])
               /\ \A i \in 1..Len(log[q]) : log'[q][i] = log[q][i]
    <3>1. CASE q = p
      BY <1>5, <3>1
    <3>2. CASE q # p
      BY <1>3, <3>2 DEF Shape
    <3>. QED  BY <3>1, <3>2
  <2>. QED  BY <2>1, <2>2 DEF Extends
<1>7. Adds({NextOf(x)})
  <2>1. ASSUME NEW q \in Partition, NEW i \in 1..Len(log'[q])
        PROVE  i \in 1..Len(log[q]) \/ log'[q][i] \in {NextOf(x)}
    <3>1. CASE q = p
      BY <1>5, <3>1
    <3>2. CASE q # p
      BY <1>3, <3>2
    <3>. QED  BY <3>1, <3>2
  <2>. QED  BY <2>1 DEF Adds
<1>8. NextOf(x) \in Logged'
  <2>1. Len(log[p]) + 1 \in 1..Len(log'[p]) /\ log'[p][Len(log[p]) + 1] = NextOf(x)
    BY <1>5
  <2>. QED  BY <2>1 DEF Logged, Messages
<1>. QED  BY <1>6, <1>7, <1>8

\* What a send adds to a partition is a sequence.
LEMMA EventsAreSeqs ==
    ASSUME NEW rows \in SUBSET Run, Cardinality(rows) \in Nat, NEW s \in Events(rows)
    PROVE  s \in Seq([run : rows, stage : {0}])
<1>. DEFINE M == [run : rows, stage : {0}]
<1>1. s \in UNION {[1..n -> M] : n \in 0..Cardinality(rows)}
  BY DEF Events
<1>. HIDE DEF M
<1>2. PICK n \in 0..Cardinality(rows) : s \in [1..n -> M]
  BY <1>1
<1>3. n \in Nat
  BY <1>2
<1>4. s \in UNION {[1..k -> M] : k \in Nat}
  BY <1>2, <1>3
<1>5. s \in Seq(M)
  BY <1>4, SeqDef
<1>. QED  BY <1>5 DEF M

\* A batch of the processor.
LEMMA PublishedLog ==
    ASSUME Shape, NEW rows \in SUBSET Run, Publish(rows)
    PROVE  /\ Extends /\ Adds({First(r) : r \in rows})
           /\ \A r \in rows : First(r) \in Logged'
<1>0. IsFiniteSet(rows) /\ Cardinality(rows) \in Nat
  BY PipelineAssumption, FS_Subset, FS_CardinalityType
<1>1. PICK new \in [Partition -> Events(rows)] :
        /\ \A r \in rows :
             Cardinality({x \in Partition \X (1..Cardinality(rows)) :
                            x[2] \in DOMAIN new[x[1]] /\ new[x[1]][x[2]].run = r}) = 1
        /\ log' = [q \in Partition |-> log[q] \o new[q]]
  BY DEF Publish
<1>2. ASSUME NEW q \in Partition
      PROVE  /\ new[q] \in Seq([run : rows, stage : {0}])
             /\ DOMAIN new[q] = 1..Len(new[q])
  <2>1. new[q] \in Seq([run : rows, stage : {0}])
    BY <1>0, EventsAreSeqs
  <2>. QED  BY <2>1, LenProperties
<1>3. ASSUME NEW q \in Partition
      PROVE  /\ log'[q] \in Seq(Message)
             /\ Len(log[q]) \in Nat /\ Len(new[q]) \in Nat
             /\ Len(log'[q]) = Len(log[q]) + Len(new[q])
             /\ \A i \in 1..Len(log[q]) : log'[q][i] = log[q][i]
             /\ \A i \in 1..Len(new[q]) :
                  /\ log'[q][Len(log[q]) + i] = new[q][i]
                  /\ new[q][i] \in [run : rows, stage : {0}]
  <2>1. log'[q] = log[q] \o new[q] /\ log[q] \in Seq(Message)
    BY <1>1 DEF Shape
  <2>2. new[q] \in Seq(Message)
    <3>1. [run : rows, stage : {0}] \subseteq Message
      BY DEF Message
    <3>. QED  BY <1>2, <3>1, SeqMonotonic
  <2>3. /\ log'[q] \in Seq(Message)
        /\ Len(log'[q]) = Len(log[q]) + Len(new[q])
        /\ \A i \in 1..Len(log[q]) + Len(new[q]) :
             log'[q][i] = IF i <= Len(log[q]) THEN log[q][i] ELSE new[q][i - Len(log[q])]
    BY <2>1, <2>2, ConcatProperties
  <2>4. Len(log[q]) \in Nat /\ Len(new[q]) \in Nat
    BY <2>1, <2>2, LenProperties
  <2>5. \A i \in 1..Len(log[q]) : log'[q][i] = log[q][i]
    BY <2>3, <2>4
  <2>6. ASSUME NEW i \in 1..Len(new[q])
        PROVE  log'[q][Len(log[q]) + i] = new[q][i] /\ new[q][i] \in [run : rows, stage : {0}]
    <3>1. new[q][i] \in [run : rows, stage : {0}]
      BY <1>2, ElementOfSeq
    <3>2. /\ Len(log[q]) + i \in 1..Len(log[q]) + Len(new[q])
          /\ ~(Len(log[q]) + i <= Len(log[q]))
          /\ (Len(log[q]) + i) - Len(log[q]) = i
      BY <2>4
    <3>. QED  BY <2>3, <3>1, <3>2
  <2>. QED  BY <2>3, <2>4, <2>5, <2>6
<1>4. Extends
  <2>1. log' = [q \in Partition |-> log'[q]]
    BY <1>1
  <2>. QED  BY <1>3, <2>1 DEF Extends
<1>5. Adds({First(r) : r \in rows})
  <2>1. ASSUME NEW q \in Partition, NEW i \in 1..Len(log'[q]), i \notin 1..Len(log[q])
        PROVE  log'[q][i] \in {First(r) : r \in rows}
    <3>1. i - Len(log[q]) \in 1..Len(new[q]) /\ i = Len(log[q]) + (i - Len(log[q]))
      BY <1>3, <2>1
    <3>2. log'[q][i] \in [run : rows, stage : {0}]
      <4>1. PICK k \in 1..Len(new[q]) : k = i - Len(log[q])
        BY <3>1
      <4>2. i = Len(log[q]) + k
        BY <3>1, <4>1
      <4>. QED  BY <1>3, <4>2
    <3>. QED  BY <3>2 DEF First
  <2>. QED  BY <2>1 DEF Adds
<1>6. ASSUME NEW r \in rows PROVE First(r) \in Logged'
  <2>. DEFINE places == {x \in Partition \X (1..Cardinality(rows)) :
                            x[2] \in DOMAIN new[x[1]] /\ new[x[1]][x[2]].run = r}
  <2>1. places # {}
    BY <1>1, FS_EmptySet
  <2>0. PICK q \in Partition : \E i \in DOMAIN new[q] : new[q][i].run = r
    BY <2>1
  <2>2. PICK i \in DOMAIN new[q] : new[q][i].run = r
    BY <2>0
  <2>3. i \in 1..Len(new[q])
    BY <1>2, <2>2
  <2>4. new[q][i] = First(r)
    BY <1>3, <2>2, <2>3 DEF First
  <2>5. Len(log[q]) + i \in 1..Len(log'[q]) /\ log'[q][Len(log[q]) + i] = First(r)
    BY <1>3, <2>3, <2>4
  <2>. QED  BY <2>5 DEF Logged, Messages
<1>. QED  BY <1>4, <1>5, <1>6

---------------------------------------------------------------------------
(***************************************************************************)
(* What a step keeps if the log only grows and decisions are final.        *)
(***************************************************************************)

\* A busy worker has an event of the log, and has it still.
LEMMA MessageKept ==
    ASSUME IInv, Extends, NEW w \in Worker, wpc[w] # "idle"
    PROVE  /\ source[w].partition \in Partition
           /\ source[w].offset \in 1..Len(log[source[w].partition])
           /\ Msg(w) \in Message
           /\ log'[source[w].partition][source[w].offset] = Msg(w)
<1>1. /\ source[w].partition \in Partition
      /\ source[w].offset \in 1..Len(log[source[w].partition])
  BY DEF IInv, TypeOK
<1>2. log[source[w].partition] \in Seq(Message)
  BY <1>1 DEF IInv, Shape
<1>3. log[source[w].partition][source[w].offset] \in Message
  BY <1>1, <1>2, ElementOfSeq
<1>. QED  BY <1>1, <1>3 DEF Extends, Msg

\* What is settled stays settled.
LEMMA SettledKept ==
    ASSUME IInv, Extends, Steady
    PROVE  \A m : Settled(m) => Settled(m)'
<1>. SUFFICES ASSUME NEW m, Settled(m) PROVE Settled(m)'
  OBVIOUS
<1>. DEFINE x == <<m.run, m.stage>>
<1>1. x \in Stage /\ stage[x] \in Decided /\ stage'[x] = stage[x]
  BY DEF Settled, Steady
<1>2. stage[x] = "SUCCESS" /\ HasNext(x) => NextOf(x) \in Logged'
  BY GrownLog DEF Settled, IInv
<1>. QED  BY <1>1, <1>2 DEF Settled

LEMMA CommittedKept ==
    ASSUME IInv, Extends, Steady, NEW q \in Partition, NEW i \in 1..committed[q]
    PROVE  Settled(log[q][i])'
<1>1. i \in 1..Len(log[q])
  BY DEF IInv, TypeOK, Shape
<1>2. Settled(log[q][i])
  BY DEF IInv, CommittedInv
<1>3. log'[q][i] = log[q][i]
  BY <1>1 DEF Extends
<1>. QED  BY <1>2, <1>3, SettledKept

\* Successes stay where they are.
LEMMA ReachedKept ==
    ASSUME Steady, NEW r, NEW n, Reached(r, n)
    PROVE  Reached(r, n)'
BY DEF Reached, Steady, Decided

\* What the log gains follows successes, and nothing is begun without its message.
LEMMA LinearKept ==
    ASSUME IInv, Extends, Steady, NEW M, Adds(M), \A m \in M : Reached(m.run, m.stage)
    PROVE  LinearInv' /\ StartedInv'
<1>1. ASSUME NEW q \in Partition, NEW i \in 1..Len(log'[q])
      PROVE  Reached(log[q][i].run, log[q][i].stage)'
  <2>1. CASE i \in 1..Len(log[q])
    <3>1. log'[q][i] = log[q][i]
      BY <2>1 DEF Extends
    <3>2. Reached(log[q][i].run, log[q][i].stage)
      BY <2>1 DEF IInv, LinearInv
    <3>3. PICK r, n : r = log[q][i].run /\ n = log[q][i].stage
      OBVIOUS
    <3>4. Reached(r, n)'
      BY <3>2, <3>3, ReachedKept
    <3>. QED  BY <3>1, <3>3, <3>4 DEF Reached
  <2>2. CASE i \notin 1..Len(log[q])
    <3>1. log'[q][i] \in M
      BY <1>1, <2>2 DEF Adds
    <3>2. PICK m \in M : m = log'[q][i]
      BY <3>1
    <3>3. PICK r, n : r = m.run /\ n = m.stage
      OBVIOUS
    <3>4. Reached(r, n)'
      BY <3>3, ReachedKept
    <3>. QED  BY <3>2, <3>3, <3>4 DEF Reached
  <2>. QED  BY <2>1, <2>2
<1>2. ASSUME NEW x \in Stage, stage'[x] # "absent" PROVE (MessageOf(x) \in Logged)'
  <2>1. MessageOf(x) \in Logged
    BY <1>2 DEF Steady, IInv, StartedInv
  <2>2. MessageOf(x) \in Logged'
    BY <2>1, GrownLog DEF IInv
  <2>. QED  BY <2>2 DEF MessageOf
<1>. QED  BY <1>1, <1>2 DEF LinearInv, StartedInv

\* A worker that does nothing, and whose partition nobody else serves, is not disturbed.
LEMMA OtherWorker ==
    ASSUME IInv, Extends, Steady, NEW v \in Worker,
           wpc'[v] = wpc[v], source'[v] = source[v], advance'[v] = advance[v],
           wpc[v] # "idle" =>
               \A q \in Partition :
                   assigned'[q] = v => assigned[q] = v /\ committed'[q] = committed[q]
    PROVE  WorkerInv(v)'
<1>1. CASE wpc[v] = "idle"
  BY <1>1 DEF WorkerInv
<1>2. CASE wpc[v] # "idle"
  <2>1. Msg(v)' = Msg(v) /\ At(v)' = At(v) /\ source[v].partition \in Partition
    BY <1>2, MessageKept DEF Msg, At
  <2>2. WorkerInv(v)
    BY DEF IInv
  <2>3. wpc[v] \in {"claim", "execute", "settle", "commit"} => At(v)' \in Stage
    BY <2>1, <2>2 DEF WorkerInv
  <2>4. wpc[v] = "settle" =>
          stage'[At(v)] \in Decided /\ (advance'[v] <=> stage'[At(v)] = "SUCCESS")
    BY <2>1, <2>2, <2>3 DEF WorkerInv, Steady
  <2>5. wpc[v] = "commit" => Settled(Msg(v))'
    <3>1. wpc[v] = "commit" => Settled(Msg(v))
      BY <2>2 DEF WorkerInv
    <3>2. PICK m : m = Msg(v)
      OBVIOUS
    <3>3. Settled(m) => Settled(m)'
      BY SettledKept
    <3>. QED  BY <2>1, <3>1, <3>2, <3>3 DEF Settled
  <2>6. assigned'[source[v].partition] = v =>
          source[v].offset = committed'[source[v].partition] + 1
    BY <1>2, <2>1, <2>2 DEF WorkerInv
  <2>. QED  BY <2>1, <2>3, <2>4, <2>5, <2>6 DEF WorkerInv
<1>. QED  BY <1>1, <1>2

\* Queueing later stages does not concern the relay.
LEMMA RelayKept ==
    ASSUME IInv, Extends, NEW M, Adds(M), \A m \in M : m.stage # 0,
           UNCHANGED <<accepted, outbox, ppc, batch>>
    PROVE  RelayInv'
<1>1. \A r : First(r) \in Logged' <=> First(r) \in Logged
  <2>1. \A r : First(r) \notin M
    BY DEF First
  <2>. QED  BY <2>1, GrownLog DEF IInv
<1>2. RelayInv
  BY DEF IInv
<1>. QED  BY <1>1, <1>2 DEF RelayInv, First

\* The part of the type that speaks of the log.
LEMMA LogTyped ==
    ASSUME Extends, NEW q \in Partition
    PROVE  /\ Len(log'[q]) \in Nat
           /\ \A i \in 1..Len(log'[q]) : log'[q][i].run \in Run /\ log'[q][i].stage \in Nat
<1>1. log'[q] \in Seq(Message)
  BY DEF Extends
<1>2. \A i \in 1..Len(log'[q]) : log'[q][i] \in Message
  BY <1>1, ElementOfSeq
<1>. QED  BY <1>1, <1>2 DEF Message

---------------------------------------------------------------------------
(***************************************************************************)
(* Webhook and processor.                                                  *)
(***************************************************************************)

\* They leave stages and workers alone, and what they log begins a run.
LEMMA ProcessorFrame ==
    ASSUME IInv, Extends, NEW M, Adds(M), \A m \in M : m.stage = 0,
           UNCHANGED <<committed, assigned, stage, wvars>>
    PROVE  /\ Shape' /\ LinearInv' /\ StartedInv' /\ CommittedInv' /\ \A w \in Worker : WorkerInv(w)'
           /\ (/\ outbox' \subseteq accepted' /\ accepted' \subseteq Run
               /\ ppc' \in [Processor -> {"idle", "send", "delete"}]
               /\ batch' \in [Processor -> SUBSET Run]
               /\ faults' \in 0..MaxFaults) => TypeOK'
<1>1. Steady
  BY DEF Steady
<1>2. Shape'
  BY DEF IInv, Shape, Extends, wvars
<1>3. LinearInv' /\ StartedInv'
  <2>1. \A r, n : n = 0 => Reached(r, n)
    BY DEF Reached
  <2>. QED  BY <1>1, <2>1, LinearKept
<1>4. CommittedInv'
  <2>1. \A q \in Partition : \A i \in 1..committed[q] : Settled(log[q][i])'
    BY <1>1, CommittedKept
  <2>. QED  BY <2>1 DEF CommittedInv
<1>5. ASSUME NEW w \in Worker PROVE WorkerInv(w)'
  BY <1>1, OtherWorker DEF wvars
<1>6. ASSUME /\ outbox' \subseteq accepted' /\ accepted' \subseteq Run
             /\ ppc' \in [Processor -> {"idle", "send", "delete"}]
             /\ batch' \in [Processor -> SUBSET Run]
             /\ faults' \in 0..MaxFaults
      PROVE  TypeOK'
  <2>1. \A q \in Partition : committed'[q] \in 0..Len(log'[q])
    BY LogTyped DEF IInv, TypeOK, Shape, Extends
  <2>2. \A w \in Worker : wpc'[w] # "idle" =>
          source'[w].partition \in Partition /\ source'[w].offset \in 1..Len(log'[source'[w].partition])
    BY LogTyped DEF IInv, TypeOK, Shape, Extends, wvars
  <2>. QED  BY <1>6, <2>1, <2>2, LogTyped DEF IInv, TypeOK, wvars
<1>. QED  BY <1>2, <1>3, <1>4, <1>5, <1>6

LEMMA WebhookStep == ASSUME IInv, NEW r \in Run, Webhook(r) PROVE IInv'
<1>1. Extends /\ Adds({})
  BY SameLog DEF Webhook, IInv
<1>2. RelayInv'
  <2>1. Logged' = Logged
    BY DEF Webhook, Logged, Messages
  <2>. QED  BY <2>1 DEF Webhook, IInv, RelayInv, First, pvars
<1>3. /\ Shape' /\ LinearInv' /\ StartedInv' /\ CommittedInv' /\ (\A w \in Worker : WorkerInv(w)') /\ TypeOK'
  <2>1. /\ outbox' \subseteq accepted' /\ accepted' \subseteq Run
        /\ ppc' \in [Processor -> {"idle", "send", "delete"}]
        /\ batch' \in [Processor -> SUBSET Run] /\ faults' \in 0..MaxFaults
    BY DEF Webhook, IInv, TypeOK, pvars
  <2>. QED  BY <1>1, <2>1, ProcessorFrame DEF Webhook
<1>. QED  BY <1>2, <1>3 DEF IInv

\* A processor that logs nothing reads rows of accepted runs, and deletes what is logged.
LEMMA QuietProcessorStep ==
    ASSUME IInv, NEW p \in Processor, ReadOutbox(p) \/ DeleteBatch(p) \/ CrashProcessor(p)
    PROVE  IInv'
<1>1. Extends /\ Adds({})
  BY SameLog DEF ReadOutbox, DeleteBatch, CrashProcessor, IInv
<1>2. Logged' = Logged
  BY DEF ReadOutbox, DeleteBatch, CrashProcessor, Logged, Messages
<1>3. /\ outbox' \subseteq accepted' /\ accepted' \subseteq Run
      /\ ppc' \in [Processor -> {"idle", "send", "delete"}]
      /\ batch' \in [Processor -> SUBSET Run] /\ faults' \in 0..MaxFaults
  <2>1. CASE ReadOutbox(p)
    BY <2>1 DEF ReadOutbox, IInv, TypeOK
  <2>2. CASE DeleteBatch(p)
    BY <2>2 DEF DeleteBatch, IInv, TypeOK
  <2>3. CASE CrashProcessor(p)
    BY <2>3, PipelineAssumption DEF CrashProcessor, Fault, IInv, TypeOK
  <2>. QED  BY <2>1, <2>2, <2>3
<1>4. /\ Shape' /\ LinearInv' /\ StartedInv' /\ CommittedInv' /\ (\A w \in Worker : WorkerInv(w)') /\ TypeOK'
  BY <1>1, <1>3, ProcessorFrame DEF ReadOutbox, DeleteBatch, CrashProcessor
<1>5. RelayInv'
  <2>1. accepted' = accepted /\ RelayInv
    BY DEF ReadOutbox, DeleteBatch, CrashProcessor, IInv
  <2>2. \A r \in accepted : r \in outbox' \/ First(r) \in Logged
    BY <2>1 DEF ReadOutbox, DeleteBatch, CrashProcessor, RelayInv
  <2>3. \A q \in Processor : batch'[q] \subseteq accepted
    BY <2>1 DEF ReadOutbox, DeleteBatch, CrashProcessor, RelayInv, IInv, TypeOK
  <2>4. \A q \in Processor : ppc'[q] = "delete" => ppc[q] = "delete" /\ batch'[q] = batch[q]
    BY DEF ReadOutbox, DeleteBatch, CrashProcessor, IInv, TypeOK
  <2>. QED  BY <1>2, <2>1, <2>2, <2>3, <2>4 DEF RelayInv, First
<1>. QED  BY <1>4, <1>5 DEF IInv

\* A send logs first events of accepted runs, all of them unless it fails.
LEMMA SendBatchStep ==
    ASSUME IInv, NEW p \in Processor, SendBatch(p) \/ SendBatchFails(p)
    PROVE  IInv'
<1>1. PICK rows \in SUBSET batch[p] : Publish(rows) /\ (SendBatch(p) => rows = batch[p])
  BY DEF SendBatch, SendBatchFails
<1>2. rows \in SUBSET Run /\ rows \subseteq accepted
  BY <1>1 DEF IInv, TypeOK, RelayInv
<1>3. Extends /\ Adds({First(r) : r \in rows}) /\ \A r \in rows : First(r) \in Logged'
  BY <1>1, <1>2, PublishedLog DEF IInv
<1>4. /\ outbox' \subseteq accepted' /\ accepted' \subseteq Run
      /\ ppc' \in [Processor -> {"idle", "send", "delete"}]
      /\ batch' \in [Processor -> SUBSET Run] /\ faults' \in 0..MaxFaults
  <2>1. CASE SendBatch(p)
    BY <2>1 DEF SendBatch, IInv, TypeOK
  <2>2. CASE SendBatchFails(p)
    BY <2>2, PipelineAssumption DEF SendBatchFails, Fault, IInv, TypeOK
  <2>. QED  BY <2>1, <2>2
<1>5. /\ Shape' /\ LinearInv' /\ StartedInv' /\ CommittedInv' /\ (\A w \in Worker : WorkerInv(w)') /\ TypeOK'
  <2>1. \A m \in {First(r) : r \in rows} : m.stage = 0
    BY DEF First
  <2>2. UNCHANGED <<committed, assigned, stage, wvars>>
    BY DEF SendBatch, SendBatchFails
  <2>. QED  BY <1>3, <1>4, <2>1, <2>2, ProcessorFrame
<1>6. RelayInv'
  <2>1. accepted' = accepted /\ outbox' = outbox /\ RelayInv
    BY DEF SendBatch, SendBatchFails, IInv
  <2>2. \A m : m \in Logged => m \in Logged'
    BY <1>3, GrownLog DEF IInv
  <2>3. \A r \in Run : First(r) \in Logged' => r \in accepted
    <3>1. ASSUME NEW r \in Run, First(r) \in Logged' PROVE r \in accepted
      <4>1. First(r) \in Logged \/ First(r) \in {First(s) : s \in rows}
        BY <1>3, <3>1, GrownLog DEF IInv
      <4>2. First(r) \in {First(s) : s \in rows} => r \in rows
        BY DEF First
      <4>. QED  BY <1>2, <2>1, <4>1, <4>2 DEF RelayInv
    <3>. QED  BY <3>1
  <2>4. \A q \in Processor : batch'[q] \subseteq accepted
    BY <2>1 DEF SendBatch, SendBatchFails, RelayInv, IInv, TypeOK
  <2>5. ASSUME NEW q \in Processor, ppc'[q] = "delete", NEW r \in batch'[q]
        PROVE  First(r) \in Logged'
    <3>1. CASE q = p
      BY <1>1, <1>3, <2>5, <3>1 DEF SendBatch, SendBatchFails, IInv, TypeOK
    <3>2. CASE q # p
      <4>1. ppc[q] = "delete" /\ r \in batch[q]
        BY <2>5, <3>2 DEF SendBatch, SendBatchFails, IInv, TypeOK
      <4>. QED  BY <2>1, <2>2, <4>1 DEF RelayInv
    <3>. QED  BY <3>1, <3>2
  <2>6. \A r \in accepted : r \in outbox \/ First(r) \in Logged'
    BY <2>1, <2>2 DEF RelayInv
  <2>. QED  BY <2>1, <2>3, <2>4, <2>5, <2>6 DEF RelayInv, First
<1>. QED  BY <1>5, <1>6 DEF IInv

---------------------------------------------------------------------------
(***************************************************************************)
(* Workers and reconciler.                                                 *)
(***************************************************************************)

\* A step of w leaves the webhook's side alone, and the other workers too if it commits
\* in its own partitions only.
LEMMA WorkerFrame ==
    ASSUME IInv, Extends, Steady, NEW w \in Worker, NEW M, Adds(M),
           \A m \in M : m.stage # 0 /\ Reached(m.run, m.stage),
           UNCHANGED <<accepted, outbox, ppc, batch, assigned>>,
           \A v \in Worker \ {w} :
               wpc'[v] = wpc[v] /\ source'[v] = source[v] /\ advance'[v] = advance[v],
           \A q \in Partition : committed'[q] = committed[q] \/ assigned[q] = w
    PROVE  LinearInv' /\ StartedInv' /\ RelayInv' /\ \A v \in Worker \ {w} : WorkerInv(v)'
<1>1. LinearInv' /\ StartedInv'
  BY LinearKept
<1>2. RelayInv'
  BY RelayKept
<1>3. ASSUME NEW v \in Worker, v # w PROVE WorkerInv(v)'
  BY <1>3, OtherWorker
<1>. QED  BY <1>1, <1>2, <1>3

\* The types of a step of w.
LEMMA WorkerTypes ==
    ASSUME IInv, Extends, NEW w \in Worker, UNCHANGED <<accepted, outbox, assigned, ppc, batch>>,
           committed' \in [Partition -> Nat],
           \A q \in Partition : committed'[q] <= Len(log'[q]),
           stage' \in [Stage -> {"absent", "PENDING", "SUCCESS", "FAILED"}],
           wpc' \in [Worker -> {"idle", "load", "claim", "execute", "settle", "commit"}],
           advance' \in [Worker -> BOOLEAN],
           source' \in [Worker -> [partition : Partition \cup {"none"}, offset : Nat]],
           \A v \in Worker \ {w} : wpc'[v] = wpc[v] /\ source'[v] = source[v],
           wpc'[w] # "idle" => /\ source'[w].partition \in Partition
                               /\ source'[w].offset \in 1..Len(log[source'[w].partition]),
           faults' \in 0..MaxFaults
    PROVE  TypeOK' /\ Shape'
<1>1. Shape'
  BY DEF Shape, Extends
<1>2. \A q \in Partition : committed'[q] \in 0..Len(log'[q])
  BY LogTyped
<1>3. ASSUME NEW v \in Worker, wpc'[v] # "idle"
      PROVE  /\ source'[v].partition \in Partition
             /\ source'[v].offset \in 1..Len(log'[source'[v].partition])
  <2>1. /\ source'[v].partition \in Partition
        /\ source'[v].offset \in 1..Len(log[source'[v].partition])
    <3>1. CASE v = w
      BY <1>3, <3>1
    <3>2. CASE v # w
      BY <1>3, <3>2 DEF IInv, TypeOK
    <3>. QED  BY <3>1, <3>2
  <2>2. /\ Len(log[source'[v].partition]) \in Nat /\ Len(log'[source'[v].partition]) \in Nat
        /\ Len(log[source'[v].partition]) <= Len(log'[source'[v].partition])
    BY <2>1, LogTyped DEF Extends, IInv, Shape
  <2>. QED  BY <2>1, <2>2
<1>4. TypeOK'
  BY <1>2, <1>3, LogTyped DEF IInv, TypeOK
<1>. QED  BY <1>1, <1>4

\* A worker whose log and offsets stay as they are, and that goes on as it may.
LEMMA QuietWorkerStep ==
    ASSUME IInv, NEW w \in Worker,
           UNCHANGED <<accepted, outbox, log, committed, assigned, ppc, batch>>,
           Steady, stage' \in [Stage -> {"absent", "PENDING", "SUCCESS", "FAILED"}],
           wpc' \in [Worker -> {"idle", "load", "claim", "execute", "settle", "commit"}],
           advance' \in [Worker -> BOOLEAN],
           source' \in [Worker -> [partition : Partition \cup {"none"}, offset : Nat]],
           \A v \in Worker \ {w} :
               wpc'[v] = wpc[v] /\ source'[v] = source[v] /\ advance'[v] = advance[v],
           wpc'[w] # "idle" => /\ source'[w].partition \in Partition
                               /\ source'[w].offset \in 1..Len(log[source'[w].partition]),
           faults' \in 0..MaxFaults,
           WorkerInv(w)'
    PROVE  IInv'
<1>1. Extends /\ Adds({})
  BY SameLog DEF IInv
<1>2. LinearInv' /\ StartedInv' /\ RelayInv' /\ \A v \in Worker \ {w} : WorkerInv(v)'
  BY <1>1, WorkerFrame
<1>3. TypeOK' /\ Shape'
  <2>1. committed' \in [Partition -> Nat] /\ \A q \in Partition : committed'[q] <= Len(log'[q])
    BY DEF IInv, TypeOK, Shape
  <2>. QED  BY <1>1, <2>1, WorkerTypes
<1>4. CommittedInv'
  <2>1. \A q \in Partition : \A i \in 1..committed[q] : Settled(log[q][i])'
    BY <1>1, CommittedKept
  <2>. QED  BY <2>1 DEF CommittedInv
<1>. QED  BY <1>2, <1>3, <1>4 DEF IInv

\* Message and stage of w stay as they are as long as its source does.
LEMMA SameMessage ==
    ASSUME NEW w \in Worker, log' = log, source'[w] = source[w]
    PROVE  Msg(w)' = Msg(w) /\ At(w)' = At(w)
BY DEF Msg, At

\* A worker that is done with its message is not bound by anything.
LEMMA LeaveKeeps ==
    ASSUME IInv, NEW w \in Worker, Leave(w)
    PROVE  /\ wpc' \in [Worker -> {"idle", "load", "claim", "execute", "settle", "commit"}]
           /\ advance' \in [Worker -> BOOLEAN]
           /\ source' \in [Worker -> [partition : Partition \cup {"none"}, offset : Nat]]
           /\ \A v \in Worker \ {w} :
                wpc'[v] = wpc[v] /\ source'[v] = source[v] /\ advance'[v] = advance[v]
           /\ wpc'[w] = "idle" /\ WorkerInv(w)'
<1>1. /\ wpc' \in [Worker -> {"idle", "load", "claim", "execute", "settle", "commit"}]
      /\ wpc'[w] = "idle" /\ \A v \in Worker \ {w} : wpc'[v] = wpc[v]
  BY DEF Leave, Goto, IInv, TypeOK
<1>2. advance' \in [Worker -> BOOLEAN] /\ \A v \in Worker \ {w} : advance'[v] = advance[v]
  BY DEF Leave, IInv, TypeOK
<1>3. /\ source' \in [Worker -> [partition : Partition \cup {"none"}, offset : Nat]]
      /\ \A v \in Worker \ {w} : source'[v] = source[v]
  BY DEF Leave, NoSource, IInv, Shape
<1>. QED  BY <1>1, <1>2, <1>3 DEF WorkerInv

\* A worker that goes on with its message.
LEMMA GotoKeeps ==
    ASSUME IInv, NEW w \in Worker, wpc[w] # "idle", UNCHANGED <<log, source, committed, assigned>>,
           NEW label \in {"load", "claim", "execute", "settle", "commit"}, Goto(w, label)
    PROVE  /\ wpc' \in [Worker -> {"idle", "load", "claim", "execute", "settle", "commit"}]
           /\ \A v \in Worker \ {w} : wpc'[v] = wpc[v] /\ source'[v] = source[v]
           /\ source' \in [Worker -> [partition : Partition \cup {"none"}, offset : Nat]]
           /\ /\ source'[w].partition \in Partition
              /\ source'[w].offset \in 1..Len(log[source'[w].partition])
           /\ wpc'[w] = label
           /\ Msg(w)' = Msg(w) /\ At(w)' = At(w)
           /\ assigned'[source'[w].partition] = w =>
                source'[w].offset = committed'[source'[w].partition] + 1
<1>1. /\ wpc' \in [Worker -> {"idle", "load", "claim", "execute", "settle", "commit"}]
      /\ wpc'[w] = label /\ \A v \in Worker \ {w} : wpc'[v] = wpc[v]
  BY DEF Goto, IInv, TypeOK
<1>2. WorkerInv(w) /\ Shape
  BY DEF IInv
<1>. QED  BY <1>1, <1>2, SameMessage DEF WorkerInv, Shape, IInv, TypeOK

LEMMA SameFaults == ASSUME IInv, faults' = faults \/ Fault PROVE faults' \in 0..MaxFaults
BY PipelineAssumption DEF Fault, IInv, TypeOK

LEMMA FetchStep == ASSUME IInv, NEW w \in Worker, NEW q \in Partition, Fetch(w, q) PROVE IInv'
<1>1. /\ wpc' \in [Worker -> {"idle", "load", "claim", "execute", "settle", "commit"}]
      /\ wpc'[w] = "load" /\ \A v \in Worker \ {w} : wpc'[v] = wpc[v]
  BY DEF Fetch, Goto, IInv, TypeOK
<1>2. committed[q] \in Nat /\ Len(log[q]) \in Nat /\ committed[q] < Len(log[q])
  BY DEF Fetch, IInv, Shape
<1>3. /\ source' \in [Worker -> [partition : Partition \cup {"none"}, offset : Nat]]
      /\ source'[w] = [partition |-> q, offset |-> committed[q] + 1]
      /\ \A v \in Worker \ {w} : source'[v] = source[v]
  BY <1>2 DEF Fetch, IInv, Shape
<1>4. committed[q] + 1 \in 1..Len(log[q])
  BY <1>2
<1>5. WorkerInv(w)'
  BY <1>1, <1>3 DEF Fetch, WorkerInv
<1>6. UNCHANGED <<accepted, outbox, log, committed, assigned, stage, ppc, batch, advance, faults>>
  BY DEF Fetch, pvars
<1>7. Steady
  BY <1>6 DEF Steady
<1>8. /\ stage' \in [Stage -> {"absent", "PENDING", "SUCCESS", "FAILED"}]
      /\ advance' \in [Worker -> BOOLEAN] /\ faults' \in 0..MaxFaults
  BY <1>6 DEF IInv, TypeOK
<1>9. source'[w].partition \in Partition /\ source'[w].offset \in 1..Len(log[source'[w].partition])
  BY <1>3, <1>4
<1>10. \A v \in Worker \ {w} :
         wpc'[v] = wpc[v] /\ source'[v] = source[v] /\ advance'[v] = advance[v]
  BY <1>1, <1>3, <1>6
<1>. QED  BY <1>1, <1>3, <1>5, <1>6, <1>7, <1>8, <1>9, <1>10, QuietWorkerStep

\* w leaves its message, having changed nothing, or the stage.
LEMMA LeavingStep ==
    ASSUME IInv, NEW w \in Worker, Leave(w), Steady, faults' = faults \/ Fault,
           stage' \in [Stage -> {"absent", "PENDING", "SUCCESS", "FAILED"}],
           UNCHANGED <<accepted, outbox, log, committed, assigned, ppc, batch>>
    PROVE  IInv'
<1>1. /\ wpc' \in [Worker -> {"idle", "load", "claim", "execute", "settle", "commit"}]
      /\ advance' \in [Worker -> BOOLEAN]
      /\ source' \in [Worker -> [partition : Partition \cup {"none"}, offset : Nat]]
      /\ \A v \in Worker \ {w} :
           wpc'[v] = wpc[v] /\ source'[v] = source[v] /\ advance'[v] = advance[v]
      /\ wpc'[w] = "idle" /\ WorkerInv(w)'
  BY LeaveKeeps
<1>2. faults' \in 0..MaxFaults
  BY SameFaults
<1>. QED  BY <1>1, <1>2, QuietWorkerStep

\* w goes on with its message, where it may be.
LEMMA GoingStep ==
    ASSUME IInv, NEW w \in Worker, wpc[w] # "idle", Steady,
           NEW label \in {"load", "claim", "execute", "settle", "commit"}, Goto(w, label),
           NEW adv \in BOOLEAN, advance' = [advance EXCEPT ![w] = adv],
           UNCHANGED <<accepted, outbox, log, committed, assigned, ppc, batch, source, faults>>,
           stage' \in [Stage -> {"absent", "PENDING", "SUCCESS", "FAILED"}],
           label # "load" => At(w) \in Stage,
           label = "settle" => stage'[At(w)] \in Decided /\ (adv <=> stage'[At(w)] = "SUCCESS"),
           label = "commit" => stage' = stage /\ Settled(Msg(w))
    PROVE  IInv'
<1>1. /\ wpc' \in [Worker -> {"idle", "load", "claim", "execute", "settle", "commit"}]
      /\ \A v \in Worker \ {w} : wpc'[v] = wpc[v] /\ source'[v] = source[v]
      /\ source' \in [Worker -> [partition : Partition \cup {"none"}, offset : Nat]]
      /\ source'[w].partition \in Partition
      /\ source'[w].offset \in 1..Len(log[source'[w].partition])
      /\ wpc'[w] = label
      /\ Msg(w)' = Msg(w) /\ At(w)' = At(w)
      /\ assigned'[source'[w].partition] = w =>
           source'[w].offset = committed'[source'[w].partition] + 1
  BY GotoKeeps
<1>2. /\ advance' \in [Worker -> BOOLEAN] /\ advance'[w] = adv
      /\ \A v \in Worker \ {w} : advance'[v] = advance[v]
  BY Zenon DEF IInv, TypeOK
<1>3. label = "commit" => Settled(Msg(w))'
  <2>1. Extends
    BY SameLog DEF IInv
  <2>2. PICK m : m = Msg(w)
    OBVIOUS
  <2>3. Settled(m) => Settled(m)'
    BY <2>1, SettledKept
  <2>. QED  BY <1>1, <2>2, <2>3 DEF Settled
<1>4. WorkerInv(w)'
  BY <1>1, <1>2, <1>3 DEF WorkerInv
<1>5. faults' \in 0..MaxFaults
  BY SameFaults
<1>. QED  BY <1>1, <1>2, <1>4, <1>5, QuietWorkerStep

LEMMA AdvanceSame ==
    ASSUME IInv, NEW w \in Worker, advance' = advance
    PROVE  advance[w] \in BOOLEAN /\ advance' = [advance EXCEPT ![w] = advance[w]]
BY DEF IInv, TypeOK

LEMMA LoadStep == ASSUME IInv, NEW w \in Worker, Load(w) PROVE IInv'
<1>1. /\ UNCHANGED <<accepted, outbox, log, committed, assigned, ppc, batch, stage, faults>>
      /\ wpc[w] # "idle"
  BY DEF Load, pvars
<1>2. Steady /\ stage' \in [Stage -> {"absent", "PENDING", "SUCCESS", "FAILED"}]
  BY <1>1 DEF Steady, IInv, TypeOK
<1>3. CASE At(w) \in Stage /\ Goto(w, "claim") /\ UNCHANGED <<source, advance>>
  BY <1>1, <1>2, <1>3, AdvanceSame, GoingStep
<1>4. CASE Leave(w)
  BY <1>1, <1>2, <1>4, LeavingStep
<1>. QED  BY <1>3, <1>4 DEF Load

LEMMA AtStage ==
    ASSUME IInv, NEW w \in Worker, wpc[w] \in {"claim", "execute", "settle", "commit"}
    PROVE  At(w) \in Stage
BY DEF IInv, WorkerInv

LEMMA ClaimStep == ASSUME IInv, NEW w \in Worker, Claim(w) PROVE IInv'
<1>1. /\ UNCHANGED <<accepted, outbox, log, committed, assigned, ppc, batch, source, advance, faults>>
      /\ wpc[w] # "idle" /\ Goto(w, "execute") /\ stage[At(w)] = "absent"
      /\ stage' = [stage EXCEPT ![At(w)] = "PENDING"]
  BY DEF Claim, pvars
<1>2. At(w) \in Stage
  BY AtStage DEF Claim
<1>3. MessageOf(At(w)) \in Logged
  <2>1. Extends
    BY <1>1, SameLog DEF IInv
  <2>2. /\ source[w].partition \in Partition
        /\ source[w].offset \in 1..Len(log[source[w].partition])
        /\ Msg(w) \in Message
    BY <1>1, <2>1, MessageKept
  <2>3. Msg(w) \in Logged
    BY <2>2, LoggedMembers DEF Msg
  <2>4. MessageOf(At(w)) = Msg(w)
    BY <2>2 DEF MessageOf, At, Message
  <2>. QED  BY <2>3, <2>4
<1>4. Steady /\ stage' \in [Stage -> {"absent", "PENDING", "SUCCESS", "FAILED"}]
  <2>1. stage \in [Stage -> {"absent", "PENDING", "SUCCESS", "FAILED"}]
    BY DEF IInv, TypeOK
  <2>2. \A x \in Stage : IF x = At(w) THEN stage'[x] = "PENDING" ELSE stage'[x] = stage[x]
    BY <1>1, <2>1
  <2>. QED  BY <1>1, <1>2, <1>3, <2>1, <2>2 DEF Steady, Decided
<1>. QED  BY <1>1, <1>2, <1>4, AdvanceSame, GoingStep

LEMMA ClaimDecidedStep == ASSUME IInv, NEW w \in Worker, ClaimDecided(w) PROVE IInv'
<1>1. /\ UNCHANGED <<accepted, outbox, log, committed, assigned, ppc, batch, source, stage, faults>>
      /\ wpc[w] # "idle" /\ Goto(w, "settle") /\ stage[At(w)] \in Decided
      /\ advance' = [advance EXCEPT ![w] = (stage[At(w)] = "SUCCESS")]
  BY DEF ClaimDecided, Resolve, Decided, pvars
<1>2. At(w) \in Stage
  BY AtStage DEF ClaimDecided
<1>3. Steady /\ stage' \in [Stage -> {"absent", "PENDING", "SUCCESS", "FAILED"}]
  BY <1>1 DEF Steady, IInv, TypeOK
<1>4. CASE stage[At(w)] = "SUCCESS"
  <2>1. advance' = [advance EXCEPT ![w] = TRUE]
    BY <1>1, <1>4
  <2>. QED  BY <1>1, <1>2, <1>3, <1>4, <2>1, GoingStep
<1>5. CASE stage[At(w)] # "SUCCESS"
  <2>1. advance' = [advance EXCEPT ![w] = FALSE]
    BY <1>1, <1>5
  <2>. QED  BY <1>1, <1>2, <1>3, <1>5, <2>1, GoingStep
<1>. QED  BY <1>4, <1>5

LEMMA ClaimPendingStep == ASSUME IInv, NEW w \in Worker, ClaimPending(w) PROVE IInv'
<1>1. /\ UNCHANGED <<accepted, outbox, log, committed, assigned, ppc, batch, faults>>
      /\ wpc[w] # "idle" /\ stage[At(w)] = "PENDING" /\ At(w) \in Stage
  BY AtStage DEF ClaimPending, pvars
<1>2. CASE Leave(w) /\ UNCHANGED stage
  BY <1>1, <1>2, LeavingStep DEF Steady, IInv, TypeOK
<1>3. CASE stage' = [stage EXCEPT ![At(w)] = "FAILED"] /\ Resolve(w, FALSE)
  <2>1. Steady /\ stage' \in [Stage -> {"absent", "PENDING", "SUCCESS", "FAILED"}]
    BY <1>1, <1>3 DEF Steady, Decided, IInv, TypeOK
  <2>2. stage'[At(w)] = "FAILED"
    BY <1>1, <1>3 DEF IInv, TypeOK
  <2>3. Goto(w, "settle") /\ advance' = [advance EXCEPT ![w] = FALSE] /\ source' = source
    BY <1>3 DEF Resolve
  <2>. QED  BY <1>1, <2>1, <2>2, <2>3, GoingStep DEF Decided
<1>. QED  BY <1>2, <1>3 DEF ClaimPending

LEMMA FinalizeStep == ASSUME IInv, NEW w \in Worker, Finalize(w) PROVE IInv'
<1>1. /\ UNCHANGED <<accepted, outbox, log, committed, assigned, ppc, batch, faults>>
      /\ wpc[w] # "idle" /\ At(w) \in Stage
  BY AtStage DEF Finalize, pvars
<1>2. CASE Leave(w) /\ UNCHANGED stage
  BY <1>1, <1>2, LeavingStep DEF Steady, IInv, TypeOK
<1>3. ASSUME NEW s \in {"SUCCESS", "FAILED"}, stage[At(w)] = "PENDING",
             stage' = [stage EXCEPT ![At(w)] = s], Resolve(w, s = "SUCCESS")
      PROVE  IInv'
  <2>1. Steady /\ stage' \in [Stage -> {"absent", "PENDING", "SUCCESS", "FAILED"}]
    BY <1>1, <1>3 DEF Steady, Decided, IInv, TypeOK
  <2>2. stage'[At(w)] = s
    BY <1>1, <1>3 DEF IInv, TypeOK
  <2>3. /\ Goto(w, "settle") /\ source' = source
        /\ advance' = [advance EXCEPT ![w] = (s = "SUCCESS")]
    BY <1>3 DEF Resolve
  <2>4. CASE s = "SUCCESS"
    <3>1. advance' = [advance EXCEPT ![w] = TRUE]
      BY <2>3, <2>4
    <3>. QED  BY <1>1, <2>1, <2>2, <2>3, <2>4, <3>1, GoingStep DEF Decided
  <2>5. CASE s = "FAILED"
    <3>1. advance' = [advance EXCEPT ![w] = FALSE]
      BY <2>3, <2>5
    <3>. QED  BY <1>1, <2>1, <2>2, <2>3, <2>5, <3>1, GoingStep DEF Decided
  <2>. QED  BY <2>4, <2>5
<1>. QED  BY <1>2, <1>3 DEF Finalize

\* The reconciler is no worker: all of them are left alone.
LEMMA GiveUpStep == ASSUME IInv, NEW x \in Stage, GiveUp(x) PROVE IInv'
<1>1. UNCHANGED <<accepted, outbox, log, committed, assigned, ppc, batch, wpc, source, advance,
                  faults>>
  BY DEF GiveUp, pvars, wvars
<1>2. Steady /\ stage' \in [Stage -> {"absent", "PENDING", "SUCCESS", "FAILED"}]
  BY DEF GiveUp, Steady, Decided, IInv, TypeOK
<1>3. Extends /\ Adds({})
  BY <1>1, SameLog DEF IInv
<1>4. LinearInv' /\ StartedInv' /\ RelayInv' /\ \A v \in Worker : WorkerInv(v)'
  BY <1>1, <1>2, <1>3, LinearKept, RelayKept, OtherWorker
<1>5. CommittedInv'
  <2>1. \A q \in Partition : \A i \in 1..committed[q] : Settled(log[q][i])'
    BY <1>2, <1>3, CommittedKept
  <2>. QED  BY <1>1, <2>1 DEF CommittedInv
<1>6. TypeOK' /\ Shape'
  BY <1>1, <1>2 DEF IInv, TypeOK, Shape
<1>. QED  BY <1>4, <1>5, <1>6 DEF IInv

\* A worker about to queue the next stage has seen the success of this one.
LEMMA Advances ==
    ASSUME IInv, NEW w \in Worker, wpc[w] = "settle", AppendNext(At(w)), stage' = stage
    PROVE  /\ At(w) \in Stage /\ Extends /\ Adds({NextOf(At(w))}) /\ NextOf(At(w)) \in Logged'
           /\ Steady
           /\ advance[w] =>
                \A m \in {NextOf(At(w))} : m.stage # 0 /\ Reached(m.run, m.stage)
<1>1. At(w) \in Stage /\ (advance[w] => stage[At(w)] = "SUCCESS")
  BY DEF IInv, WorkerInv
<1>2. Extends /\ Adds({NextOf(At(w))}) /\ NextOf(At(w)) \in Logged'
  BY <1>1, AppendedLog DEF IInv
<1>3. /\ At(w)[2] \in Nat /\ At(w) = <<At(w)[1], At(w)[2]>>
      /\ NextOf(At(w)).run = At(w)[1] /\ NextOf(At(w)).stage = At(w)[2] + 1
  BY <1>1, StageMembers DEF NextOf
<1>4. Reached(At(w)[1], At(w)[2])
  <2>1. /\ source[w].partition \in Partition
        /\ source[w].offset \in 1..Len(log[source[w].partition])
    BY <1>2, MessageKept
  <2>2. Reached(Msg(w).run, Msg(w).stage)
    BY <2>1 DEF IInv, LinearInv, Msg
  <2>. QED  BY <2>2 DEF At
<1>5. ASSUME advance[w] PROVE Reached(At(w)[1], At(w)[2] + 1)
  BY <1>1, <1>3, <1>4, <1>5 DEF Reached
<1>6. Steady
  BY DEF Steady
<1>. QED  BY <1>1, <1>2, <1>3, <1>5, <1>6

LEMMA SendNextStep == ASSUME IInv, NEW w \in Worker, SendNext(w) PROVE IInv'
<1>1. /\ UNCHANGED <<accepted, outbox, committed, assigned, stage, ppc, batch, source, advance,
                     faults>>
      /\ wpc[w] = "settle" /\ advance[w] /\ HasNext(At(w)) /\ AppendNext(At(w))
      /\ Goto(w, "commit")
  BY DEF SendNext, pvars
<1>2. /\ At(w) \in Stage /\ Extends /\ Adds({NextOf(At(w))}) /\ NextOf(At(w)) \in Logged'
      /\ Steady
      /\ \A m \in {NextOf(At(w))} : m.stage # 0 /\ Reached(m.run, m.stage)
  BY <1>1, Advances
<1>3. /\ wpc' \in [Worker -> {"idle", "load", "claim", "execute", "settle", "commit"}]
      /\ wpc'[w] = "commit" /\ \A v \in Worker \ {w} : wpc'[v] = wpc[v]
  BY <1>1 DEF Goto, IInv, TypeOK
<1>4. LinearInv' /\ StartedInv' /\ RelayInv' /\ \A v \in Worker \ {w} : WorkerInv(v)'
  BY <1>1, <1>2, <1>3, WorkerFrame
<1>5. /\ source[w].partition \in Partition
      /\ source[w].offset \in 1..Len(log[source[w].partition])
      /\ Msg(w)' = Msg(w) /\ At(w)' = At(w)
  BY <1>1, <1>2, MessageKept DEF Msg, At
<1>6. TypeOK' /\ Shape'
  <2>1. committed' \in [Partition -> Nat]
    BY <1>1 DEF IInv, Shape
  <2>2. \A q \in Partition : committed'[q] <= Len(log'[q])
    BY <1>1, <1>2, LogTyped DEF IInv, TypeOK, Shape, Extends
  <2>3. /\ stage' \in [Stage -> {"absent", "PENDING", "SUCCESS", "FAILED"}]
        /\ advance' \in [Worker -> BOOLEAN]
        /\ source' \in [Worker -> [partition : Partition \cup {"none"}, offset : Nat]]
        /\ faults' \in 0..MaxFaults
    BY <1>1 DEF IInv, TypeOK, Shape
  <2>. QED  BY <1>1, <1>2, <1>3, <1>5, <2>1, <2>2, <2>3, WorkerTypes
<1>7. WorkerInv(w)'
  <2>1. Settled(Msg(w))'
    <3>1. stage[At(w)] \in Decided
      BY <1>1 DEF IInv, WorkerInv
    <3>2. At(w) = <<Msg(w).run, Msg(w).stage>>
      BY DEF At
    <3>. QED  BY <1>1, <1>2, <1>5, <3>1, <3>2 DEF Settled
  <2>2. WorkerInv(w)
    BY DEF IInv
  <2>. QED  BY <1>1, <1>2, <1>3, <1>5, <2>1, <2>2 DEF WorkerInv
<1>8. CommittedInv'
  <2>1. \A q \in Partition : \A i \in 1..committed[q] : Settled(log[q][i])'
    BY <1>2, CommittedKept
  <2>. QED  BY <1>1, <2>1 DEF CommittedInv
<1>. QED  BY <1>4, <1>6, <1>7, <1>8 DEF IInv

LEMMA SendNextFailsStep == ASSUME IInv, NEW w \in Worker, SendNextFails(w) PROVE IInv'
<1>1. /\ UNCHANGED <<accepted, outbox, committed, assigned, stage, ppc, batch>>
      /\ wpc[w] = "settle" /\ advance[w] /\ Leave(w) /\ Fault
  BY DEF SendNextFails, pvars
<1>2. Steady /\ stage' \in [Stage -> {"absent", "PENDING", "SUCCESS", "FAILED"}]
  BY <1>1 DEF Steady, IInv, TypeOK
<1>3. CASE UNCHANGED log
  BY <1>1, <1>2, <1>3, LeavingStep
<1>4. CASE AppendNext(At(w))
  <2>1. /\ Extends /\ Adds({NextOf(At(w))})
        /\ \A m \in {NextOf(At(w))} : m.stage # 0 /\ Reached(m.run, m.stage)
    BY <1>1, <1>4, Advances
  <2>2. /\ wpc' \in [Worker -> {"idle", "load", "claim", "execute", "settle", "commit"}]
        /\ advance' \in [Worker -> BOOLEAN]
        /\ source' \in [Worker -> [partition : Partition \cup {"none"}, offset : Nat]]
        /\ \A v \in Worker \ {w} :
             wpc'[v] = wpc[v] /\ source'[v] = source[v] /\ advance'[v] = advance[v]
        /\ wpc'[w] = "idle" /\ WorkerInv(w)'
    BY <1>1, LeaveKeeps
  <2>3. LinearInv' /\ StartedInv' /\ RelayInv' /\ \A v \in Worker \ {w} : WorkerInv(v)'
    BY <1>1, <1>2, <2>1, <2>2, WorkerFrame
  <2>4. TypeOK' /\ Shape'
    <3>1. committed' \in [Partition -> Nat]
      BY <1>1 DEF IInv, Shape
    <3>2. \A q \in Partition : committed'[q] <= Len(log'[q])
      BY <1>1, <2>1, LogTyped DEF IInv, TypeOK, Shape, Extends
    <3>3. faults' \in 0..MaxFaults
      BY <1>1, SameFaults
    <3>. QED  BY <1>1, <1>2, <2>1, <2>2, <3>1, <3>2, <3>3, WorkerTypes
  <2>5. CommittedInv'
    <3>1. \A q \in Partition : \A i \in 1..committed[q] : Settled(log[q][i])'
      BY <1>2, <2>1, CommittedKept
    <3>. QED  BY <1>1, <3>1 DEF CommittedInv
  <2>. QED  BY <2>2, <2>3, <2>4, <2>5 DEF IInv
<1>. QED  BY <1>3, <1>4 DEF SendNextFails

LEMMA NothingNextStep == ASSUME IInv, NEW w \in Worker, NothingNext(w) PROVE IInv'
<1>1. /\ UNCHANGED <<accepted, outbox, log, committed, assigned, ppc, batch, source, stage,
                     advance, faults>>
      /\ wpc[w] = "settle" /\ ~(advance[w] /\ HasNext(At(w))) /\ Goto(w, "commit")
  BY DEF NothingNext, pvars
<1>2. At(w) \in Stage
  BY <1>1, AtStage
<1>3. Steady /\ stage' \in [Stage -> {"absent", "PENDING", "SUCCESS", "FAILED"}]
  BY <1>1 DEF Steady, IInv, TypeOK
<1>4. Settled(Msg(w))
  <2>1. stage[At(w)] \in Decided /\ (advance[w] <=> stage[At(w)] = "SUCCESS")
    BY <1>1 DEF IInv, WorkerInv
  <2>2. At(w) = <<Msg(w).run, Msg(w).stage>>
    BY DEF At
  <2>. QED  BY <1>1, <1>2, <2>1, <2>2 DEF Settled
<1>5. advance[w] \in BOOLEAN /\ advance' = [advance EXCEPT ![w] = advance[w]]
  BY <1>1, AdvanceSame
<1>. QED  BY <1>1, <1>2, <1>3, <1>4, <1>5, GoingStep

\* The offset after the last committed one belongs to a message that is settled.
LEMMA CommitStep == ASSUME IInv, NEW w \in Worker, Commit(w) PROVE IInv'
<1>. DEFINE q == source[w].partition
<1>1. /\ UNCHANGED <<accepted, outbox, log, assigned, stage, ppc, batch, faults>>
      /\ wpc[w] = "commit" /\ Leave(w)
  BY DEF Commit, pvars
<1>2. Steady /\ stage' \in [Stage -> {"absent", "PENDING", "SUCCESS", "FAILED"}]
  BY <1>1 DEF Steady, IInv, TypeOK
<1>3. CASE UNCHANGED committed
  BY <1>1, <1>2, <1>3, LeavingStep
<1>4. CASE assigned[q] = w /\ committed' = [committed EXCEPT ![q] = source[w].offset]
  <2>1. Extends /\ Adds({})
    BY <1>1, SameLog DEF IInv
  <2>2. q \in Partition /\ source[w].offset \in 1..Len(log[q])
    BY <1>1, <2>1, MessageKept
  <2>3. source[w].offset = committed[q] + 1 /\ Settled(log[q][source[w].offset])
    BY <1>1, <1>4 DEF IInv, WorkerInv, Msg
  <2>4. /\ wpc' \in [Worker -> {"idle", "load", "claim", "execute", "settle", "commit"}]
        /\ advance' \in [Worker -> BOOLEAN]
        /\ source' \in [Worker -> [partition : Partition \cup {"none"}, offset : Nat]]
        /\ \A v \in Worker \ {w} :
             wpc'[v] = wpc[v] /\ source'[v] = source[v] /\ advance'[v] = advance[v]
        /\ wpc'[w] = "idle" /\ WorkerInv(w)'
    BY <1>1, LeaveKeeps
  <2>5. PICK k : k = source[w].offset
    OBVIOUS
  <2>6. PICK p \in Partition : p = q
    BY <2>2
  <2>7. committed' = [committed EXCEPT ![p] = k] /\ k \in 1..Len(log[p]) /\ k = committed[p] + 1
    BY <1>4, <2>2, <2>3, <2>5, <2>6
  <2>8. LinearInv' /\ StartedInv' /\ RelayInv' /\ \A v \in Worker \ {w} : WorkerInv(v)'
    <3>1. \A s \in Partition : committed'[s] = committed[s] \/ assigned[s] = w
      BY <1>4, <2>6, <2>7 DEF IInv, Shape
    <3>. QED  BY <1>1, <1>2, <2>1, <2>4, <3>1, WorkerFrame
  <2>9. committed' \in [Partition -> Nat] /\ \A s \in Partition : committed'[s] <= Len(log'[s])
    BY <1>1, <2>7 DEF IInv, TypeOK, Shape
  <2>10. TypeOK' /\ Shape'
    <3>1. faults' \in 0..MaxFaults
      BY <1>1, SameFaults
    <3>. QED  BY <1>1, <1>2, <2>1, <2>4, <2>9, <3>1, WorkerTypes
  <2>11. ASSUME NEW s \in Partition, NEW i \in 1..committed'[s] PROVE Settled(log[s][i])'
    <3>1. CASE i \in 1..committed[s]
      BY <1>2, <2>1, <3>1, CommittedKept
    <3>2. CASE i \notin 1..committed[s]
      <4>1. s = p /\ i = k
        BY <2>7, <2>9, <3>2 DEF IInv, Shape
      <4>2. PICK m : m = log[p][k]
        OBVIOUS
      <4>3. Settled(m) => Settled(m)'
        BY <1>2, <2>1, SettledKept
      <4>4. Settled(m)
        BY <2>3, <2>5, <2>6, <4>2
      <4>5. log'[s][i] = m
        BY <1>1, <4>1, <4>2
      <4>. QED  BY <4>3, <4>4, <4>5 DEF Settled
    <3>. QED  BY <3>1, <3>2
  <2>12. CommittedInv'
    BY <2>11 DEF CommittedInv
  <2>. QED  BY <2>4, <2>8, <2>10, <2>12 DEF IInv
<1>. QED  BY <1>3, <1>4 DEF Commit

LEMMA CrashWorkerStep == ASSUME IInv, NEW w \in Worker, CrashWorker(w) PROVE IInv'
<1>1. /\ UNCHANGED <<accepted, outbox, log, committed, assigned, stage, ppc, batch>>
      /\ Leave(w) /\ Fault
  BY DEF CrashWorker, pvars
<1>2. Steady /\ stage' \in [Stage -> {"absent", "PENDING", "SUCCESS", "FAILED"}]
  BY <1>1 DEF Steady, IInv, TypeOK
<1>. QED  BY <1>1, <1>2, LeavingStep

\* The new owner of a partition is at no message.
LEMMA RebalanceStep == ASSUME IInv, NEW q \in Partition, Rebalance(q) PROVE IInv'
<1>1. UNCHANGED <<accepted, outbox, log, committed, stage, ppc, batch, wpc, source, advance>>
  BY DEF Rebalance, pvars, wvars
<1>2. Steady
  BY <1>1 DEF Steady
<1>3. Extends /\ Adds({})
  BY <1>1, SameLog DEF IInv
<1>4. LinearInv' /\ StartedInv' /\ RelayInv'
  BY <1>1, <1>2, <1>3, LinearKept, RelayKept
<1>5. ASSUME NEW v \in Worker PROVE WorkerInv(v)'
  <2>1. PICK w \in Worker : wpc[w] = "idle" /\ assigned' = [assigned EXCEPT ![q] = w]
    BY DEF Rebalance
  <2>2. wpc[v] # "idle" => \A p \in Partition : assigned'[p] = v => assigned[p] = v
    BY <2>1 DEF IInv, TypeOK
  <2>. QED  BY <1>1, <1>2, <1>3, <2>2, OtherWorker
<1>6. CommittedInv'
  <2>1. \A p \in Partition : \A i \in 1..committed[p] : Settled(log[p][i])'
    BY <1>2, <1>3, CommittedKept
  <2>. QED  BY <1>1, <2>1 DEF CommittedInv
<1>7. TypeOK' /\ Shape'
  BY <1>1, SameFaults DEF Rebalance, IInv, TypeOK, Shape
<1>. QED  BY <1>4, <1>5, <1>6, <1>7 DEF IInv

---------------------------------------------------------------------------
(***************************************************************************)
(* The theorems.                                                           *)
(***************************************************************************)

\* The log is empty and nobody is at work.
LEMMA InitInv == ASSUME Init PROVE IInv
<1>1. \A q \in Partition : log[q] = <<>> /\ Len(log[q]) = 0
  BY DEF Init
<1>2. TypeOK
  BY <1>1, PipelineAssumption DEF Init, TypeOK
<1>3. Shape
  BY DEF Init, Shape, NoSource
<1>4. LinearInv /\ CommittedInv
  BY <1>1 DEF Init, LinearInv, CommittedInv
<1>5. \A w \in Worker : WorkerInv(w)
  BY DEF Init, WorkerInv
<1>6. RelayInv
  BY <1>1, LoggedMembers DEF Init, RelayInv
<1>7. StartedInv
  BY DEF Init, StartedInv
<1>. QED  BY <1>2, <1>3, <1>4, <1>5, <1>6, <1>7 DEF IInv

LEMMA NextInv == ASSUME IInv, [Next]_vars PROVE IInv'
<1>1. CASE UNCHANGED vars
  <2>1. UNCHANGED <<accepted, outbox, log, committed, assigned, stage, ppc, batch, wpc, source,
                    advance, faults>>
    BY <1>1 DEF vars
  <2>2. TypeOK' /\ Shape'
    BY <2>1 DEF IInv, TypeOK, Shape
  <2>3. Steady /\ Extends /\ Adds({})
    BY <2>1, SameLog DEF IInv, Steady
  <2>4. LinearInv' /\ StartedInv' /\ RelayInv'
    BY <2>1, <2>3, LinearKept, RelayKept
  <2>5. CommittedInv'
    BY <2>1, <2>3, CommittedKept DEF CommittedInv
  <2>6. ASSUME NEW w \in Worker PROVE WorkerInv(w)'
    BY <2>1, <2>3, OtherWorker
  <2>. QED  BY <2>2, <2>4, <2>5, <2>6 DEF IInv
<1>2. ASSUME NEW p \in Processor,
             ProcessorStep(p) \/ SendBatchFails(p) \/ CrashProcessor(p)
      PROVE  IInv'
  BY <1>2, QuietProcessorStep, SendBatchStep DEF ProcessorStep
<1>3. ASSUME NEW w \in Worker, WorkerStep(w) PROVE IInv'
  BY <1>3, LoadStep, ClaimStep, ClaimDecidedStep, ClaimPendingStep, FinalizeStep, SendNextStep,
     NothingNextStep, CommitStep DEF WorkerStep
<1>. QED
  BY <1>1, <1>2, <1>3, WebhookStep, FetchStep, SendNextFailsStep, CrashWorkerStep, GiveUpStep,
     RebalanceStep DEF Next

\* The inductive invariant on which the other theorems rest.
THEOREM InvariantHolds == Spec => []IInv
<1>. QED  BY InitInv, NextInv, PTL DEF Spec

\* Every variable keeps its type, and a busy worker has a message of the log.
THEOREM TypeCorrect == Spec => []TypeOK
<1>1. IInv => TypeOK
  BY DEF IInv
<1>. QED  BY <1>1, InvariantHolds, PTL

\* A stage is only queued, and only begun, in a run all of whose earlier stages have
\* succeeded, however many workers believe that they hold a message (settleMessage).
THEOREM StagesFollowSuccess == Spec => []LinearProgression
<1>1. ASSUME IInv PROVE LinearProgression
  <2>1. ASSUME NEW m \in Logged PROVE Before(m.run, m.stage)
    <3>1. PICK q \in Partition : \E i \in 1..Len(log[q]) : log[q][i] = m
      BY LoggedMembers
    <3>2. Reached(m.run, m.stage)
      BY <1>1, <3>1 DEF IInv, LinearInv
    <3>. QED  BY <3>2 DEF Reached, Before
  <2>2. ASSUME NEW x \in Stage, stage[x] # "absent" PROVE Before(x[1], x[2])
    <3>1. MessageOf(x) \in Logged
      BY <1>1, <2>2 DEF IInv, StartedInv
    <3>. QED  BY <2>1, <3>1 DEF MessageOf
  <2>. QED  BY <2>1, <2>2 DEF LinearProgression
<1>. QED  BY <1>1, InvariantHolds, PTL

\* What is behind a committed offset is decided and carried on, whatever is redelivered
\* and whoever commits (settleMessage).
THEOREM CommitsAreSettled == Spec => []CommittedIsSettled
<1>1. ASSUME IInv PROVE CommittedIsSettled
  <2>. SUFFICES ASSUME NEW m \in Messages([q \in Partition |-> 1..committed[q]])
                PROVE  Settled(m)
    BY DEF CommittedIsSettled, Settled, NextOf, Decided
  <2>1. PICK q \in Partition : \E i \in 1..committed[q] : log[q][i] = m
    BY DEF Messages
  <2>. QED  BY <1>1, <2>1 DEF IInv, CommittedInv
<1>. QED  BY <1>1, InvariantHolds, PTL

---------------------------------------------------------------------------
(***************************************************************************)
(* No run is stranded.                                                     *)
(***************************************************************************)

\* A run all of whose messages are committed is decided from its first stage on: as long as
\* a stage succeeds, the message of the next one is in the log, hence committed, hence
\* settled.  The first stage for which this fails cannot exist.
LEMMA AllCommitted ==
    ASSUME IInv, NEW r \in accepted, r \notin outbox, ~ \E m \in Uncommitted : m.run = r
    PROVE  Ended(r)
<1>. SUFFICES ASSUME \A x \in Stage : x[1] = r => stage[x] # "FAILED"
              PROVE  \A x \in Stage : x[1] = r => stage[x] = "SUCCESS"
  BY DEF Ended
<1>1. r \in Run /\ Actions[r] \in Nat
  BY PipelineAssumption DEF IInv, TypeOK
<1>2. ASSUME NEW m \in Logged, m.run = r PROVE Settled(m)
  <2>1. PICK q \in Partition : \E i \in 1..Len(log[q]) : log[q][i] = m
    BY LoggedMembers
  <2>2. PICK i \in 1..Len(log[q]) : log[q][i] = m
    BY <2>1
  <2>3. i \notin (committed[q] + 1)..Len(log[q])
    BY <1>2, <2>2 DEF Uncommitted, Messages
  <2>4. i \in 1..committed[q]
    BY <2>3 DEF IInv, Shape
  <2>. QED  BY <2>2, <2>4 DEF IInv, CommittedInv
<1>3. ASSUME NEW n \in Nat, MessageOf(<<r, n>>) \in Logged
      PROVE  /\ <<r, n>> \in Stage /\ stage[<<r, n>>] = "SUCCESS"
             /\ HasNext(<<r, n>>) => MessageOf(<<r, n + 1>>) \in Logged
  <2>1. Settled(MessageOf(<<r, n>>))
    BY <1>2, <1>3 DEF MessageOf
  <2>2. /\ <<r, n>> \in Stage /\ stage[<<r, n>>] \in Decided
        /\ stage[<<r, n>>] = "SUCCESS" /\ HasNext(<<r, n>>) => NextOf(<<r, n>>) \in Logged
    BY <2>1 DEF Settled, MessageOf
  <2>. QED  BY <2>2 DEF Decided, NextOf, MessageOf
<1>. DEFINE Left == {n \in Nat : n < Actions[r] /\ MessageOf(<<r, n>>) \notin Logged}
<1>4. Left = {}
  <2>. SUFFICES ASSUME Left # {} PROVE FALSE
    OBVIOUS
  <2>1. PICK n \in Left : \A k \in Left : n <= k
    BY LeastOf
  <2>2. CASE n = 0
    <3>1. First(r) \in Logged
      BY DEF IInv, RelayInv
    <3>. QED  BY <2>1, <2>2, <3>1 DEF First, MessageOf
  <2>3. CASE n # 0
    <3>1. n - 1 \in Nat /\ n - 1 < Actions[r] /\ n - 1 \notin Left /\ (n - 1) + 1 = n
      BY <1>1, <2>1, <2>3
    <3>2. MessageOf(<<r, n - 1>>) \in Logged
      BY <3>1
    <3>3. HasNext(<<r, n - 1>>)
      BY <1>1, <2>1, <3>1 DEF HasNext
    <3>4. PICK k \in Nat : k = n - 1
      BY <3>1
    <3>5. MessageOf(<<r, k + 1>>) \in Logged /\ k + 1 = n
      BY <1>3, <3>1, <3>2, <3>3, <3>4
    <3>. QED  BY <2>1, <3>5
  <2>. QED  BY <2>2, <2>3
<1>5. ASSUME NEW x \in Stage, x[1] = r PROVE stage[x] = "SUCCESS"
  <2>1. x = <<r, x[2]>> /\ x[2] \in Nat /\ x[2] < Actions[r]
    BY <1>1, <1>5, PipelineAssumption DEF Stage
  <2>2. MessageOf(<<r, x[2]>>) \in Logged
    BY <1>4, <2>1
  <2>3. stage[<<r, x[2]>>] = "SUCCESS"
    BY <1>3, <2>1, <2>2
  <2>. QED  BY <2>1, <2>3
<1>. QED  BY <1>5

\* An accepted run that has not ended is owed to the processor or to a consumer, in every
\* state that crashes, failed sends, lost commits and rebalances can leave behind
\* (processor/index.ts, settleMessage).
THEOREM NobodyIsStranded == Spec => []NoRunStranded
<1>1. IInv => NoRunStranded
  BY AllCommitted DEF NoRunStranded
<1>. QED  BY <1>1, InvariantHolds, PTL

---------------------------------------------------------------------------
(***************************************************************************)
(* The relay.                                                              *)
(***************************************************************************)

\* What follows a stage begins no run.
LEMMA SameRelay ==
    ASSUME IInv, UNCHANGED <<accepted, outbox>>,
           log' = log \/ \E x \in Stage : AppendNext(x)
    PROVE  UNCHANGED Relay!lvars
<1>1. \A r \in Run : First(r) \in Logged' <=> First(r) \in Logged
  <2>1. CASE log' = log
    BY <2>1 DEF Logged, Messages
  <2>2. ASSUME NEW x \in Stage, AppendNext(x), NEW r \in Run
        PROVE  First(r) \in Logged' <=> First(r) \in Logged
    <3>1. Extends /\ Adds({NextOf(x)})
      BY <2>2, AppendedLog DEF IInv
    <3>2. First(r) # NextOf(x)
      BY <2>2, StageMembers DEF First, NextOf
    <3>. QED  BY <3>1, <3>2, GrownLog DEF IInv
  <2>. QED  BY <2>1, <2>2
<1>. QED  BY <1>1 DEF Relay!lvars, First

LEMMA WorkerRelays ==
    ASSUME IInv, NEW w \in Worker, WorkerStep(w) \/ SendNextFails(w)
    PROVE  UNCHANGED Relay!lvars
<1>1. wpc[w] = "settle" => At(w) \in Stage
  BY DEF IInv, WorkerInv
<1>2. UNCHANGED <<accepted, outbox>>
  BY DEF WorkerStep, Load, Claim, ClaimDecided, ClaimPending, Finalize, SendNext, NothingNext,
         Commit, SendNextFails
<1>3. log' = log \/ (wpc[w] = "settle" /\ AppendNext(At(w)))
  BY DEF WorkerStep, Load, Claim, ClaimDecided, ClaimPending, Finalize, SendNext, NothingNext,
         Commit, SendNextFails
<1>. QED  BY <1>1, <1>2, <1>3, SameRelay

LEMMA ProcessorRelays ==
    ASSUME IInv, NEW p \in Processor,
           ProcessorStep(p) \/ SendBatchFails(p) \/ CrashProcessor(p)
    PROVE  [Relay!LNext]_(Relay!lvars)
<1>1. CASE ReadOutbox(p) \/ CrashProcessor(p)
  BY <1>1, SameRelay DEF ReadOutbox, CrashProcessor
<1>2. CASE DeleteBatch(p)
  <2>. DEFINE gone == batch[p] \cap outbox
  <2>1. gone \in SUBSET Run /\ gone \subseteq accepted
    BY DEF IInv, TypeOK
  <2>2. \A r \in gone : First(r) \in Logged
    BY <1>2 DEF DeleteBatch, IInv, RelayInv
  <2>3. Logged' = Logged /\ outbox' = outbox \ gone /\ accepted' = accepted
    BY <1>2 DEF DeleteBatch, Logged, Messages
  <2>4. accepted' \ outbox' = (accepted \ outbox) \cup gone
    BY <2>1, <2>3
  <2>5. gone \subseteq outbox \cap {r \in Run : [run |-> r, stage |-> 0] \in Logged}
    BY <2>1, <2>2 DEF First
  <2>. HIDE DEF gone
  <2>6. Relay!Retire(gone)
    BY <2>3, <2>4, <2>5 DEF Relay!Retire
  <2>. QED  BY <2>1, <2>6 DEF Relay!LNext
<1>3. CASE SendBatch(p) \/ SendBatchFails(p)
  <2>1. PICK rows \in SUBSET batch[p] : Publish(rows)
    BY <1>3 DEF SendBatch, SendBatchFails
  <2>2. rows \in SUBSET Run /\ rows \subseteq accepted /\ UNCHANGED <<accepted, outbox>>
    BY <1>3, <2>1 DEF IInv, TypeOK, RelayInv, SendBatch, SendBatchFails
  <2>3. Extends /\ Adds({First(r) : r \in rows}) /\ \A r \in rows : First(r) \in Logged'
    BY <2>1, <2>2, PublishedLog DEF IInv
  <2>4. \A r \in Run : First(r) \in Logged' <=> First(r) \in Logged \/ r \in rows
    <3>1. ASSUME NEW r \in Run PROVE First(r) \in {First(s) : s \in rows} <=> r \in rows
      BY DEF First
    <3>. QED  BY <2>3, <3>1, GrownLog DEF IInv
  <2>5. {r \in Run : [run |-> r, stage |-> 0] \in Logged'} =
          {r \in Run : [run |-> r, stage |-> 0] \in Logged} \cup rows
    BY <2>2, <2>4 DEF First
  <2>6. rows \subseteq outbox \cup (accepted \ outbox)
    BY <2>2
  <2>7. Relay!Publish(rows)
    BY <2>2, <2>5, <2>6 DEF Relay!Publish
  <2>. QED  BY <2>2, <2>7 DEF Relay!LNext
<1>. QED  BY <1>1, <1>2, <1>3 DEF ProcessorStep

LEMMA StepRelays == ASSUME IInv, [Next]_vars PROVE [Relay!LNext]_(Relay!lvars)
<1>1. ASSUME NEW r \in Run, Webhook(r) PROVE Relay!Enqueue(r)
  <2>1. Logged' = Logged
    BY <1>1 DEF Webhook, Logged, Messages
  <2>2. r \notin outbox \cup (accepted \ outbox) /\ accepted' \ outbox' = accepted \ outbox
    BY <1>1 DEF Webhook, IInv, TypeOK
  <2>. QED  BY <1>1, <2>1, <2>2 DEF Webhook, Relay!Enqueue
<1>2. CASE \/ \E w \in Worker : (\E q \in Partition : Fetch(w, q)) \/ CrashWorker(w)
           \/ \E x \in Stage : GiveUp(x)
           \/ \E q \in Partition : Rebalance(q)
           \/ UNCHANGED vars
  <2>1. UNCHANGED <<accepted, outbox, log>>
    BY <1>2 DEF Fetch, CrashWorker, GiveUp, Rebalance, vars
  <2>. QED  BY <2>1, SameRelay
<1>. QED
  BY <1>1, <1>2, WorkerRelays, ProcessorRelays DEF Next, Relay!LNext

\* No webhook that was answered is lost on the way to Kafka: the pipeline implements the
\* relay, whatever the processors and the broker do halfway (processor/index.ts).
THEOREM PipelineRelays == Spec => RelaysAtLeastOnce
<1>1. Init => Relay!LInit
  <2>1. ASSUME Init PROVE Logged = {}
    BY <2>1 DEF Init, Logged, Messages
  <2>. QED  BY <2>1 DEF Init, Relay!LInit
<1>. QED
  BY <1>1, StepRelays, InvariantHolds, PTL DEF Spec, RelaysAtLeastOnce, Relay!LSpec
=============================================================================

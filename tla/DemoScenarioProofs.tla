------------------------- MODULE DemoScenarioProofs -------------------------
(***************************************************************************)
(* What the demo programs count is true of the cluster, however many       *)
(* permits, workers, tasks, messages and faults there are.                 *)
(***************************************************************************)
EXTENDS DemoScenario, FiniteSetTheorems, TLAPS

USE DEF PermitsAfter, SentAfterErr, AfterSleep, Panics

(* The part of the abstract state that is counted.                         *)
CountsTyped == state.next_offset \in [Queue -> Nat]

(* A permit is free, or with a task of the producer that waits for its     *)
(* answer.                                                                 *)
PermitsAreHeld == permits + open[Spam] + accepted[Spam] = Concurrency

(* Every message in the history of the demo's queue belongs to a call that *)
(* has ended or is accepted, or was put there by a fault; an entry nobody  *)
(* waits for may still become one.                                         *)
HistoryIsAccounted ==
    /\ sent + accepted[Spam] <= Count(Spam)
    /\ Count(Spam) + late[Spam] <= sent + failed + accepted[Spam] + faults

(* The publishes of the bench that went well, one pair for each.           *)
Done == {x \in Task \X (1..PerTask) : todo[x[1]] < x[2]}

(* The history of the bench's queue has all that its tasks have ticked     *)
(* off, beside what is accepted and unanswered.                            *)
BenchIsAccounted ==
    /\ Count(Bench) >= accepted[Bench] + Cardinality(Done)
    /\ \A t \in calling : todo[t] > 0

DemoInv ==
    /\ TypeOK
    /\ CountsTyped
    /\ PermitsAreHeld
    /\ HistoryIsAccounted
    /\ BenchIsAccounted
    /\ BenchReportIsTrue
-----------------------------------------------------------------------------
(* The parameters, one by one.                                             *)
LEMMA Parameters ==
    /\ Spam \in Queue /\ Bench \in Queue /\ Spam # Bench
    /\ BenchConcurrency \in Nat \ {0} /\ Concurrency \in Nat /\ BenchCount \in Nat
    /\ MaxCounter \in Nat /\ MaxFaults \in Nat /\ StreamRest \in Nat
    /\ PerTask \in Nat
<1>1. /\ Spam \in Queue /\ Bench \in Queue /\ Spam # Bench
      /\ BenchConcurrency \in Nat \ {0} /\ Concurrency \in Nat /\ BenchCount \in Nat
      /\ MaxCounter \in Nat /\ MaxFaults \in Nat /\ StreamRest \in Nat
  BY DemoParameters
<1>2. \A a \in Nat, b \in Nat \ {0} : a \div b \in Nat
  OBVIOUS
<1> QED BY <1>1, <1>2 DEF PerTask

(* TypeOK, one variable at a time.                                         *)
LEMMA Types ==
    TypeOK <=>
      /\ open \in [Queue -> Nat] /\ accepted \in [Queue -> Nat] /\ late \in [Queue -> Nat]
      /\ loop \in {"tick", "acquire"}
      /\ permits \in 0..Concurrency
      /\ counter \in Nat /\ sent \in Nat /\ failed \in Nat /\ abandoned \in Nat /\ faults \in Nat
      /\ worker \in [Worker -> {"connect", "stream", "sleep"}]
      /\ bench \in {"off", "running", "reported", "aborted"}
      /\ todo \in [Task -> 0..PerTask]
      /\ calling \subseteq Task /\ panicked \subseteq Task
  BY DEF TypeOK

(* A counter of one queue goes up: the others stay.                        *)
LEMMA UpCounts ==
    ASSUME NEW f \in [Queue -> Nat], NEW q \in Queue
    PROVE  /\ Up(f, q) \in [Queue -> Nat] /\ Up(f, q)[q] = f[q] + 1
           /\ \A r \in Queue \ {q} : Up(f, q)[r] = f[r]
  BY DEF Up

(* A counter of one queue that is not 0 goes down: the others stay.        *)
LEMMA DownCounts ==
    ASSUME NEW f \in [Queue -> Nat], NEW q \in Queue, f[q] > 0
    PROVE  /\ Down(f, q) \in [Queue -> Nat] /\ Down(f, q)[q] = f[q] - 1
           /\ \A r \in Queue \ {q} : Down(f, q)[r] = f[r]
<1>1. f[q] - 1 \in Nat
  OBVIOUS
<1> QED BY <1>1 DEF Down

(* An accepted message advances the counter of its queue by one.           *)
LEMMA AcceptCounts ==
    ASSUME CountsTyped, NEW q \in Queue, NEW p \in Payload, Accept(q, p)
    PROVE  /\ CountsTyped' /\ Count(q)' = Count(q) + 1
           /\ \A r \in Queue \ {q} : Count(r)' = Count(r)
<1>1. state'.next_offset = [state.next_offset EXCEPT ![q] = @ + 1]
  BY DEF Accept, AfterPublish
<1> QED BY <1>1 DEF CountsTyped, Count

(* A Pop leaves the counters alone.                                        *)
LEMMA PopCounts ==
    ASSUME NEW q \in Queue, state' = AfterPop(state, q)
    PROVE  state'.next_offset = state.next_offset
  BY DEF AfterPop

(* What the tasks of the bench have ticked off is finite, and at the end   *)
(* it is everything.                                                       *)
LEMMA DoneIsFinite ==
    /\ IsFiniteSet(Done) /\ Cardinality(Done) \in Nat
    /\ (\A t \in Task : todo[t] = 0) => Cardinality(Done) = PerTask * BenchConcurrency
<1>1. /\ IsFiniteSet(Task) /\ Cardinality(Task) = BenchConcurrency
      /\ IsFiniteSet(1..PerTask) /\ Cardinality(1..PerTask) = PerTask
  <2>1. \A k \in Nat : IsFiniteSet(1..k) /\ Cardinality(1..k) = k
    BY FS_Interval
  <2> QED BY <2>1, Parameters DEF Task
<1>2. /\ IsFiniteSet(Task \X (1..PerTask))
      /\ Cardinality(Task \X (1..PerTask)) = BenchConcurrency * PerTask
  BY <1>1, FS_Product
<1>3. IsFiniteSet(Done)
  <2>1. Done \subseteq Task \X (1..PerTask)
    BY DEF Done
  <2> QED BY <1>2, <2>1, FS_Subset
<1>4. Cardinality(Done) \in Nat
  BY <1>3, FS_CardinalityType
<1>5. ASSUME \A t \in Task : todo[t] = 0
      PROVE  Cardinality(Done) = PerTask * BenchConcurrency
  <2>1. Done = Task \X (1..PerTask)
    <3>1. \A x \in Task \X (1..PerTask) : x[1] \in Task /\ x[2] \in 1..PerTask
      OBVIOUS
    <3>2. \A i \in 1..PerTask : 0 < i
      BY Parameters
    <3> QED BY <1>5, <3>1, <3>2 DEF Done
  <2>2. BenchConcurrency * PerTask = PerTask * BenchConcurrency
    BY Parameters
  <2> QED BY <1>2, <2>1, <2>2
<1> QED BY <1>3, <1>4, <1>5

(* A task that ticks off one publish makes them one more.                  *)
LEMMA DoneGrows ==
    ASSUME todo \in [Task -> 0..PerTask], NEW t \in Task, todo[t] > 0, todo' = Down(todo, t)
    PROVE  /\ todo' \in [Task -> 0..PerTask] /\ todo'[t] = todo[t] - 1
           /\ \A x \in Task \ {t} : todo'[x] = todo[x]
           /\ Cardinality(Done') = Cardinality(Done) + 1
<1>1. todo[t] \in 1..PerTask /\ todo[t] - 1 \in 0..PerTask
  BY Parameters
<1>2. /\ todo' \in [Task -> 0..PerTask] /\ todo'[t] = todo[t] - 1
      /\ \A x \in Task \ {t} : todo'[x] = todo[x]
  BY <1>1 DEF Down
<1>3. Done' = Done \cup {<<t, todo[t]>>} /\ <<t, todo[t]>> \notin Done
  <2>1. \A x \in Task \X (1..PerTask) :
            todo'[x[1]] < x[2] <=> todo[x[1]] < x[2] \/ x = <<t, todo[t]>>
    <3> SUFFICES ASSUME NEW s \in Task, NEW i \in 1..PerTask
                 PROVE  todo'[s] < i <=> todo[s] < i \/ (s = t /\ i = todo[t])
      OBVIOUS
    <3>1. i \in Nat /\ todo[t] \in Nat
      BY <1>1, Parameters
    <3>2. CASE s = t
      BY <1>2, <3>1, <3>2
    <3>3. CASE s # t
      BY <1>2, <3>3
    <3> QED BY <3>2, <3>3
  <2>2. <<t, todo[t]>> \in Task \X (1..PerTask) /\ ~(todo[t] < todo[t])
    BY <1>1, Parameters
  <2>3. Done' = {x \in Task \X (1..PerTask) : todo'[x[1]] < x[2]}
    BY DEF Done, Task, PerTask
  <2> QED BY <2>1, <2>2, <2>3 DEF Done
<1>4. Cardinality(Done') = Cardinality(Done) + 1
  BY <1>3, DoneIsFinite, FS_AddElement
<1> QED BY <1>2, <1>4
-----------------------------------------------------------------------------
(* The invariant, fact by fact.                                            *)
LEMMA DemoFacts ==
    ASSUME DemoInv
    PROVE  /\ open \in [Queue -> Nat] /\ accepted \in [Queue -> Nat] /\ late \in [Queue -> Nat]
           /\ \A q \in Queue : Count(q) \in Nat
           /\ permits \in Nat /\ sent \in Nat /\ failed \in Nat /\ faults \in Nat
           /\ todo \in [Task -> 0..PerTask] /\ calling \subseteq Task /\ panicked \subseteq Task
           /\ CountsTyped /\ PermitsAreHeld /\ HistoryIsAccounted
           /\ BenchIsAccounted /\ BenchReportIsTrue
           /\ Cardinality(Done) \in Nat
  BY Types, DoneIsFinite, Parameters DEF DemoInv, CountsTyped, Count

(* A step that makes and ends no call of the bench, and takes no message   *)
(* out of the history of its queue, keeps what is true of the bench.       *)
LEMMA BenchUntouched ==
    ASSUME DemoInv, UNCHANGED benchVars,
           Count(Bench)' \in Nat, accepted'[Bench] \in Nat,
           Count(Bench)' - accepted'[Bench] >= Count(Bench) - accepted[Bench],
           Count(Bench)' >= Count(Bench)
    PROVE  BenchIsAccounted' /\ BenchReportIsTrue'
<1>1. /\ bench' = bench /\ todo' = todo /\ calling' = calling
      /\ Done' = Done
  BY DEF benchVars, Done, Task, PerTask
<1>2. /\ Count(Bench) \in Nat /\ accepted[Bench] \in Nat /\ Cardinality(Done) \in Nat
      /\ PerTask * BenchConcurrency \in Nat
  BY DemoFacts, Parameters
<1>3. Count(Bench) >= accepted[Bench] + Cardinality(Done)
  BY DEF DemoInv, BenchIsAccounted
<1>4. Count(Bench)' >= accepted'[Bench] + Cardinality(Done')
  BY <1>1, <1>2, <1>3
<1>5. BenchIsAccounted'
  BY <1>1, <1>4 DEF DemoInv, BenchIsAccounted
<1>6. bench = "reported" => Count(Bench) >= PerTask * BenchConcurrency /\ calling = {}
  BY DEF DemoInv, BenchReportIsTrue
<1>7. bench = "reported" => Count(Bench)' >= PerTask * BenchConcurrency
  BY <1>2, <1>6
<1>8. PerTask' = PerTask
  BY DEF PerTask
<1>9. BenchReportIsTrue'
  BY <1>1, <1>6, <1>7, <1>8 DEF BenchReportIsTrue
<1> QED BY <1>5, <1>9

(* A step that touches neither the calls nor what is counted of them.      *)
LEMMA CallsUntouched ==
    ASSUME DemoInv, TypeOK', UNCHANGED <<open, accepted, late, permits, sent, failed, benchVars>>,
           state'.next_offset = state.next_offset, faults' >= faults
    PROVE  DemoInv'
<1>1. CountsTyped' /\ \A q \in Queue : Count(q)' = Count(q)
  BY DEF DemoInv, CountsTyped, Count
<1>2. PermitsAreHeld'
  BY DEF DemoInv, PermitsAreHeld
<1>3. HistoryIsAccounted'
  <2>1. Count(Spam)' = Count(Spam)
    BY <1>1, Parameters
  <2>2. /\ sent + accepted[Spam] <= Count(Spam)
        /\ Count(Spam) + late[Spam] <= sent + failed + accepted[Spam] + faults
    BY DEF DemoInv, HistoryIsAccounted
  <2>3. /\ Count(Spam) \in Nat /\ accepted[Spam] \in Nat /\ late[Spam] \in Nat
        /\ sent \in Nat /\ failed \in Nat /\ faults \in Nat
    BY DemoFacts, Parameters
  <2>4. faults' \in Nat
    BY DEF TypeOK
  <2>5. Count(Spam) + late[Spam] <= sent + failed + accepted[Spam] + faults'
    BY <2>2, <2>3, <2>4
  <2> QED BY <2>1, <2>2, <2>5 DEF HistoryIsAccounted
<1>4. BenchIsAccounted' /\ BenchReportIsTrue'
  <2>1. /\ Count(Bench)' = Count(Bench) /\ Count(Bench) \in Nat
        /\ accepted'[Bench] = accepted[Bench] /\ accepted[Bench] \in Nat
    BY <1>1, DemoFacts, Parameters
  <2> QED BY <2>1, BenchUntouched
<1> QED BY <1>1, <1>2, <1>3, <1>4 DEF DemoInv

(* The cluster accepts the message of a call.                              *)
LEMMA AcceptsKeeps ==
    ASSUME DemoInv, NEW q \in Queue, NEW p \in Payload, Accepts(q, p)
    PROVE  DemoInv'
<1>1. /\ open[q] > 0 /\ Accept(q, p)
      /\ open' = Down(open, q) /\ accepted' = Up(accepted, q) /\ late' = late
      /\ UNCHANGED <<producerVars, consumerVars, benchVars, faults>>
  BY DEF Accepts
<1>2. /\ open' \in [Queue -> Nat] /\ open'[q] = open[q] - 1
      /\ \A r \in Queue \ {q} : open'[r] = open[r]
      /\ accepted' \in [Queue -> Nat] /\ accepted'[q] = accepted[q] + 1
      /\ \A r \in Queue \ {q} : accepted'[r] = accepted[r]
  BY <1>1, DemoFacts, UpCounts, DownCounts
<1>3. /\ CountsTyped' /\ Count(q)' = Count(q) + 1
      /\ \A r \in Queue \ {q} : Count(r)' = Count(r)
  BY <1>1, DemoFacts, AcceptCounts
<1>4. TypeOK'
  BY <1>1, <1>2 DEF DemoInv, TypeOK, producerVars, consumerVars, benchVars, Task, PerTask
<1>5. \A r \in Queue : /\ Count(r) \in Nat /\ accepted[r] \in Nat /\ open[r] \in Nat
                       /\ late[r] \in Nat
  BY DemoFacts
<1>6. \A r \in Queue : /\ open'[r] + accepted'[r] = open[r] + accepted[r]
                       /\ Count(r)' - accepted'[r] = Count(r) - accepted[r]
                       /\ Count(r)' >= Count(r) /\ Count(r)' \in Nat /\ accepted'[r] \in Nat
  BY <1>2, <1>3, <1>5
<1>7. PermitsAreHeld'
  <2>1. permits' = permits /\ open'[Spam] + accepted'[Spam] = open[Spam] + accepted[Spam]
    BY <1>1, <1>6, Parameters DEF producerVars
  <2>2. permits + open[Spam] + accepted[Spam] = Concurrency /\ permits \in Nat
    BY DemoFacts DEF PermitsAreHeld
  <2>3. /\ open[Spam] \in Nat /\ accepted[Spam] \in Nat
        /\ open'[Spam] \in Nat /\ accepted'[Spam] \in Nat
    BY <1>2, <1>5, Parameters
  <2> QED BY <2>1, <2>2, <2>3 DEF PermitsAreHeld
<1>8. HistoryIsAccounted'
  <2>1. sent' = sent /\ failed' = failed /\ late' = late /\ faults' = faults
    BY <1>1 DEF producerVars
  <2> QED BY <2>1, <1>5, <1>6, DemoFacts, Parameters DEF HistoryIsAccounted
<1>9. BenchIsAccounted' /\ BenchReportIsTrue'
  BY <1>1, <1>5, <1>6, Parameters, BenchUntouched
<1> QED BY <1>3, <1>4, <1>7, <1>8, <1>9 DEF DemoInv

(* An entry nobody waits for commits or is dropped.                        *)
LEMMA SettlesLateKeeps ==
    ASSUME DemoInv, NEW q \in Queue, NEW p \in Payload, SettlesLate(q, p)
    PROVE  DemoInv'
<1>1. /\ late[q] > 0 /\ late' = Down(late, q)
      /\ Accept(q, p) \/ UNCHANGED abstractVars
      /\ UNCHANGED <<open, accepted, producerVars, consumerVars, benchVars, faults>>
  BY DEF SettlesLate
<1>2. /\ late' \in [Queue -> Nat] /\ late'[q] = late[q] - 1
      /\ \A r \in Queue \ {q} : late'[r] = late[r]
  BY <1>1, DemoFacts, DownCounts
<1>3. /\ CountsTyped' /\ Count(q)' \in {Count(q), Count(q) + 1}
      /\ \A r \in Queue \ {q} : Count(r)' = Count(r)
  <2>1. CASE Accept(q, p)
    BY <2>1, DemoFacts, AcceptCounts
  <2>2. CASE UNCHANGED abstractVars
    BY <2>2, DemoFacts DEF abstractVars, CountsTyped, Count
  <2> QED BY <1>1, <2>1, <2>2
<1>4. TypeOK'
  BY <1>1, <1>2 DEF DemoInv, TypeOK, producerVars, consumerVars, benchVars, Task, PerTask
<1>5. \A r \in Queue : /\ Count(r) \in Nat /\ accepted[r] \in Nat /\ late[r] \in Nat
                       /\ accepted'[r] = accepted[r] /\ open'[r] = open[r]
  BY <1>1, DemoFacts
<1>6. \A r \in Queue : /\ Count(r)' + late'[r] <= Count(r) + late[r]
                       /\ Count(r)' >= Count(r) /\ Count(r)' \in Nat /\ late'[r] \in Nat
  BY <1>2, <1>3, <1>5
<1>7. PermitsAreHeld'
  BY <1>1, DemoFacts DEF PermitsAreHeld, producerVars
<1>8. HistoryIsAccounted'
  <2>1. sent' = sent /\ failed' = failed /\ accepted' = accepted /\ faults' = faults
    BY <1>1 DEF producerVars
  <2> QED BY <2>1, <1>5, <1>6, DemoFacts, Parameters DEF HistoryIsAccounted
<1>9. BenchIsAccounted' /\ BenchReportIsTrue'
  <2>1. /\ Count(Bench) \in Nat /\ Count(Bench)' \in Nat /\ Count(Bench)' >= Count(Bench)
        /\ accepted'[Bench] = accepted[Bench] /\ accepted[Bench] \in Nat
    BY <1>5, <1>6, Parameters
  <2>2. Count(Bench)' - accepted'[Bench] >= Count(Bench) - accepted[Bench]
    BY <2>1
  <2> QED BY <1>1, <2>1, <2>2, BenchUntouched
<1> QED BY <1>3, <1>4, <1>7, <1>8, <1>9 DEF DemoInv

(* A fault is counted.                                                     *)
LEMMA FaultCounts ==
    ASSUME DemoInv, Fault
    PROVE  faults' \in Nat /\ faults' = faults + 1
  BY DemoFacts DEF Fault

(* A redirected call leaves an entry behind.                               *)
LEMMA RedirectKeeps ==
    ASSUME DemoInv, NEW q \in Queue, Redirect(q)
    PROVE  DemoInv'
<1>1. /\ Fault /\ late' = Up(late, q)
      /\ UNCHANGED <<abstractVars, open, accepted, producerVars, consumerVars, benchVars>>
  BY DEF Redirect
<1>2. /\ late' \in [Queue -> Nat] /\ late'[q] = late[q] + 1
      /\ \A r \in Queue \ {q} : late'[r] = late[r]
      /\ faults' \in Nat /\ faults' = faults + 1
  BY <1>1, DemoFacts, UpCounts, FaultCounts
<1>3. CountsTyped' /\ \A r \in Queue : Count(r)' = Count(r)
  BY <1>1, DemoFacts DEF abstractVars, CountsTyped, Count
<1>4. TypeOK'
  BY <1>1, <1>2 DEF DemoInv, TypeOK, producerVars, consumerVars, benchVars, Task, PerTask
<1>5. PermitsAreHeld'
  BY <1>1, DemoFacts DEF PermitsAreHeld, producerVars
<1>6. HistoryIsAccounted'
  <2>1. /\ sent' = sent /\ failed' = failed /\ accepted' = accepted
        /\ Count(Spam)' = Count(Spam)
    BY <1>1, <1>3, Parameters DEF producerVars
  <2>2. /\ Count(Spam) \in Nat /\ accepted[Spam] \in Nat /\ late[Spam] \in Nat
        /\ late'[Spam] \in {late[Spam], late[Spam] + 1}
    BY <1>2, DemoFacts, Parameters
  <2> QED BY <1>2, <2>1, <2>2, DemoFacts DEF HistoryIsAccounted
<1>7. BenchIsAccounted' /\ BenchReportIsTrue'
  <2>1. /\ Count(Bench) \in Nat /\ Count(Bench)' = Count(Bench)
        /\ accepted'[Bench] = accepted[Bench] /\ accepted[Bench] \in Nat
    BY <1>1, <1>3, DemoFacts, Parameters
  <2> QED BY <1>1, <2>1, BenchUntouched
<1> QED BY <1>3, <1>4, <1>5, <1>6, <1>7 DEF DemoInv

(* The producer ticks: nothing is called yet.                              *)
LEMMA TickKeeps ==
    ASSUME DemoInv, Tick
    PROVE  DemoInv'
<1>1. /\ loop' = "acquire" /\ counter' = counter + 1
      /\ UNCHANGED <<abstractVars, callVars, permits, sent, failed, consumerVars, benchVars, faults>>
  BY DEF Tick
<1>2. TypeOK'
  BY <1>1 DEF DemoInv, TypeOK, callVars, consumerVars, benchVars, Task, PerTask
<1>3. /\ UNCHANGED <<open, accepted, late, permits, sent, failed, benchVars>>
      /\ state'.next_offset = state.next_offset /\ faults' >= faults
  BY <1>1, DemoFacts DEF callVars, abstractVars
<1> QED BY <1>2, <1>3, CallsUntouched

(* A task of the producer takes a permit and calls.                        *)
LEMMA SpawnPublishKeeps ==
    ASSUME DemoInv, SpawnPublish
    PROVE  DemoInv'
<1>1. /\ permits > 0 /\ loop' = "tick" /\ permits' = permits - 1 /\ open' = Up(open, Spam)
      /\ UNCHANGED <<abstractVars, accepted, late, counter, sent, failed, consumerVars, benchVars,
                     faults>>
  BY DEF SpawnPublish
<1>2. open' \in [Queue -> Nat] /\ open'[Spam] = open[Spam] + 1
  BY <1>1, DemoFacts, UpCounts, Parameters
<1>3. permits' \in 0..Concurrency
  BY <1>1, Parameters, Types DEF DemoInv
<1>4. TypeOK'
  BY <1>1, <1>2, <1>3 DEF DemoInv, TypeOK, consumerVars, benchVars, Task, PerTask
<1>5. CountsTyped' /\ \A r \in Queue : Count(r)' = Count(r)
  BY <1>1, DemoFacts DEF abstractVars, CountsTyped, Count
<1>6. PermitsAreHeld'
  <2>1. open[Spam] \in Nat /\ accepted[Spam] \in Nat
    BY DemoFacts, Parameters
  <2> QED BY <1>1, <1>2, <2>1, DemoFacts, Parameters DEF PermitsAreHeld
<1>7. HistoryIsAccounted'
  BY <1>1, <1>5, DemoFacts, Parameters DEF HistoryIsAccounted
<1>8. BenchIsAccounted' /\ BenchReportIsTrue'
  <2>1. /\ Count(Bench) \in Nat /\ Count(Bench)' = Count(Bench)
        /\ accepted'[Bench] = accepted[Bench] /\ accepted[Bench] \in Nat
    BY <1>1, <1>5, DemoFacts, Parameters
  <2> QED BY <1>1, <2>1, BenchUntouched
<1> QED BY <1>4, <1>5, <1>6, <1>7, <1>8 DEF DemoInv

(* A call that is answered well was accepted.                              *)
LEMMA OkCounts ==
    ASSUME DemoInv, NEW q \in Queue, CallReturnsOk(q)
    PROVE  /\ accepted[q] \in Nat \ {0}
           /\ accepted' \in [Queue -> Nat] /\ accepted'[q] = accepted[q] - 1
           /\ \A r \in Queue \ {q} : accepted'[r] = accepted[r]
           /\ open' = open /\ late' = late /\ faults' = faults
<1>1. accepted[q] > 0 /\ accepted' = Down(accepted, q) /\ UNCHANGED <<open, late, faults>>
  BY DEF CallReturnsOk
<1> QED BY <1>1, DemoFacts, DownCounts

(* A call that fails was accepted, or leaves an entry that may still be.   *)
LEMMA ErrCounts ==
    ASSUME DemoInv, NEW q \in Queue, CallReturnsErr(q)
    PROVE  /\ open' \in [Queue -> Nat] /\ accepted' \in [Queue -> Nat] /\ late' \in [Queue -> Nat]
           /\ open'[q] + accepted'[q] + 1 = open[q] + accepted[q]
           /\ accepted'[q] <= accepted[q]
           /\ late'[q] + accepted[q] <= late[q] + accepted'[q] + 1
           /\ \A r \in Queue \ {q} : accepted'[r] = accepted[r] /\ open'[r] = open[r]
                                     /\ late'[r] = late[r]
           /\ faults' \in Nat /\ faults' = faults + 1
<1>1. /\ open \in [Queue -> Nat] /\ accepted \in [Queue -> Nat] /\ late \in [Queue -> Nat]
      /\ open[q] \in Nat /\ accepted[q] \in Nat /\ late[q] \in Nat
  BY DemoFacts
<1>2. faults' \in Nat /\ faults' = faults + 1
  BY FaultCounts DEF CallReturnsErr
<1>3. CASE open[q] > 0 /\ open' = Down(open, q) /\ late' = Up(late, q) /\ UNCHANGED accepted
  <2>1. /\ open' \in [Queue -> Nat] /\ open'[q] = open[q] - 1
        /\ \A r \in Queue \ {q} : open'[r] = open[r]
    BY <1>1, <1>3, DownCounts
  <2>2. /\ late' \in [Queue -> Nat] /\ late'[q] = late[q] + 1
        /\ \A r \in Queue \ {q} : late'[r] = late[r]
    BY <1>1, <1>3, UpCounts
  <2>3. accepted' = accepted
    BY <1>3
  <2>4. /\ open'[q] + accepted'[q] + 1 = open[q] + accepted[q]
        /\ accepted'[q] <= accepted[q]
        /\ late'[q] + accepted[q] <= late[q] + accepted'[q] + 1
    BY <1>1, <2>1, <2>2, <2>3
  <2> QED BY <1>1, <1>2, <2>1, <2>2, <2>3, <2>4
<1>4. CASE accepted[q] > 0 /\ accepted' = Down(accepted, q) /\ UNCHANGED <<open, late>>
  <2>1. /\ accepted' \in [Queue -> Nat] /\ accepted'[q] = accepted[q] - 1
        /\ \A r \in Queue \ {q} : accepted'[r] = accepted[r]
    BY <1>1, <1>4, DownCounts
  <2>2. open' = open /\ late' = late
    BY <1>4
  <2>3. /\ open'[q] + accepted'[q] + 1 = open[q] + accepted[q]
        /\ accepted'[q] <= accepted[q]
        /\ late'[q] + accepted[q] <= late[q] + accepted'[q] + 1
    BY <1>1, <2>1, <2>2
  <2> QED BY <1>1, <1>2, <2>1, <2>2, <2>3
<1> QED BY <1>3, <1>4 DEF CallReturnsErr

(* The producer counts a publish as sent and its permit comes back.        *)
LEMMA PublishOkKeeps ==
    ASSUME DemoInv, PublishOk
    PROVE  DemoInv'
<1>1. /\ CallReturnsOk(Spam) /\ sent' = sent + 1 /\ permits' = permits + 1
      /\ UNCHANGED <<abstractVars, loop, counter, failed, consumerVars, benchVars>>
  BY DEF PublishOk
<1>2. /\ accepted[Spam] \in Nat \ {0}
      /\ accepted' \in [Queue -> Nat] /\ accepted'[Spam] = accepted[Spam] - 1
      /\ accepted'[Bench] = accepted[Bench]
      /\ open' = open /\ late' = late /\ faults' = faults
  BY <1>1, OkCounts, Parameters
<1>3. CountsTyped' /\ \A r \in Queue : Count(r)' = Count(r)
  BY <1>1, DemoFacts DEF abstractVars, CountsTyped, Count
<1>4. /\ open[Spam] \in Nat /\ late[Spam] \in Nat /\ accepted'[Spam] \in Nat /\ Count(Spam) \in Nat
      /\ permits \in Nat /\ sent \in Nat /\ failed \in Nat /\ faults \in Nat /\ Concurrency \in Nat
      /\ Count(Spam)' = Count(Spam)
  BY <1>2, <1>3, DemoFacts, Parameters
<1>5. permits' + open'[Spam] + accepted'[Spam] = Concurrency
  <2>1. permits + open[Spam] + accepted[Spam] = Concurrency
    BY DemoFacts DEF PermitsAreHeld
  <2>2. permits' = permits + 1
    BY <1>1
  <2> QED BY <1>2, <1>4, <2>1, <2>2
<1>6. permits' \in 0..Concurrency
  <2>1. permits' \in Nat
    BY <1>1, <1>4
  <2>2. open'[Spam] \in Nat
    BY <1>2, <1>4
  <2> QED BY <1>4, <1>5, <2>1, <2>2
<1>7. TypeOK'
  <2>1. sent' \in Nat /\ failed' \in Nat
    BY <1>1, <1>4
  <2>2. late' \in [Queue -> Nat] /\ open' \in [Queue -> Nat] /\ faults' \in Nat
    BY <1>2, DemoFacts
  <2>3. /\ loop' = loop /\ counter' = counter /\ abandoned' = abandoned /\ worker' = worker
        /\ bench' = bench /\ todo' = todo /\ calling' = calling /\ panicked' = panicked
    BY <1>1 DEF consumerVars, benchVars
  <2> QED BY <1>2, <1>6, <2>1, <2>2, <2>3 DEF DemoInv, TypeOK, Task, PerTask
<1>8. HistoryIsAccounted'
  BY <1>1, <1>2, <1>4, DemoFacts DEF HistoryIsAccounted
<1>9. BenchIsAccounted' /\ BenchReportIsTrue'
  <2>1. /\ Count(Bench) \in Nat /\ Count(Bench)' = Count(Bench)
        /\ accepted'[Bench] = accepted[Bench] /\ accepted[Bench] \in Nat
    BY <1>2, <1>3, DemoFacts, Parameters
  <2> QED BY <1>1, <2>1, BenchUntouched
<1> QED BY <1>3, <1>5, <1>7, <1>8, <1>9 DEF DemoInv, PermitsAreHeld

(* A publish that fails is counted as failed, and its permit comes back.   *)
LEMMA PublishErrKeeps ==
    ASSUME DemoInv, PublishErr
    PROVE  DemoInv'
<1>1. /\ CallReturnsErr(Spam) /\ sent' = sent /\ failed' = failed + 1 /\ permits' = permits + 1
      /\ UNCHANGED <<abstractVars, loop, counter, consumerVars, benchVars>>
  BY DEF PublishErr
<1>2. /\ open' \in [Queue -> Nat] /\ accepted' \in [Queue -> Nat] /\ late' \in [Queue -> Nat]
      /\ open'[Spam] + accepted'[Spam] + 1 = open[Spam] + accepted[Spam]
      /\ accepted'[Spam] <= accepted[Spam]
      /\ late'[Spam] + accepted[Spam] <= late[Spam] + accepted'[Spam] + 1
      /\ accepted'[Bench] = accepted[Bench]
      /\ faults' \in Nat /\ faults' = faults + 1
  BY <1>1, ErrCounts, Parameters
<1>3. CountsTyped' /\ \A r \in Queue : Count(r)' = Count(r)
  BY <1>1, DemoFacts DEF abstractVars, CountsTyped, Count
<1>4. /\ open[Spam] \in Nat /\ late[Spam] \in Nat /\ accepted[Spam] \in Nat /\ Count(Spam) \in Nat
      /\ open'[Spam] \in Nat /\ late'[Spam] \in Nat /\ accepted'[Spam] \in Nat
      /\ permits \in Nat /\ sent \in Nat /\ failed \in Nat /\ faults \in Nat /\ Concurrency \in Nat
      /\ Count(Spam)' = Count(Spam)
  BY <1>2, <1>3, DemoFacts, Parameters
<1>5. permits' + open'[Spam] + accepted'[Spam] = Concurrency
  <2>1. permits + open[Spam] + accepted[Spam] = Concurrency
    BY DemoFacts DEF PermitsAreHeld
  <2>2. permits' = permits + 1
    BY <1>1
  <2> QED BY <1>2, <1>4, <2>1, <2>2
<1>6. permits' \in 0..Concurrency
  <2>1. permits' \in Nat
    BY <1>1, <1>4
  <2>2. open'[Spam] \in Nat
    BY <1>2, <1>4
  <2> QED BY <1>4, <1>5, <2>1, <2>2
<1>7. TypeOK'
  <2>1. sent' \in Nat /\ failed' \in Nat
    BY <1>1, <1>4
  <2>2. late' \in [Queue -> Nat] /\ open' \in [Queue -> Nat] /\ faults' \in Nat
    BY <1>2, DemoFacts
  <2>3. /\ loop' = loop /\ counter' = counter /\ abandoned' = abandoned /\ worker' = worker
        /\ bench' = bench /\ todo' = todo /\ calling' = calling /\ panicked' = panicked
    BY <1>1 DEF consumerVars, benchVars
  <2> QED BY <1>2, <1>6, <2>1, <2>2, <2>3 DEF DemoInv, TypeOK, Task, PerTask
<1>8. HistoryIsAccounted'
  BY <1>1, <1>2, <1>4, DemoFacts DEF HistoryIsAccounted
<1>9. BenchIsAccounted' /\ BenchReportIsTrue'
  <2>1. /\ Count(Bench) \in Nat /\ Count(Bench)' = Count(Bench)
        /\ accepted'[Bench] = accepted[Bench] /\ accepted[Bench] \in Nat
    BY <1>2, <1>3, DemoFacts, Parameters
  <2> QED BY <1>1, <2>1, BenchUntouched
<1> QED BY <1>3, <1>5, <1>7, <1>8, <1>9 DEF DemoInv, PermitsAreHeld

(* The workers of the consumer connect, lose their streams and sleep.      *)
LEMMA ConsumerKeeps ==
    ASSUME DemoInv,
           \/ \E w \in Worker : Connect(w) \/ ConnectFails(w) \/ StreamEnds(w) \/ WakeUp(w)
           \/ PopForWorker \/ PopForNobody \/ ReceiveNext
    PROVE  DemoInv'
<1>1. /\ UNCHANGED <<callVars, producerVars, benchVars>>
      /\ faults' \in {faults, faults + 1}
  BY DEF Connect, ConnectFails, StreamEnds, WakeUp, PopForWorker, PopForNobody, ReceiveNext, Fault
<1>2. worker' \in [Worker -> {"connect", "stream", "sleep"}]
  <2>1. worker \in [Worker -> {"connect", "stream", "sleep"}]
    BY DEF DemoInv, TypeOK
  <2> QED BY <2>1 DEF Connect, ConnectFails, StreamEnds, WakeUp, PopForWorker, PopForNobody,
                     ReceiveNext, consumerVars
<1>3. abandoned' \in Nat
  <2>1. abandoned \in Nat
    BY DEF DemoInv, TypeOK
  <2>2. CASE \E w \in Worker : StreamEnds(w)
    BY <2>1, <2>2, Parameters DEF StreamEnds
  <2>3. CASE PopForNobody
    BY <2>1, <2>3 DEF PopForNobody
  <2>4. CASE \/ \E w \in Worker : Connect(w) \/ ConnectFails(w) \/ WakeUp(w)
             \/ PopForWorker \/ ReceiveNext
    BY <2>1, <2>4 DEF Connect, ConnectFails, WakeUp, PopForWorker, ReceiveNext, consumerVars
  <2> QED BY <2>2, <2>3, <2>4
<1>4. state'.next_offset = state.next_offset
  <2>1. CASE PopForWorker \/ PopForNobody
    BY <2>1, PopCounts, Parameters DEF PopForWorker, PopForNobody, Take, Discard
  <2>2. CASE ReceiveNext
    BY <2>2 DEF ReceiveNext, Deliver
  <2>3. CASE \E w \in Worker : Connect(w) \/ ConnectFails(w) \/ StreamEnds(w) \/ WakeUp(w)
    BY <2>3 DEF Connect, ConnectFails, StreamEnds, WakeUp, Lose, abstractVars
  <2> QED BY <2>1, <2>2, <2>3
<1>5. faults' \in Nat /\ faults' >= faults
  BY <1>1, DemoFacts
<1>6. TypeOK'
  BY <1>1, <1>2, <1>3, <1>5 DEF DemoInv, TypeOK, callVars, producerVars, benchVars, Task, PerTask
<1>7. UNCHANGED <<open, accepted, late, permits, sent, failed, benchVars>>
  BY <1>1 DEF callVars, producerVars
<1> QED BY <1>4, <1>5, <1>6, <1>7, CallsUntouched

(* A step that leaves the producer and the demo's queue alone keeps what   *)
(* is true of them.                                                        *)
LEMMA ProducerUntouched ==
    ASSUME DemoInv, UNCHANGED <<abstractVars, producerVars>>,
           open'[Spam] = open[Spam], accepted'[Spam] = accepted[Spam], late'[Spam] = late[Spam],
           faults' \in {faults, faults + 1}
    PROVE  /\ CountsTyped' /\ PermitsAreHeld' /\ HistoryIsAccounted'
           /\ \A q \in Queue : Count(q)' = Count(q)
<1>1. CountsTyped' /\ \A q \in Queue : Count(q)' = Count(q)
  BY DemoFacts DEF abstractVars, CountsTyped, Count
<1>2. /\ permits' = permits /\ sent' = sent /\ failed' = failed
      /\ Count(Spam)' = Count(Spam)
  BY <1>1, Parameters DEF producerVars
<1>3. PermitsAreHeld'
  BY <1>2, DemoFacts DEF PermitsAreHeld
<1>4. /\ Count(Spam) \in Nat /\ accepted[Spam] \in Nat /\ late[Spam] \in Nat
      /\ sent \in Nat /\ failed \in Nat /\ faults \in Nat
  BY DemoFacts, Parameters
<1>5. /\ sent + accepted[Spam] <= Count(Spam)
      /\ Count(Spam) + late[Spam] <= sent + failed + accepted[Spam] + faults
  BY DemoFacts DEF HistoryIsAccounted
<1>6. Count(Spam) + late[Spam] <= sent + failed + accepted[Spam] + faults'
  BY <1>4, <1>5
<1>7. HistoryIsAccounted'
  BY <1>2, <1>5, <1>6 DEF HistoryIsAccounted
<1> QED BY <1>1, <1>3, <1>7

(* The bench starts, each of its tasks calls while it has publishes left,  *)
(* and `main` ends at a task that has panicked.                            *)
LEMMA BenchStartsKeeps ==
    ASSUME DemoInv, StartBench \/ \E t \in Task : BenchCall(t) \/ BenchAbort(t)
    PROVE  DemoInv'
<1>1. /\ UNCHANGED <<abstractVars, accepted, late, producerVars, consumerVars, todo, panicked,
                     faults>>
      /\ bench' \in {"running", "aborted"}
  BY DEF StartBench, BenchCall, BenchAbort, callVars
<1>2. /\ open' \in [Queue -> Nat] /\ open'[Spam] = open[Spam]
      /\ calling' \subseteq Task /\ \A t \in calling' : todo[t] > 0
  <2>0. calling \subseteq Task /\ \A t \in calling : todo[t] > 0
    BY <1>1, DemoFacts DEF BenchIsAccounted
  <2>1. CASE StartBench \/ \E t \in Task : BenchAbort(t)
    BY <2>0, <2>1, DemoFacts DEF StartBench, BenchAbort, callVars
  <2>2. ASSUME NEW t \in Task, BenchCall(t)
        PROVE  /\ open' \in [Queue -> Nat] /\ open'[Spam] = open[Spam]
               /\ calling' \subseteq Task /\ \A x \in calling' : todo[x] > 0
    <3>1. open' = Up(open, Bench) /\ calling' = calling \cup {t} /\ todo[t] > 0
      BY <2>2 DEF BenchCall
    <3>2. open' \in [Queue -> Nat] /\ open'[Spam] = open[Spam]
      BY <3>1, DemoFacts, Parameters, UpCounts
    <3> QED BY <2>0, <3>1, <3>2
  <2> QED BY <2>1, <2>2
<1>3. TypeOK'
  BY <1>1, <1>2 DEF DemoInv, TypeOK, producerVars, consumerVars, Task, PerTask
<1>4. /\ CountsTyped' /\ PermitsAreHeld' /\ HistoryIsAccounted'
      /\ \A q \in Queue : Count(q)' = Count(q)
  BY <1>1, <1>2, ProducerUntouched
<1>5. BenchIsAccounted'
  <2>1. Done' = Done /\ accepted'[Bench] = accepted[Bench] /\ Count(Bench)' = Count(Bench)
    BY <1>1, <1>4, Parameters DEF Done, Task, PerTask
  <2>2. Count(Bench) >= accepted[Bench] + Cardinality(Done)
    BY <1>1, DemoFacts DEF BenchIsAccounted
  <2> QED BY <1>1, <1>2, <2>1, <2>2 DEF BenchIsAccounted
<1>6. BenchReportIsTrue'
  BY <1>1 DEF BenchReportIsTrue
<1> QED BY <1>3, <1>4, <1>5, <1>6 DEF DemoInv

(* A publish of the bench went well: one more is ticked off, and it is in  *)
(* the history of the queue.                                               *)
LEMMA BenchOkKeeps ==
    ASSUME DemoInv, NEW t \in Task, BenchOk(t)
    PROVE  DemoInv'
<1>1. /\ bench = "running" /\ bench' = "running" /\ t \in calling /\ CallReturnsOk(Bench)
      /\ calling' = calling \ {t} /\ todo' = Down(todo, t)
      /\ UNCHANGED <<abstractVars, producerVars, consumerVars, panicked>>
  BY DEF BenchOk, TaskGoesOn
<1>2. /\ accepted[Bench] \in Nat \ {0}
      /\ accepted' \in [Queue -> Nat] /\ accepted'[Bench] = accepted[Bench] - 1
      /\ accepted'[Spam] = accepted[Spam]
      /\ open' = open /\ late' = late /\ faults' = faults
  BY <1>1, OkCounts, Parameters
<1>3. todo[t] > 0 /\ todo \in [Task -> 0..PerTask] /\ calling \subseteq Task
  BY <1>1, DemoFacts DEF BenchIsAccounted
<1>4. /\ todo' \in [Task -> 0..PerTask]
      /\ \A x \in Task \ {t} : todo'[x] = todo[x]
      /\ Cardinality(Done') = Cardinality(Done) + 1
  BY <1>1, <1>3, DoneGrows
<1>5. TypeOK'
  <2>1. calling' \subseteq Task
    BY <1>1, <1>3
  <2> QED BY <1>1, <1>2, <1>4, <2>1 DEF DemoInv, TypeOK, producerVars, consumerVars, Task, PerTask
<1>6. /\ CountsTyped' /\ PermitsAreHeld' /\ HistoryIsAccounted'
      /\ \A q \in Queue : Count(q)' = Count(q)
  BY <1>1, <1>2, ProducerUntouched
<1>7. BenchIsAccounted'
  <2>1. Count(Bench) >= accepted[Bench] + Cardinality(Done)
    BY <1>1, DemoFacts DEF BenchIsAccounted
  <2>2. Count(Bench)' = Count(Bench) /\ Count(Bench) \in Nat /\ Cardinality(Done) \in Nat
    BY <1>6, DemoFacts, Parameters
  <2>3. Count(Bench)' >= accepted'[Bench] + Cardinality(Done')
    BY <1>2, <1>4, <2>1, <2>2
  <2>4. \A x \in calling' : todo'[x] > 0
    <3>1. \A x \in calling : todo[x] > 0
      BY <1>1, DemoFacts DEF BenchIsAccounted
    <3> QED BY <1>1, <1>3, <1>4, <3>1
  <2> QED BY <2>3, <2>4 DEF BenchIsAccounted
<1>8. BenchReportIsTrue'
  BY <1>1 DEF BenchReportIsTrue
<1> QED BY <1>5, <1>6, <1>7, <1>8 DEF DemoInv

(* A publish of the bench failed: its task panics, with nothing ticked     *)
(* off.                                                                    *)
LEMMA BenchErrKeeps ==
    ASSUME DemoInv, NEW t \in Task, BenchErr(t)
    PROVE  DemoInv'
<1>1. /\ bench = "running" /\ bench' = "running" /\ t \in calling /\ CallReturnsErr(Bench)
      /\ calling' = calling \ {t} /\ todo' = todo /\ panicked' = panicked \cup {t}
      /\ UNCHANGED <<abstractVars, producerVars, consumerVars>>
  BY DEF BenchErr, TaskGoesOn
<1>2. /\ open' \in [Queue -> Nat] /\ accepted' \in [Queue -> Nat] /\ late' \in [Queue -> Nat]
      /\ accepted'[Bench] <= accepted[Bench]
      /\ accepted'[Spam] = accepted[Spam] /\ open'[Spam] = open[Spam] /\ late'[Spam] = late[Spam]
      /\ faults' \in Nat /\ faults' = faults + 1
  BY <1>1, ErrCounts, Parameters
<1>3. TypeOK'
  <2>1. calling' \subseteq Task /\ panicked' \subseteq Task
    BY <1>1, DemoFacts
  <2> QED BY <1>1, <1>2, <2>1 DEF DemoInv, TypeOK, producerVars, consumerVars, Task, PerTask
<1>4. /\ CountsTyped' /\ PermitsAreHeld' /\ HistoryIsAccounted'
      /\ \A q \in Queue : Count(q)' = Count(q)
  BY <1>1, <1>2, ProducerUntouched
<1>5. BenchIsAccounted'
  <2>1. Done' = Done /\ Count(Bench)' = Count(Bench)
    BY <1>1, <1>4, Parameters DEF Done, Task, PerTask
  <2>2. Count(Bench) >= accepted[Bench] + Cardinality(Done) /\ \A x \in calling : todo[x] > 0
    BY DemoFacts DEF BenchIsAccounted
  <2>3. /\ Count(Bench) \in Nat /\ accepted[Bench] \in Nat /\ accepted'[Bench] \in Nat
        /\ Cardinality(Done) \in Nat
    BY <1>2, DemoFacts, Parameters
  <2>4. Count(Bench) >= accepted'[Bench] + Cardinality(Done)
    BY <1>2, <2>2, <2>3
  <2> QED BY <1>1, <2>1, <2>2, <2>4 DEF BenchIsAccounted
<1>6. BenchReportIsTrue'
  BY <1>1 DEF BenchReportIsTrue
<1> QED BY <1>3, <1>4, <1>5, <1>6 DEF DemoInv

(* The bench reports: every task has ticked off its share, all of it well. *)
LEMMA BenchReportKeeps ==
    ASSUME DemoInv, BenchReport
    PROVE  DemoInv'
<1>1. /\ bench = "running" /\ bench' = "reported" /\ \A t \in Task : todo[t] = 0
      /\ UNCHANGED <<abstractVars, callVars, producerVars, consumerVars, todo, calling, panicked,
                     faults>>
  BY DEF BenchReport
<1>2. TypeOK'
  BY <1>1 DEF DemoInv, TypeOK, callVars, producerVars, consumerVars, Task, PerTask
<1>3. /\ CountsTyped' /\ PermitsAreHeld' /\ HistoryIsAccounted'
      /\ \A q \in Queue : Count(q)' = Count(q)
  <2>1. open' = open /\ accepted' = accepted /\ late' = late
    BY <1>1 DEF callVars
  <2> QED BY <1>1, <2>1, ProducerUntouched
<1>4. calling = {}
  <2>1. \A t \in calling : t \in Task /\ todo[t] > 0
    BY <1>1, DemoFacts DEF BenchIsAccounted
  <2> QED BY <1>1, <2>1
<1>5. Count(Bench)' >= PerTask * BenchConcurrency
  <2>1. Count(Bench) >= accepted[Bench] + Cardinality(Done)
    BY <1>1, DemoFacts DEF BenchIsAccounted
  <2>2. Cardinality(Done) = PerTask * BenchConcurrency /\ Cardinality(Done) \in Nat
    BY <1>1, DoneIsFinite
  <2>3. Count(Bench)' = Count(Bench) /\ Count(Bench) \in Nat /\ accepted[Bench] \in Nat
    BY <1>3, DemoFacts, Parameters
  <2>4. Count(Bench)' >= Cardinality(Done)
    BY <2>1, <2>2, <2>3
  <2> QED BY <2>2, <2>4
<1>6. BenchIsAccounted'
  <2>1. Done' = Done /\ Count(Bench)' = Count(Bench) /\ accepted' = accepted
    BY <1>1, <1>3, Parameters DEF Done, Task, PerTask, callVars
  <2> QED BY <1>1, <2>1, DemoFacts DEF BenchIsAccounted
<1>7. BenchReportIsTrue'
  BY <1>1, <1>4, <1>5 DEF BenchReportIsTrue, PerTask
<1> QED BY <1>2, <1>3, <1>6, <1>7 DEF DemoInv

-----------------------------------------------------------------------------
LEMMA InitDemo == Init => DemoInv
<1> SUFFICES ASSUME Init PROVE DemoInv
  OBVIOUS
<1>1. /\ state = EmptyState
      /\ open = [q \in Queue |-> 0] /\ accepted = open /\ late = open
      /\ loop = "tick" /\ counter = 0 /\ permits = Concurrency /\ sent = 0 /\ failed = 0
      /\ worker = [w \in Worker |-> "connect"] /\ abandoned = 0
      /\ bench = "off" /\ todo = [t \in Task |-> PerTask]
      /\ calling = {} /\ panicked = {} /\ faults = 0
  BY DEF Init, AbstractInit
<1>2. TypeOK
  <2>1. PerTask \in 0..PerTask /\ permits \in 0..Concurrency
    BY <1>1, Parameters
  <2> QED BY <1>1, <2>1, Types
<1>3. CountsTyped /\ \A q \in Queue : Count(q) = 0
  BY <1>1 DEF EmptyState, CountsTyped, Count
<1>4. PermitsAreHeld /\ HistoryIsAccounted
  BY <1>1, <1>3, Parameters DEF PermitsAreHeld, HistoryIsAccounted
<1>5. Cardinality(Done) = 0
  <2>1. Done = {}
    <3>1. \A x \in Task \X (1..PerTask) : x[1] \in Task /\ x[2] \in 1..PerTask
      OBVIOUS
    <3>2. \A i \in 1..PerTask : ~(PerTask < i)
      BY Parameters
    <3> QED BY <1>1, <3>1, <3>2 DEF Done
  <2> QED BY <2>1, FS_EmptySet
<1>6. BenchIsAccounted /\ BenchReportIsTrue
  BY <1>1, <1>3, <1>5, Parameters DEF BenchIsAccounted, BenchReportIsTrue
<1> QED BY <1>2, <1>3, <1>4, <1>6 DEF DemoInv

LEMMA NextDemo == DemoInv /\ [Next]_vars => DemoInv'
<1> SUFFICES ASSUME DemoInv, [Next]_vars PROVE DemoInv'
  OBVIOUS
<1>1. CASE ClusterStep
  BY <1>1, AcceptsKeeps, SettlesLateKeeps DEF ClusterStep
<1>2. CASE \E q \in Queue : Redirect(q)
  BY <1>2, RedirectKeeps
<1>3. CASE Tick \/ SpawnPublish \/ PublishOk \/ PublishErr
  BY <1>3, TickKeeps, SpawnPublishKeeps, PublishOkKeeps, PublishErrKeeps
<1>4. CASE \/ \E w \in Worker : Connect(w) \/ ConnectFails(w) \/ StreamEnds(w) \/ WakeUp(w)
           \/ PopForWorker \/ PopForNobody \/ ReceiveNext
  BY <1>4, ConsumerKeeps
<1>5. CASE StartBench \/ BenchReport
  BY <1>5, BenchStartsKeeps, BenchReportKeeps
<1>6. CASE \E t \in Task : BenchCall(t) \/ BenchOk(t) \/ BenchErr(t) \/ BenchAbort(t)
  BY <1>6, BenchStartsKeeps, BenchOkKeeps, BenchErrKeeps
<1>7. CASE UNCHANGED vars
  <2>1. /\ UNCHANGED <<open, accepted, late, permits, sent, failed, benchVars>>
        /\ state'.next_offset = state.next_offset /\ faults' >= faults
    BY <1>7, DemoFacts DEF vars, callVars, producerVars, abstractVars
  <2>2. TypeOK'
    BY <1>7 DEF DemoInv, TypeOK, vars, callVars, producerVars, consumerVars, benchVars, Task,
                PerTask
  <2> QED BY <2>1, <2>2, CallsUntouched
<1> QED BY <1>1, <1>2, <1>3, <1>4, <1>5, <1>6, <1>7 DEF Next

(* The invariant of the demos, for every number of permits, workers, tasks *)
(* and faults.                                                             *)
THEOREM DemoInvariant == Spec => []DemoInv
  BY InitDemo, NextDemo, PTL DEF Spec

(* The counters of the programs have their types: the producer never has   *)
(* more permits than its semaphore began with, and no task of the bench    *)
(* publishes more than its share.                                          *)
THEOREM DemoTypes == Spec => []TypeOK
<1>1. DemoInv => TypeOK
  BY DEF DemoInv
<1> QED BY <1>1, DemoInvariant, PTL

(* The producer's throughput line is true of the cluster at any instant:   *)
(* what it counts as sent is in the queue's history, and the history has   *)
(* no more than was asked for and what faults have doubled.                *)
THEOREM ThroughputIsTrue == Spec => []ThroughputIsBacked
<1>1. DemoInv => ThroughputIsBacked
  <2> SUFFICES ASSUME DemoInv PROVE ThroughputIsBacked
    OBVIOUS
  <2>1. /\ Count(Spam) \in Nat /\ accepted[Spam] \in Nat /\ late[Spam] \in Nat
        /\ sent \in Nat /\ failed \in Nat /\ faults \in Nat
    BY DemoFacts, Parameters
  <2>2. /\ sent + accepted[Spam] <= Count(Spam)
        /\ Count(Spam) + late[Spam] <= sent + failed + accepted[Spam] + faults
    BY DemoFacts DEF HistoryIsAccounted
  <2>3. Count(Spam) <= sent + failed + accepted[Spam] + faults
    BY <2>1, <2>2
  <2> QED BY <2>2, <2>3 DEF ThroughputIsBacked
<1> QED BY <1>1, DemoInvariant, PTL

(* The bench reports what the cluster has acknowledged, and only once all  *)
(* of its calls have returned.                                             *)
THEOREM BenchReportsWhatItSent == Spec => []BenchReportIsTrue
<1>1. DemoInv => BenchReportIsTrue
  BY DEF DemoInv
<1> QED BY <1>1, DemoInvariant, PTL
=============================================================================

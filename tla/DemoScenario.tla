---------------------------- MODULE DemoScenario ----------------------------
(***************************************************************************)
(* The programs of src/demo at work on a live cluster: the producer, which *)
(* publishes at a fixed rate with a limited number of calls in flight, the *)
(* consumer, whose workers reconnect whenever their stream ends, and the   *)
(* bench, which publishes to a queue of its own and reports.               *)
(*                                                                         *)
(* The cluster is AtMostOnceDelivery, which MqConsume implements, and, for *)
(* publishes, what MqPublish shows of them: every call is answered, an     *)
(* error may come after the message was accepted or before it still is,    *)
(* and a redirect may have it accepted twice. Calls that only differ in    *)
(* their payload are counted, not named.                                   *)
(***************************************************************************)
EXTENDS AtMostOnceDelivery

CONSTANTS Spam, Bench,        \* the queues of the demo and of the bench
          Worker,             \* the workers of the consumer
          StreamRest,         \* messages a stream may pop once its worker is gone
          Concurrency,        \* MQ_PRODUCER_CONCURRENCY
          BenchCount,         \* MQ_COUNT
          BenchConcurrency,   \* MQ_CONCURRENCY
          MaxCounter,         \* bound: messages the producer makes
          MaxFaults           \* bound: failed calls, redirects, broken streams

ASSUME DemoParameters ==
    /\ Queue = {Spam, Bench} /\ Spam # Bench
    /\ BenchConcurrency \in Nat \ {0}
    /\ {StreamRest, Concurrency, BenchCount, MaxCounter, MaxFaults} \subseteq Nat

VARIABLES
    open,       \* calls of each queue whose message is not accepted yet
    accepted,   \* calls whose message is accepted and that await the answer
    late,       \* entries of answered or redirected calls that may still commit
    loop,       \* the producer: about to "tick" or to "acquire" a permit
    counter, permits, sent, failed,    \* its counters
    worker,     \* each worker of the consumer: "connect", "stream" or "sleep"
    abandoned,  \* messages that streams whose worker is gone may still pop
    bench,      \* "off", "running", "reported", or "aborted"
    todo,       \* the publishes each task of the bench has left
    calling,    \* the tasks of the bench that wait for an answer
    panicked,   \* the tasks of the bench that ended in a panic
    faults

producerVars == <<loop, counter, permits, sent, failed>>
consumerVars == <<worker, abandoned>>
benchVars    == <<bench, todo, calling, panicked>>
callVars     == <<open, accepted, late>>
vars == <<abstractVars, callVars, producerVars, consumerVars, benchVars, faults>>

Task == 1..BenchConcurrency

(* `count / concurrency`                                                   *)
PerTask == BenchCount \div BenchConcurrency

TypeOK ==
    /\ {open, accepted, late} \subseteq [Queue -> Nat]
    /\ loop \in {"tick", "acquire"}
    /\ permits \in 0..Concurrency
    /\ {counter, sent, failed, abandoned, faults} \subseteq Nat
    /\ worker \in [Worker -> {"connect", "stream", "sleep"}]
    /\ bench \in {"off", "running", "reported", "aborted"}
    /\ todo \in [Task -> 0..PerTask]
    /\ calling \subseteq Task /\ panicked \subseteq Task

Init ==
    /\ AbstractInit
    /\ open = [q \in Queue |-> 0] /\ accepted = open /\ late = open
    /\ loop = "tick" /\ counter = 0 /\ permits = Concurrency /\ sent = 0 /\ failed = 0
    /\ worker = [w \in Worker |-> "connect"] /\ abandoned = 0
    /\ bench = "off" /\ todo = [t \in Task |-> PerTask]
    /\ calling = {} /\ panicked = {}
    /\ faults = 0

-----------------------------------------------------------------------------
(* The cluster, as a publishing client meets it.                           *)

Up(f, q)   == [f EXCEPT ![q] = @ + 1]
Down(f, q) == [f EXCEPT ![q] = @ - 1]

Fault == faults < MaxFaults /\ faults' = faults + 1

Accepts(q, p) ==
    /\ open[q] > 0
    /\ Accept(q, p)
    /\ open' = Down(open, q) /\ accepted' = Up(accepted, q)
    /\ UNCHANGED <<late, producerVars, consumerVars, benchVars, faults>>

(* An entry nobody waits for commits, or is never to commit.               *)
SettlesLate(q, p) ==
    /\ late[q] > 0
    /\ late' = Down(late, q)
    /\ Accept(q, p) \/ UNCHANGED abstractVars
    /\ UNCHANGED <<open, accepted, producerVars, consumerVars, benchVars, faults>>

(* The proposer was deposed after it had appended, and forwards the call.  *)
Redirect(q) ==
    /\ Fault
    /\ open[q] > 0
    /\ late' = Up(late, q)
    /\ UNCHANGED <<abstractVars, open, accepted, producerVars, consumerVars, benchVars>>

CallReturnsOk(q) ==
    /\ accepted[q] > 0
    /\ accepted' = Down(accepted, q)
    /\ UNCHANGED <<open, late, faults>>

CallReturnsErr(q) ==
    /\ Fault
    /\ \/ open[q] > 0 /\ open' = Down(open, q) /\ late' = Up(late, q) /\ UNCHANGED accepted
       \/ accepted[q] > 0 /\ accepted' = Down(accepted, q) /\ UNCHANGED <<open, late>>

-----------------------------------------------------------------------------
(* The producer.                                                           *)

Tick ==
    /\ loop = "tick" /\ counter < MaxCounter
    /\ loop' = "acquire" /\ counter' = counter + 1
    /\ UNCHANGED <<abstractVars, callVars, permits, sent, failed, consumerVars, benchVars, faults>>

(* `acquire_owned`, then the task that publishes.                          *)
SpawnPublish ==
    /\ loop = "acquire" /\ permits > 0
    /\ loop' = "tick" /\ permits' = permits - 1
    /\ open' = Up(open, Spam)
    /\ UNCHANGED <<abstractVars, accepted, late, counter, sent, failed, consumerVars, benchVars,
                   faults>>

(* Mutant: only a publish that went well gives its permit back.            *)
PermitsAfter_OkOnly(ok) == IF ok THEN permits + 1 ELSE permits

(* Mutant: the task also gives the permit back by hand.                    *)
PermitsAfter_Twice(ok) == permits + 2

(* `_permit` goes with the task, whatever the answer.                      *)
PermitsAfter(ok) == permits + 1

PublishOk ==
    /\ CallReturnsOk(Spam)
    /\ sent' = sent + 1
    /\ permits' = PermitsAfter(TRUE)
    /\ UNCHANGED <<abstractVars, loop, counter, failed, consumerVars, benchVars>>

(* Mutant: failures are counted with the rest.                             *)
SentAfterErr_Counted == sent + 1

SentAfterErr == sent

PublishErr ==
    /\ CallReturnsErr(Spam)
    /\ failed' = failed + 1
    /\ sent' = SentAfterErr
    /\ permits' = PermitsAfter(FALSE)
    /\ UNCHANGED <<abstractVars, loop, counter, consumerVars, benchVars>>

-----------------------------------------------------------------------------
(* The consumer: `run` in a loop, with a pause.                            *)

Connect(w) ==
    /\ worker[w] = "connect"
    /\ worker' = [worker EXCEPT ![w] = "stream"]
    /\ UNCHANGED <<abstractVars, callVars, producerVars, abandoned, benchVars, faults>>

ConnectFails(w) ==
    /\ Fault
    /\ worker[w] = "connect"
    /\ worker' = [worker EXCEPT ![w] = "sleep"]
    /\ UNCHANGED <<abstractVars, callVars, producerVars, abandoned, benchVars>>

Streaming == \E w \in Worker : worker[w] = "stream"

(* A Pop loop of a worker's stream takes a message ...                     *)
PopForWorker ==
    /\ Streaming
    /\ Take(Spam)
    /\ UNCHANGED <<callVars, producerVars, consumerVars, benchVars, faults>>

(* ... or one of a stream whose worker is gone does: each of its loops may *)
(* take one, and more until its channel is full or closed (LossIsBounded). *)
PopForNobody ==
    /\ abandoned > 0
    /\ abandoned' = abandoned - 1
    /\ Discard(Spam)
    /\ UNCHANGED <<callVars, producerVars, worker, benchVars, faults>>

(* `stream.next()` answers an item.                                        *)
ReceiveNext ==
    /\ Streaming
    /\ \E m \in inflight[Spam] : Deliver(Spam, m)
    /\ UNCHANGED <<callVars, producerVars, consumerVars, benchVars, faults>>

(* `stream.next()` answers None: `run` returns Ok. What was on its way     *)
(* through this stream is gone, and the broker has not noticed yet.        *)
StreamEnds(w) ==
    /\ Fault
    /\ worker[w] = "stream"
    /\ worker' = [worker EXCEPT ![w] = "sleep"]
    /\ abandoned' = abandoned + StreamRest
    /\ \E gone \in SUBSET inflight[Spam] :
        /\ (\A v \in Worker \ {w} : worker[v] # "stream") => gone = inflight[Spam]
        /\ Lose([q \in Queue |-> IF q = Spam THEN gone ELSE {}])
    /\ UNCHANGED <<callVars, producerVars, benchVars>>

(* Mutant: a stream that ended without an error ends the worker.           *)
AfterSleep_Ends == "sleep"

AfterSleep == "connect"

WakeUp(w) ==
    /\ worker[w] = "sleep"
    /\ worker' = [worker EXCEPT ![w] = AfterSleep]
    /\ UNCHANGED <<abstractVars, callVars, producerVars, abandoned, benchVars, faults>>

-----------------------------------------------------------------------------
(* The bench.                                                              *)

StartBench ==
    /\ bench = "off"
    /\ bench' = "running"
    /\ UNCHANGED <<abstractVars, callVars, producerVars, consumerVars, todo, calling, panicked,
                   faults>>

BenchCall(t) ==
    /\ bench = "running" /\ t \notin calling \cup panicked /\ todo[t] > 0
    /\ calling' = calling \cup {t}
    /\ open' = Up(open, Bench)
    /\ UNCHANGED <<abstractVars, accepted, late, producerVars, consumerVars, bench, todo, panicked,
                   faults>>

(* Mutant: the result of `publish` is not looked at.                       *)
Panics_Never(ok) == FALSE

(* `expect("publish")`                                                     *)
Panics(ok) == ~ok

(* Task t has its answer: on to its next publish, unless it panics.        *)
TaskGoesOn(t, ok) ==
    /\ bench = "running" /\ t \in calling
    /\ calling' = calling \ {t}
    /\ todo' = IF Panics(ok) THEN todo ELSE Down(todo, t)
    /\ panicked' = IF Panics(ok) THEN panicked \cup {t} ELSE panicked
    /\ UNCHANGED <<abstractVars, producerVars, consumerVars, bench>>

BenchOk(t)  == CallReturnsOk(Bench) /\ TaskGoesOn(t, TRUE)
BenchErr(t) == CallReturnsErr(Bench) /\ TaskGoesOn(t, FALSE)

(* The handles are joined in order, while the other tasks publish on:      *)
(* `h.await?` of one that has panicked ends `main`, and them with it.      *)
BenchAbort(t) ==
    /\ bench = "running"
    /\ t \in panicked /\ \A u \in 1..(t - 1) : todo[u] = 0
    /\ bench' = "aborted"
    /\ UNCHANGED <<abstractVars, callVars, producerVars, consumerVars, todo, calling, panicked,
                   faults>>

(* Every handle is joined: `sent {per_task * concurrency} messages`.       *)
BenchReport ==
    /\ bench = "running"
    /\ \A t \in Task : todo[t] = 0
    /\ bench' = "reported"
    /\ UNCHANGED <<abstractVars, callVars, producerVars, consumerVars, todo, calling, panicked,
                   faults>>

ClusterStep == \E q \in Queue, p \in Payload : Accepts(q, p) \/ SettlesLate(q, p)

Next ==
    \/ ClusterStep \/ \E q \in Queue : Redirect(q)
    \/ Tick \/ SpawnPublish \/ PublishOk \/ PublishErr
    \/ \E w \in Worker : Connect(w) \/ ConnectFails(w) \/ StreamEnds(w) \/ WakeUp(w)
    \/ PopForWorker \/ PopForNobody \/ ReceiveNext
    \/ StartBench \/ BenchReport
    \/ \E t \in Task : BenchCall(t) \/ BenchOk(t) \/ BenchErr(t) \/ BenchAbort(t)

Spec == Init /\ [][Next]_vars

(* Timers fire, tasks are run, and the cluster answers (EveryCallAnswered, *)
(* EveryMessageSettles).                                                   *)
FairSpec ==
    /\ Spec
    /\ WF_vars(ClusterStep) /\ WF_vars(PopForWorker) /\ WF_vars(ReceiveNext)
    /\ WF_vars(Tick) /\ WF_vars(SpawnPublish) /\ WF_vars(PublishOk)
    /\ \A w \in Worker : WF_vars(Connect(w)) /\ WF_vars(WakeUp(w))

-----------------------------------------------------------------------------
Count(q) == state.next_offset[q]

(* The throughput lines are true of the cluster, at any instant and after  *)
(* any fault: a message counted as sent is in the queue's history, and the *)
(* queue has no more than were asked for, redirects aside.                 *)
ThroughputIsBacked ==
    /\ sent + accepted[Spam] <= Count(Spam)
    /\ Count(Spam) <= sent + failed + accepted[Spam] + faults

(* What the bench reports as sent, the cluster has acknowledged.           *)
BenchReportIsTrue ==
    bench = "reported" => /\ Count(Bench) >= PerTask * BenchConcurrency
                          /\ calling = {}

(* "handled per-attempt below rather than blocking startup": every message *)
(* the producer makes ends as sent or failed, so errors never stop it.     *)
ProducerKeepsGoing == <>(sent + failed = MaxCounter)

(* "consume stream ended, reconnecting": whatever connections break, in    *)
(* the end nothing is left in the queue or on its way.                     *)
ConsumerDrainsTheQueue == <>[](state.queues[Spam] = <<>> /\ inflight[Spam] = {})
=============================================================================

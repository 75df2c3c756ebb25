---------------------------- MODULE PairBenchmark -----------------------------
(***************************************************************************)
(* cmd/bench_signaling/main.go: a coordinator has agents run pairs of a    *)
(* callee and a caller, each caller posts its result back, and the         *)
(* coordinator waits for as many results as there are pairs, or for a      *)
(* timeout.  A role is posted to the agents in turn until one accepts it:  *)
(* when only the answer to a POST is lost, the role runs at two agents.    *)
(* POSTs have no timeout: an agent that takes the connection and does not  *)
(* answer holds the coordinator up for good, before it starts its timer.   *)
(*                                                                         *)
(* How a caller and a callee signal is in CentralSignaling and             *)
(* DhtSignaling; here an offer is answered or not.                         *)
(***************************************************************************)
EXTENDS Integers, FiniteSets

CONSTANTS
  NumPairs,   \* the flag pairs
  NumAgents,  \* agents, in the order of the flag agents
  MaxFaults   \* bound: requests and answers that are lost or never come

ASSUME BenchmarkSizes == {NumPairs, NumAgents} \subseteq Nat \ {0} /\ MaxFaults \in Nat

VARIABLES
  dead,       \* agents that do not run
  staggered,  \* callers are dispatched one after another (dht, more than 10 pairs)
  phase,      \* where runCoordinator is
  attempt,    \* per role and pair: the attempt that comes next
  dispatch,   \* per role and pair: what the loop of attempts has come to
  running,    \* executions of executePairRole
  answered,   \* pairs whose offer a callee has answered
  posting,    \* results on their way to the coordinator
  results,
  done,       \* the channel done is full
  outcome,    \* what the coordinator reports
  started,    \* history: executions that were started
  faults      \* history: number of faults

coordinator == <<phase, attempt, dispatch>>
collected == <<results, done>>
environment == <<dead, staggered, faults>>
pairVars == <<dead, staggered, phase, attempt, dispatch, running, answered, posting, results, done,
          outcome, started, faults>>

Pairs == 0 .. NumPairs - 1
Agents == 0 .. NumAgents - 1
Roles == {"callee", "caller"}
Jobs == Roles \X Pairs

\* An execution is known by the attempt that started it.
Execution(j, a) == [role |-> j[1], pair |-> j[2], attempt |-> a]
Executions == [role : Roles, pair : Pairs, attempt : Agents]

\* A result, from an execution or, with attempt -1, from the coordinator itself.
Result(p, a, ok) == [pair |-> p, attempt |-> a, ok |-> ok]
Results == [pair : Pairs, attempt : Agents \cup {-1}, ok : BOOLEAN]

\* The agent that attempt a of job j goes to.
AgentFor(j, a) ==
  (j[2] + (IF j[1] = "caller" THEN (NumAgents + 1) \div 2 ELSE 0) + a) % NumAgents

PairInit ==
  /\ dead \in SUBSET Agents
  /\ staggered \in BOOLEAN
  /\ phase = "callee"
  /\ attempt = [j \in Jobs |-> 0]
  /\ dispatch = [j \in Jobs |-> "open"]
  /\ running = {} /\ answered = {} /\ posting = {}
  /\ results = {} /\ done = FALSE /\ outcome = "none"
  /\ started = {} /\ faults = 0

MayFail == faults < MaxFaults

\* Mutant of RecordResult: counted one too many.
RecordResultEarly(res) ==
  /\ results' = results \cup {res}
  /\ done' = (done \/ Cardinality(results') + 1 >= NumPairs)

\* recordResult: appended, and counted.
RecordResult(res) ==
  /\ results' = results \cup {res}
  /\ done' = (done \/ Cardinality(results') >= NumPairs)

\* The loop of attempts of job j is over.
Dispatched(j) == dispatch[j] \in {"accepted", "failed"}

\* The loop of job j may make its next attempt.
Due(j) ==
  /\ phase = j[1]
  /\ dispatch[j] = "open" /\ attempt[j] < NumAgents
  /\ (staggered /\ j[1] = "caller") => \A p \in 0 .. j[2] - 1 : Dispatched(<<"caller", p>>)

\* The request arrives, and handleRunPair starts the role.
Starts(j) ==
  LET x == Execution(j, attempt[j]) IN
  /\ AgentFor(j, attempt[j]) \notin dead
  /\ running' = running \cup {x}
  /\ started' = started \cup {x}

\* The agent accepts the job, and its answer arrives.
Accepted(j) ==
  /\ Due(j) /\ Starts(j)
  /\ dispatch' = [dispatch EXCEPT ![j] = "accepted"]
  /\ UNCHANGED <<environment, phase, attempt, answered, posting, collected, outcome>>

\* tryPostJSON fails: the agent is dead, the request is lost, or the agent has
\* accepted the job and its answer is lost.  The next agent is tried.
PostFails(j) ==
  /\ Due(j)
  /\ \/ AgentFor(j, attempt[j]) \in dead /\ UNCHANGED <<running, started, faults>>
     \/ /\ MayFail /\ faults' = faults + 1
        /\ Starts(j) \/ UNCHANGED <<running, started>>
  /\ attempt' = [attempt EXCEPT ![j] = @ + 1]
  /\ UNCHANGED <<dead, staggered, phase, dispatch, answered, posting, collected, outcome>>

\* The POST never ends: the agent, whether it has started the role or not, keeps
\* the connection and does not answer.  (A POST that ends late is made late.)
PostHangs(j) ==
  /\ Due(j) /\ AgentFor(j, attempt[j]) \notin dead
  /\ MayFail /\ faults' = faults + 1
  /\ Starts(j) \/ UNCHANGED <<running, started>>
  /\ dispatch' = [dispatch EXCEPT ![j] = "hanging"]
  /\ UNCHANGED <<dead, staggered, phase, attempt, answered, posting, collected, outcome>>

\* Mutant of AllFailed: a caller that nobody has accepted is passed over.
AllFailedSilently(j) ==
  /\ dispatch[j] = "open" /\ attempt[j] = NumAgents
  /\ dispatch' = [dispatch EXCEPT ![j] = "failed"]
  /\ UNCHANGED <<environment, phase, attempt, running, answered, posting, collected, outcome, started>>

\* No agent has accepted the job: for a caller, that is the result of the pair.
AllFailed(j) ==
  /\ dispatch[j] = "open" /\ attempt[j] = NumAgents
  /\ dispatch' = [dispatch EXCEPT ![j] = "failed"]
  /\ IF j[1] = "caller" THEN RecordResult(Result(j[2], -1, FALSE)) ELSE UNCHANGED collected
  /\ UNCHANGED <<environment, phase, attempt, running, answered, posting, outcome, started>>

\* wg.Wait of the loops of one role: the callers come after all callees.
RoleDispatched ==
  /\ phase \in Roles
  /\ \A p \in Pairs : Dispatched(<<phase, p>>)
  /\ phase' = IF phase = "callee" THEN "caller" ELSE "waiting"
  /\ UNCHANGED <<environment, attempt, dispatch, running, answered, posting, collected, outcome, started>>

\* A callee answers the offer of a caller of its pair.  The one of DHT
\* signaling returns then, the one of central signaling goes on listening.
CalleeAnswers(x) ==
  /\ x \in running /\ x.role = "callee"
  /\ \E y \in running : y.role = "caller" /\ y.pair = x.pair
  /\ answered' = answered \cup {x.pair}
  /\ running' \in {running, running \ {x}}
  /\ UNCHANGED <<environment, coordinator, posting, collected, outcome, started>>

\* The 60 s of a callee are over, or it cannot listen.
CalleeEnds(x) ==
  /\ x \in running /\ x.role = "callee"
  /\ running' = running \ {x}
  /\ UNCHANGED <<environment, coordinator, answered, posting, collected, outcome, started>>

\* A caller has its answer, though perhaps to the offer of another execution of
\* the same pair, or has failed; it posts its result.
CallerEnds(x) ==
  /\ x \in running /\ x.role = "caller"
  /\ running' = running \ {x}
  /\ \E ok \in {FALSE} \cup {x.pair \in answered} :
       posting' = posting \cup {Result(x.pair, x.attempt, ok)}
  /\ UNCHANGED <<environment, coordinator, answered, collected, outcome, started>>

\* The handler of /result, as long as the server runs.
ResultArrives(res) ==
  /\ res \in posting /\ phase # "written"
  /\ posting' = posting \ {res}
  /\ RecordResult(res)
  /\ UNCHANGED <<environment, coordinator, running, answered, outcome, started>>

\* The result cannot be posted: the caller takes no notice.
ResultIsLost(res) ==
  /\ res \in posting
  /\ \/ phase = "written" /\ UNCHANGED faults
     \/ MayFail /\ faults' = faults + 1
  /\ posting' = posting \ {res}
  /\ UNCHANGED <<dead, staggered, coordinator, running, answered, collected, outcome, started>>

\* Mutant of Waits: the coordinator has no timer.
WaitsForAll ==
  /\ phase = "waiting"
  /\ done /\ outcome' = "all"
  /\ phase' = "closing"
  /\ UNCHANGED <<environment, attempt, dispatch, running, answered, posting, collected, started>>

\* The select: enough results have been received, or the timer fires.
Waits ==
  /\ phase = "waiting"
  /\ \/ done /\ outcome' = "all"
     \/ outcome' = "timeout"
  /\ phase' = "closing"
  /\ UNCHANGED <<environment, attempt, dispatch, running, answered, posting, collected, started>>

\* srv.Shutdown has let handlers end, and the results are written to the file.
Writes ==
  /\ phase = "closing"
  /\ phase' = "written"
  /\ UNCHANGED <<environment, attempt, dispatch, running, answered, posting, collected, outcome, started>>

PairNext ==
  \/ \E j \in Jobs : Accepted(j)
  \/ \E j \in Jobs : PostFails(j)
  \/ \E j \in Jobs : PostHangs(j)
  \/ \E j \in Jobs : AllFailed(j)
  \/ RoleDispatched
  \/ \E x \in running : CalleeAnswers(x)
  \/ \E x \in running : CalleeEnds(x)
  \/ \E x \in running : CallerEnds(x)
  \/ \E res \in posting : ResultArrives(res)
  \/ \E res \in posting : ResultIsLost(res)
  \/ Waits
  \/ Writes

\* Every POST ends or hangs, and the timer fires once it is started; agents need
\* not go on with the roles that they run.
PairFairness ==
  /\ \A j \in Jobs : WF_pairVars(Accepted(j) \/ PostFails(j) \/ PostHangs(j) \/ AllFailed(j))
  /\ WF_pairVars(RoleDispatched \/ Waits \/ Writes)

PairSpec == PairInit /\ [][PairNext]_pairVars /\ PairFairness

-----------------------------------------------------------------------------

PairTyped ==
  /\ dead \subseteq Agents /\ staggered \in BOOLEAN
  /\ phase \in Roles \cup {"waiting", "closing", "written"}
  /\ attempt \in [Jobs -> 0 .. NumAgents]
  /\ dispatch \in [Jobs -> {"open", "accepted", "hanging", "failed"}]
  /\ running \subseteq started /\ started \subseteq Executions
  /\ answered \subseteq Pairs
  /\ posting \subseteq Results /\ results \subseteq Results
  /\ done \in BOOLEAN /\ outcome \in {"none", "all", "timeout"}
  /\ faults \in 0 .. MaxFaults

HasResult(p) == \E res \in results : res.pair = p

Accounted(p) ==
  \/ HasResult(p)
  \/ \E res \in posting : res.pair = p
  \/ \E x \in running : x.role = "caller" /\ x.pair = p

\* Once all callers are dispatched, every pair is accounted for: it has a
\* result, or one will come from an execution that goes on.  A fault takes at
\* most one pair out.
PairsAccounted ==
  phase \in {"waiting", "closing"} => Cardinality({p \in Pairs : ~Accounted(p)}) <= faults

\* A role runs at one agent only, and a fault adds at most one: a dead agent
\* makes no role run twice, nor makes it not run while another one is alive.
RunsOnce ==
  \A j \in Jobs :
    LET runs == {x \in started : x.role = j[1] /\ x.pair = j[2]} IN
    /\ Cardinality(runs) <= 1 + faults
    /\ (Dispatched(j) /\ dead # Agents /\ faults = 0) => Cardinality(runs) = 1

\* No pair gets lost on the way to an agent, and none runs twice without a fault.
PairsInv == PairTyped /\ PairsAccounted /\ RunsOnce

\* "all results received" (line 448) means a result of every pair, unless a
\* caller was given to a second agent after one had taken it, or was reported
\* as unreachable although one had: then a pair may count twice.
AllMeansAll ==
  outcome = "all" =>
    \/ \A p \in Pairs : HasResult(p)
    \/ \E x \in started : /\ x.role = "caller"
                          /\ attempt[<<x.role, x.pair>>] > x.attempt

\* The coordinator writes its file, whatever becomes of the pairs, unless a POST
\* hangs: tryPostJSON (line 535) has no timeout, and only the results have a timer.
CoordinatorEnds == <>(phase = "written" \/ \E j \in Jobs : dispatch[j] = "hanging")
=============================================================================

--------------------------- MODULE IterativeSearch ---------------------------
(***************************************************************************)
(* dht/logic.go: one call of Bootstrap, LookupNode, StoreValue or          *)
(* FindValue, and the goroutines it starts.  A search queries the Alpha    *)
(* nearest unvisited nodes of its shortlist at a time, waits for all of    *)
(* them, merges what they told into the shortlist, and stops when every    *)
(* entry of the shortlist has been visited.  StoreValue then sends the     *)
(* value to the StoreK nearest.                                            *)
(*                                                                         *)
(* The peers are the environment: each answers with any peers it may know, *)
(* with a value, or not at all.  The loop that launches the goroutines     *)
(* writes the map visited while those already launched read it: Answer     *)
(* lets such a read miss a write, MapRace is the abort of the Go runtime.  *)
(***************************************************************************)
EXTENDS KeySpace, SequencesExt

CONSTANTS
  Peers,   \* ids of the other nodes
  Target,  \* the key that is looked up (Bootstrap looks up Self)
  Alpha, StoreK

ASSUME SelfIsNoPeer == Peers \subseteq DHTKey \ {Self} /\ IsFiniteSet(Peers)
ASSUME TargetIsKey == Target \in DHTKey
ASSUME SearchWidths == {Alpha, StoreK} \subseteq Nat \ {0} /\ StoreK <= K

VARIABLES
  op,         \* the call
  table,      \* ids handed to rt.Add, the initial contents included
  pc,         \* where the calling goroutine is
  closest,    \* the shortlist, nearest first
  visited,
  toQuery,    \* the nodes of this round
  launched,   \* how many of them have been launched
  rpc,        \* the goroutine of each: idle, sent or done
  newNodes,   \* how often this round brought each node: its order is lost in the sort
  foundValue,
  cancelled,  \* ctx.Err() is not nil
  err         \* what the call returns as its error

searchVars == <<op, table, pc, closest, visited, toQuery, launched, rpc, newNodes,
          foundValue, cancelled, err>>

Ops == {"Bootstrap", "LookupNode", "StoreValue", "FindValue"}

target == IF op = "Bootstrap" THEN Self ELSE Target

NoNodes == [id \in Peers |-> 0]

Idle == [w \in 1 .. Alpha |-> "idle"]

-----------------------------------------------------------------------------

SearchInit ==
  /\ op \in Ops
  /\ table \in SUBSET Peers
  /\ pc = IF op = "Bootstrap" THEN "bootstrap" ELSE "start"
  /\ closest = <<>> /\ visited = {}
  /\ toQuery = <<>> /\ launched = 0 /\ rpc = Idle /\ newNodes = NoNodes
  /\ foundValue = FALSE /\ cancelled = FALSE /\ err = "none"

\* ctx is cancelled or its deadline passes.
Cancel ==
  /\ pc # "returned" /\ pc # "aborted"
  /\ ~cancelled
  /\ cancelled' = TRUE
  /\ UNCHANGED <<op, table, pc, closest, visited, toQuery, launched, rpc,
                 newNodes, foundValue, err>>

\* The search ends with error e: StoreValue goes on to store, unless it has an
\* error and no node; the other calls return.
EndSearch(e) ==
  IF op = "StoreValue" /\ ~(e # "none" /\ closest' = <<>>)
  THEN /\ pc' = "store"
       /\ toQuery' = Take(closest', StoreK)
       /\ rpc' = [w \in 1 .. Len(toQuery') |-> "sent"]
       /\ err' = "none"
  ELSE /\ pc' = "returned"
       /\ err' = e
       /\ UNCHANGED <<toQuery, rpc>>

\* Bootstrap hands its nodes to rt.Add (which ignores Self) and looks up Self.
AddBootstrapNodes ==
  /\ pc = "bootstrap"
  /\ \E nodes \in SUBSET (Peers \cup {Self}) :
       IF nodes = {} THEN /\ pc' = "returned" /\ err' = "empty"
                          /\ UNCHANGED table
                     ELSE /\ pc' = "start" /\ table' = table \cup (nodes \ {Self})
                          /\ UNCHANGED err
  /\ UNCHANGED <<op, closest, visited, toQuery, launched, rpc, newNodes,
                 foundValue, cancelled>>

\* FindValue meets the key in the storage of the node itself.
FoundLocally ==
  /\ pc = "start" /\ op = "FindValue"
  /\ foundValue' = TRUE
  /\ pc' = "returned"
  /\ UNCHANGED <<op, table, closest, visited, toQuery, launched, rpc, newNodes,
                 cancelled, err>>

\* rt.FindClosest gives the first shortlist.
Start ==
  /\ pc = "start"
  /\ closest' = Only(NearestFirst(table \X {1}, target, K), DHTKey \ {Self})
  /\ IF closest' = <<>> THEN EndSearch("empty")
                        ELSE pc' = "loop" /\ UNCHANGED <<toQuery, rpc, err>>
  /\ UNCHANGED <<op, table, visited, launched, newNodes, foundValue, cancelled>>

\* The context is looked at between two rounds only.
GiveUp ==
  /\ pc = "loop" /\ cancelled
  /\ closest' = closest
  /\ EndSearch("ctx")
  /\ UNCHANGED <<op, table, visited, launched, newNodes, foundValue, cancelled>>

\* Mutants of Unvisited: only the Alpha nearest are looked at; visited is not;
\* it only decides whether there is another round.
UnvisitedOfNearest == Only(Take(closest, Alpha), Peers \ visited)
UnvisitedOrNot == Take(closest, Alpha)
UnvisitedAndOthers == IF ToSet(closest) \subseteq visited THEN <<>> ELSE Take(closest, Alpha)

\* The entries of the shortlist to be queried next: one that is listed twice
\* is queried twice.
Unvisited == Take(Only(closest, Peers \ visited), Alpha)

BeginRound ==
  /\ pc = "loop" /\ ~cancelled
  /\ Unvisited # <<>>
  /\ pc' = "launch"
  /\ toQuery' = Unvisited
  /\ launched' = 0
  /\ rpc' = Idle
  /\ newNodes' = NoNodes
  /\ UNCHANGED <<op, table, closest, visited, foundValue, cancelled, err>>

\* Nothing is left to query.
Converged ==
  /\ pc = "loop" /\ ~cancelled
  /\ Unvisited = <<>>
  /\ closest' = closest
  /\ EndSearch(IF op = "FindValue" THEN "notfound" ELSE "none")
  /\ UNCHANGED <<op, table, visited, launched, newNodes, foundValue, cancelled>>

\* One turn of the launching loop.
Launch ==
  /\ pc = "launch"
  /\ launched' = launched + 1
  /\ visited' = visited \cup {toQuery[launched']}
  /\ rpc' = [rpc EXCEPT ![launched'] = "sent"]
  /\ pc' = IF launched' = Len(toQuery) THEN "wait" ELSE "launch"
  /\ UNCHANGED <<op, table, closest, toQuery, newNodes, foundValue, cancelled, err>>

Waiting(w) == pc \in {"launch", "wait"} /\ rpc[w] = "sent"

Done(w) == rpc' = [rpc EXCEPT ![w] = "done"]

\* Peer toQuery[w] answers with the nodes res, nearest first and at most K of
\* them (FindClosest of that peer, whose table never holds the peer itself);
\* none when a FindValue meets an empty table.
Answers(w) == {res \in SUBSET ((Peers \cup {Self}) \ {toQuery[w]}) : Cardinality(res) <= K}

\* Writes to visited that goroutine w, started before them, may not see.
Unseen(w) == {toQuery[j] : j \in w + 1 .. launched} \ {toQuery[j] : j \in 1 .. w}

\* Goroutine w gets an answer, takes mu, and hands every node but Self to
\* rt.Add and, when it finds it unvisited, to newNodes.
Answer(w) ==
  /\ Waiting(w)
  /\ \E res \in Answers(w), missed \in SUBSET Unseen(w) :
       LET known == res \ {Self} IN
       /\ missed \subseteq known
       /\ table' = table \cup known
       /\ newNodes' = [id \in Peers |-> IF id \in known \ (visited \ missed)
                                         THEN newNodes[id] + 1 ELSE newNodes[id]]
  /\ Done(w)
  /\ UNCHANGED <<op, pc, closest, visited, toQuery, launched, foundValue,
                 cancelled, err>>

\* Peer toQuery[w] answers with a value.
AnswerValue(w) ==
  /\ Waiting(w)
  /\ op = "FindValue"
  /\ foundValue' = TRUE
  /\ Done(w)
  /\ UNCHANGED <<op, table, pc, closest, visited, toQuery, launched, newNodes,
                 cancelled, err>>

\* The request times out, or the peer reports an error.
Fail(w) ==
  /\ Waiting(w)
  /\ Done(w)
  /\ UNCHANGED <<op, table, pc, closest, visited, toQuery, launched, newNodes,
                 foundValue, cancelled, err>>

\* The runtime catches a goroutine reading visited while the loop writes it.
MapRace(w) ==
  /\ pc = "launch" /\ rpc[w] = "sent"
  /\ pc' = "aborted"
  /\ UNCHANGED <<op, table, closest, visited, toQuery, launched, rpc, newNodes,
                 foundValue, cancelled, err>>

\* Mutant of Appended: a shortlist that is full takes no new nodes.
AppendedToRoom ==
  {e \in Peers \X (1 .. K + Alpha) :
     \/ e[2] \in DOMAIN closest /\ closest[e[2]] = e[1]
     \/ Len(closest) < K /\ e[2] \in K + 1 .. K + newNodes[e[1]]}

\* append(closest, newNodes...): each entry is a node and a number, its place
\* in closest or, beyond K, its number among the new entries of that node.
Appended ==
  {e \in Peers \X (1 .. K + Alpha) :
     \/ e[2] \in DOMAIN closest /\ closest[e[2]] = e[1]
     \/ e[2] \in K + 1 .. K + newNodes[e[1]]}

\* The next shortlist: append, sort and cut.
Merged == NearestFirst(Appended, target, K)

\* Mutant of EndRound: the context is looked at before the value.
EndRoundCancelled ==
  /\ pc = "wait"
  /\ \A w \in 1 .. Len(toQuery) : rpc[w] = "done"
  /\ IF foundValue /\ ~cancelled
     THEN closest' = <<>> /\ EndSearch("none")
     ELSE closest' = Merged /\ pc' = "loop" /\ UNCHANGED <<toQuery, rpc, err>>
  /\ UNCHANGED <<op, table, visited, launched, newNodes, foundValue, cancelled>>

\* wg.Wait returns: a value ends the search, else the nodes are merged.
EndRound ==
  /\ pc = "wait"
  /\ \A w \in 1 .. Len(toQuery) : rpc[w] = "done"
  /\ IF foundValue
     THEN closest' = <<>> /\ EndSearch("none")
     ELSE closest' = Merged /\ pc' = "loop" /\ UNCHANGED <<toQuery, rpc, err>>
  /\ UNCHANGED <<op, table, visited, launched, newNodes, foundValue, cancelled>>

\* The Store request to toQuery[w] ends; its error, if any, is dropped.
StoreAt(w) ==
  /\ pc = "store" /\ rpc[w] = "sent"
  /\ Done(w)
  /\ UNCHANGED <<op, table, pc, closest, visited, toQuery, launched, newNodes,
                 foundValue, cancelled, err>>

StoreReturns ==
  /\ pc = "store"
  /\ \A w \in DOMAIN rpc : rpc[w] = "done"
  /\ pc' = "returned"
  /\ UNCHANGED <<op, table, closest, visited, toQuery, launched, rpc, newNodes,
                 foundValue, cancelled, err>>

Workers == DOMAIN rpc

Caller ==
  \/ AddBootstrapNodes \/ FoundLocally \/ Start \/ GiveUp \/ BeginRound
  \/ Converged \/ Launch \/ EndRound \/ StoreReturns

Worker(w) == Answer(w) \/ AnswerValue(w) \/ Fail(w) \/ StoreAt(w)

Ended == pc \in {"returned", "aborted"} /\ UNCHANGED searchVars

SearchNext ==
  \/ Cancel
  \/ AddBootstrapNodes
  \/ FoundLocally
  \/ Start
  \/ GiveUp
  \/ BeginRound
  \/ Converged
  \/ Launch
  \/ EndRound
  \/ StoreReturns
  \/ \E w \in Workers : Answer(w)
  \/ \E w \in Workers : AnswerValue(w)
  \/ \E w \in Workers : Fail(w)
  \/ \E w \in Workers : StoreAt(w)
  \/ \E w \in Workers : MapRace(w)
  \/ Ended

\* The calling goroutine runs, and every request ends: it is answered, or the
\* timeout of the transport ends it.
Fairness == WF_searchVars(Caller) /\ \A w \in 1 .. Alpha + StoreK : WF_searchVars(w \in Workers /\ Worker(w))

SearchSpec == SearchInit /\ [][SearchNext]_searchVars /\ Fairness

-----------------------------------------------------------------------------

SearchTyped ==
  /\ op \in Ops
  /\ table \subseteq Peers
  /\ pc \in {"bootstrap", "start", "loop", "launch", "wait", "store", "returned", "aborted"}
  /\ closest \in Seq(Peers) /\ Len(closest) <= K
  /\ visited \subseteq Peers
  /\ toQuery \in Seq(Peers)
  /\ Len(toQuery) <= IF op = "StoreValue" /\ pc \in {"store", "returned"} THEN Alpha + StoreK ELSE Alpha
  /\ launched \in 0 .. Alpha
  /\ \A w \in Workers : rpc[w] \in {"idle", "sent", "done"}
  /\ newNodes \in [Peers -> Nat]
  /\ foundValue \in BOOLEAN /\ cancelled \in BOOLEAN
  /\ err \in {"none", "empty", "ctx", "notfound"}

\* list is in order of distance, and whatever the node has learned of and is
\* not in it is farther than all of its n entries.
NearestOf(list, n) ==
  /\ \A i, j \in DOMAIN list : i < j => ~Closer(list[j], list[i], target)
  /\ \A id \in table \ ToSet(list) :
       Len(list) = n /\ Closer(list[n], id, target)

\* Between two rounds the shortlist is the nearest of all that was learned, in
\* spite of failed peers, repeated entries and missed writes to visited.
ShortlistIsNearest == pc = "loop" => NearestOf(closest, K)

\* StoreValue passes over no peer that is nearer than the ones it stores at,
\* also when the context ended the search early (lines 32-37).
StoresAtNearest ==
  pc = "store" => toQuery # <<>> /\ NearestOf(toQuery, StoreK)

\* What a round starts from, and what a search leaves to StoreValue, is the
\* nearest of all that was learned; and the state is typed.
ShortlistInv == SearchTyped /\ ShortlistIsNearest /\ StoresAtNearest

\* A lookup that reports no error, and a FindValue that reports ErrNotFound,
\* have queried every peer they learned of, those beyond a full shortlist
\* excepted.
SearchIsComplete ==
  (pc = "returned" /\ closest # <<>>
     /\ op # "StoreValue"
     /\ err = IF op = "FindValue" THEN "notfound" ELSE "none")
  => \A id \in table \ visited : Len(closest) = K /\ Closer(closest[K], id, target)

\* FindValue returns a value exactly when a peer, or its own storage, gave
\* one: a value is not lost to a cancellation or to other answers of its round.
ValueIsReturned ==
  (pc = "returned" /\ op = "FindValue") => (err = "none" <=> foundValue)

\* A peer is queried again only in the same round, as a repeated entry of it.
OneRoundPerPeer ==
  [][(pc = "launch" /\ launched' = launched + 1 /\ toQuery[launched'] \in visited)
       => \E w \in 1 .. launched : toQuery[w] = toQuery[launched']]_searchVars

\* The call returns, however many peers fail, are learned of late, or are
\* listed twice.
Terminates == <>(pc \in {"returned", "aborted"})
=============================================================================

------------------------ MODULE HealthService_proofs ------------------------
(***************************************************************************)
(* Theorems about HealthService, for any finite set of dependencies, any   *)
(* set of requests, any timeout and either meaning of a stale transport.   *)
(***************************************************************************)
EXTENDS HealthService, FiniteSetTheorems, TLAPS

(* Unread is apart from all that a request may read of the ingest service. *)
LEMMA UnreadIsApart ==
  \A state \in States, stale \in BOOLEAN : [state |-> state, stale |-> stale] # Unread
<1>1. "unread" \notin States
  BY DEF States
<1> QED BY <1>1 DEF Unread
-----------------------------------------------------------------------------
(* Types, and with them the answer in time: a request at its deadline lets *)
(* no tick pass.                                                           *)

LEMMA InitType == Init => TypeOK
<1> SUFFICES ASSUME Init PROVE TypeOK
  OBVIOUS
<1>1. NotOpen \in NotOpen..Timeout
  BY TimeoutIsPositive DEF NotOpen
<1>2. waited \in [Requests -> NotOpen..Timeout]
  BY <1>1 DEF Init
<1>3. results \in [Requests -> [Deps -> {"pending", "up", "down"}]]
  BY DEF Init, NoResults
<1>4. gauges \in [dependency : [Deps -> {0, 1}], state : [States -> {0, 1}]]
  BY DEF Init, NoGauges
<1>5. seen \in [Requests -> [state : States, stale : BOOLEAN] \cup {Unread}]
  BY DEF Init
<1> QED BY <1>2, <1>3, <1>4, <1>5 DEF Init, TypeOK, States

LEMMA NextType == TypeOK /\ [Next]_vars => TypeOK'
<1> SUFFICES ASSUME TypeOK, [Next]_vars PROVE TypeOK'
  OBVIOUS
<1> USE TimeoutIsPositive DEF TypeOK
<1>1. ASSUME NEW service \in Deps \cup {"ingest"}, Register(service) PROVE TypeOK'
  BY <1>1 DEF Register, world, request, history
<1>2. ASSUME NEW d \in Deps, DependencyChanges(d) PROVE TypeOK'
  BY <1>2 DEF DependencyChanges, request
<1>3. CASE TransportChanges
  BY <1>3 DEF TransportChanges, request
<1>4. CASE FreshnessChanges
  BY <1>4 DEF FreshnessChanges, request, history
<1>5. ASSUME NEW r \in Requests, Begin(r) PROVE TypeOK'
  BY <1>5 DEF Begin, NotOpen, world, history
<1>6. ASSUME NEW r \in Requests, ReadIngest(r) PROVE TypeOK'
  <2>1. IngestHealth \in [state : States, stale : BOOLEAN]
    BY DEF IngestHealth, States
  <2> QED BY <1>6, <2>1 DEF ReadIngest, world, history
<1>7. ASSUME NEW r \in Requests, End(r),
             UNCHANGED <<registered, world, history>>,
             ready' \in [Requests -> BOOLEAN],
             gauges' \in [dependency : [Deps -> {0, 1}], state : [States -> {0, 1}]]
      PROVE  TypeOK'
  BY <1>7 DEF End, NotOpen, NoResults, world, history
<1>8. ASSUME NEW r \in Requests, AnswerReadiness(r) PROVE TypeOK'
  <2>1. IngestUp(seen[r]) \in BOOLEAN
    BY DEF IngestUp
  <2> QED BY <1>7, <1>8, <2>1 DEF AnswerReadiness
<1>9. ASSUME NEW r \in Requests, AnswerScrape(r) PROVE TypeOK'
  BY <1>7, <1>9 DEF AnswerScrape, StateSet
<1>10. ASSUME NEW r \in Requests, AnswerStatus(r) PROVE TypeOK'
  BY <1>7, <1>10 DEF AnswerStatus
<1>11. ASSUME NEW r \in Requests, NEW d \in Deps, PingEnds(r, d) \/ TimesOut(r, d)
       PROVE  TypeOK'
  <2>1. \E result \in {"pending", "up", "down"} :
          results' = [results EXCEPT ![r][d] = result]
    BY <1>11 DEF PingEnds, Pinged, TimesOut
  <2>2. results' \in [Requests -> [Deps -> {"pending", "up", "down"}]]
    BY <2>1
  <2> QED BY <1>11, <2>2 DEF PingEnds, TimesOut, world, history
<1>12. CASE Tick
  <2>1. \A r \in Requests : Open(r) => waited[r] < Timeout
    BY <1>12 DEF Tick, Due, Deadline, NotOpen
  <2>2. waited' \in [Requests -> NotOpen..Timeout]
    BY <1>12, <2>1 DEF Tick, Open, NotOpen
  <2> QED BY <1>12, <2>2 DEF Tick, Longer, world
<1>13. CASE UNCHANGED vars
  BY <1>13 DEF vars, world, request, history
<1> QED
  BY <1>1, <1>2, <1>3, <1>4, <1>5, <1>6, <1>8, <1>9, <1>10, <1>11, <1>12, <1>13 DEF Next

(* The variables of the aggregation keep their types.                      *)
THEOREM TypeCorrect == Spec => []TypeOK
BY InitType, NextType, PTL DEF Spec
-----------------------------------------------------------------------------
(* The gauges of the ingest state are written together.                    *)

GaugesAreASet == gauges = NoGauges \/ \E state \in States : gauges.state = StateSet(state)

LEMMA NextGauges == TypeOK /\ GaugesAreASet /\ [Next]_vars => GaugesAreASet'
<1> SUFFICES ASSUME TypeOK, GaugesAreASet, [Next]_vars PROVE GaugesAreASet'
  OBVIOUS
<1>1. CASE UNCHANGED gauges
  BY <1>1 DEF GaugesAreASet
<1>2. ASSUME NEW r \in Requests, AnswerScrape(r) PROVE GaugesAreASet'
  <2>1. seen[r].state \in States
    BY <1>2 DEF AnswerScrape, TypeOK
  <2>2. gauges'.state = StateSet(seen[r].state)
    BY <1>2 DEF AnswerScrape
  <2> QED BY <2>1, <2>2 DEF GaugesAreASet
<1> QED
  BY <1>1, <1>2
     DEF Next, vars, Register, DependencyChanges, TransportChanges, FreshnessChanges,
         Begin, ReadIngest, AnswerReadiness, AnswerStatus, PingEnds, TimesOut, Tick

(* After the first scrape exactly one state of the transport is shown,     *)
(* however many scrapes of whichever states came before.                   *)
THEOREM OneStateIsShown == Spec => []OneStateIsActive
<1>1. Init => GaugesAreASet
  BY DEF Init, GaugesAreASet
<1>2. GaugesAreASet => OneStateIsActive
  <2> SUFFICES ASSUME NEW state \in States, gauges.state = StateSet(state)
               PROVE  Cardinality({s \in States : gauges.state[s] = 1}) = 1
    BY DEF GaugesAreASet, OneStateIsActive
  <2>1. {s \in States : gauges.state[s] = 1} = {state}
    BY DEF StateSet
  <2> QED BY <2>1, FS_Singleton
<1> QED BY <1>1, <1>2, TypeCorrect, NextGauges, PTL DEF Spec
-----------------------------------------------------------------------------
(* What an answer rests on is not old.  A probe that came back up was up   *)
(* at some time since the request began.  A transport that was read        *)
(* connected was so in this tick, because a request that has gathered its  *)
(* probes is due, and no tick passes before it is answered.                *)

HistoriesStartOver ==
  /\ \A d \in Deps : reachable[d] = "up" => downFor[d] = 0
  /\ transport = "connected" => cutFor = 0
UpSinceBegin ==
  \A r \in Requests, d \in Deps : results[r][d] = "up" => Open(r) /\ downFor[d] <= waited[r]
ReadWhenGathered ==
  \A r \in Requests : seen[r] # Unread => /\ Open(r) /\ Gathered(r)
                                          /\ seen[r].state = "connected" => cutFor = 0
FreshInv == TypeOK /\ HistoriesStartOver /\ UpSinceBegin /\ ReadWhenGathered

LEMMA InitFresh == Init => FreshInv
BY InitType DEF Init, FreshInv, HistoriesStartOver, UpSinceBegin, ReadWhenGathered, NoResults

LEMMA NextFresh == FreshInv /\ [Next]_vars => FreshInv'
<1> SUFFICES ASSUME FreshInv, [Next]_vars PROVE FreshInv'
  OBVIOUS
<1>1. TypeOK /\ TypeOK'
  BY NextType DEF FreshInv
<1> USE DEF FreshInv, HistoriesStartOver, UpSinceBegin, ReadWhenGathered, Open, Gathered
<1>2. ASSUME NEW service \in Deps \cup {"ingest"}, Register(service) PROVE FreshInv'
  BY <1>1, <1>2 DEF Register, world, request, history
<1>3. ASSUME NEW d \in Deps, DependencyChanges(d) PROVE FreshInv'
  <2>1. downFor'[d] \in {0, downFor[d]} /\ (reachable'[d] = "up" => downFor'[d] = 0)
    BY <1>1, <1>3 DEF DependencyChanges, TypeOK
  <2>2. \A e \in Deps \ {d} : downFor'[e] = downFor[e] /\ reachable'[e] = reachable[e]
    BY <1>1, <1>3 DEF DependencyChanges, TypeOK
  <2>3. \A e \in Deps : downFor'[e] <= downFor[e]
    <3> TAKE e \in Deps
    <3>1. downFor[e] \in Nat /\ (e = d \/ e \in Deps \ {d})
      BY <1>1 DEF TypeOK
    <3> QED BY <2>1, <2>2, <3>1
  <2>4. \A r \in Requests : waited[r] \in NotOpen..Timeout
    BY <1>1 DEF TypeOK
  <2>5. HistoriesStartOver'
    BY <1>3, <2>1, <2>2 DEF DependencyChanges
  <2>6. UpSinceBegin'
    BY <1>1, <1>3, <2>3, <2>4, TimeoutIsPositive
       DEF DependencyChanges, request, TypeOK, NotOpen
  <2> QED BY <1>1, <1>3, <2>5, <2>6 DEF DependencyChanges, request
<1>4. CASE TransportChanges
  BY <1>1, <1>4 DEF TransportChanges, request
<1>5. CASE FreshnessChanges
  BY <1>1, <1>5 DEF FreshnessChanges, request, history
<1>6. ASSUME NEW r \in Requests, Begin(r) PROVE FreshInv'
  BY <1>1, <1>6 DEF Begin, world, history, NotOpen, TypeOK
<1>7. ASSUME NEW r \in Requests, ReadIngest(r) PROVE FreshInv'
  <2>1. IngestHealth.state = "connected" => cutFor = 0
    BY DEF IngestHealth
  <2> QED BY <1>1, <1>7, <2>1 DEF ReadIngest, world, history, TypeOK
<1>8. ASSUME NEW r \in Requests, AnswerReadiness(r) \/ AnswerScrape(r) \/ AnswerStatus(r)
      PROVE  FreshInv'
  <2>1. End(r) /\ UNCHANGED <<world, history>>
    BY <1>8 DEF AnswerReadiness, AnswerScrape, AnswerStatus
  <2> QED BY <1>1, <2>1 DEF End, NoResults, world, history, TypeOK
<1>9. ASSUME NEW r \in Requests, NEW d \in Deps, PingEnds(r, d) \/ TimesOut(r, d)
      PROVE  FreshInv'
  <2>1. /\ UNCHANGED <<world, waited, seen, history>>
        /\ results' = [results EXCEPT ![r][d] = results'[r][d]]
        /\ Open(r) /\ results'[r][d] # "pending"
        /\ results'[r][d] = "up" => reachable[d] = "up"
    BY <1>1, <1>9 DEF PingEnds, Pinged, TimesOut, TypeOK
  <2>2. waited[r] >= 0
    BY <1>1, <2>1, TimeoutIsPositive DEF TypeOK, NotOpen
  <2>3. \A q \in Requests, e \in Deps :
          (q = r /\ e = d) \/ results'[q][e] = results[q][e]
    BY <1>1, <2>1 DEF TypeOK
  <2>4. UpSinceBegin'
    <3> SUFFICES ASSUME NEW q \in Requests, NEW e \in Deps, results'[q][e] = "up"
                 PROVE  Open(q) /\ downFor[e] <= waited[q]
      BY <2>1 DEF history
    <3>1. CASE q = r /\ e = d
      BY <2>1, <2>2, <3>1
    <3>2. CASE results'[q][e] = results[q][e]
      BY <3>2
    <3> QED BY <2>3, <3>1, <3>2
  <2>5. ReadWhenGathered'
    BY <2>1, <2>3 DEF history
  <2> QED BY <1>1, <2>1, <2>4, <2>5 DEF world, history
<1>10. CASE Tick
  <2>1. \A r \in Requests : seen[r] = Unread
    BY <1>10 DEF Tick, Due
  <2>2. HistoriesStartOver'
    BY <1>1, <1>10 DEF Tick, world, TypeOK
  <2>3. UpSinceBegin'
    <3> SUFFICES ASSUME NEW r \in Requests, NEW d \in Deps, results[r][d] = "up"
                 PROVE  Open(r)' /\ downFor'[d] <= waited'[r]
      BY <1>10 DEF Tick
    <3>1. Open(r) /\ downFor[d] <= waited[r]
          /\ waited[r] \in NotOpen..Timeout /\ downFor[d] \in Nat
      BY <1>1 DEF TypeOK
    <3>2. waited'[r] = waited[r] + 1
      BY <1>1, <1>10, <3>1 DEF Tick, TypeOK
    <3>3. downFor'[d] <= downFor[d] + 1
      BY <1>1, <1>10, <3>1, TimeoutIsPositive DEF Tick, Longer, TypeOK
    <3>4. downFor'[d] \in Nat /\ waited'[r] \in NotOpen..Timeout
      BY <1>1 DEF TypeOK
    <3> QED BY <3>1, <3>2, <3>3, <3>4, TimeoutIsPositive DEF NotOpen
  <2> QED BY <1>1, <1>10, <2>1, <2>2, <2>3 DEF Tick
<1>11. CASE UNCHANGED vars
  BY <1>1, <1>11 DEF vars, world, request, history
<1> QED
  BY <1>2, <1>3, <1>4, <1>5, <1>6, <1>7, <1>8, <1>9, <1>10, <1>11 DEF Next

LEMMA FreshAlways == Spec => []FreshInv
BY InitFresh, NextFresh, PTL DEF Spec

(* Ready is said only if each dependency was up within the last timeout.   *)
THEOREM ReadyRestsOnTheLately == Spec => ReadyMeansUpLately
<1>1. ASSUME FreshInv, NEW r \in Requests, SaysReady(r), NEW d \in Deps
      PROVE  downFor[d] <= Timeout
  <2>1. Open(r) /\ results[r][d] = "up"
    BY <1>1 DEF SaysReady, AnswerReadiness, FreshInv, TypeOK
  <2>2. downFor[d] <= waited[r] /\ waited[r] \in NotOpen..Timeout /\ downFor[d] \in Nat
    BY <1>1, <2>1 DEF FreshInv, UpSinceBegin, TypeOK
  <2> QED BY <2>2, TimeoutIsPositive DEF NotOpen
<1>2. FreshInv /\ [Next]_vars =>
        [\A r \in Requests : SaysReady(r) => \A d \in Deps : downFor[d] <= Timeout]_vars
  BY <1>1
<1> QED BY <1>2, FreshAlways, PTL DEF Spec, ReadyMeansUpLately

(* Ready is never said of a transport that was cut in an earlier tick,     *)
(* however long the probes of the request took.                            *)
THEOREM NoGraceForTheTransport == Spec => NoGracePeriod
<1>1. ASSUME FreshInv, NEW r \in Requests, SaysReady(r) PROVE cutFor = 0
  <2>1. seen[r] # Unread /\ IngestUp(seen[r])
    BY <1>1 DEF SaysReady, AnswerReadiness, FreshInv, TypeOK
  <2> QED BY <1>1, <2>1 DEF IngestUp, FreshInv, ReadWhenGathered
<1>2. FreshInv /\ [Next]_vars =>
        [\A r \in Requests : SaysReady(r) => cutFor = 0]_vars
  BY <1>1
<1> QED BY <1>2, FreshAlways, PTL DEF Spec, NoGracePeriod
=============================================================================

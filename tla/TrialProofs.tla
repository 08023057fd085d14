---------------------------- MODULE TrialProofs ----------------------------
(***************************************************************************)
(* What a level of load reports and how much of it is in flight, for any   *)
(* number of prompts, clients and deaths, and which prompts a trial sends, *)
(* for any workload and any order of its levels.                           *)
(***************************************************************************)
EXTENDS Trial, TLAPS, FiniteSetTheorems

-----------------------------------------------------------------------------
(* The split of a level.                                                   *)

Asks == [n : 0..MaxPrompts, c : Nat \ {0}, clients : 1..MaxClients]

LEMMA Remainder ==
  ASSUME NEW p \in Nat, NEW k \in Nat \ {0}
  PROVE  /\ p % k \in 0..(k - 1) /\ p % k <= p
         /\ p < k => p % k = p
         /\ p % 1 = 0
  OBVIOUS

\* A prompt belongs to one shard, the client of that number exists, and each client below the
\* number of prompts has one.
Split ==
  /\ \A i, j \in Clients, p \in Positions : p \in Shard(i) /\ p \in Shard(j) => i = j
  /\ \A p \in Positions : p < ask.n => p % ask.clients \in Clients /\ p \in Shard(p % ask.clients)
  /\ \A i \in Clients : Shard(i) \subseteq Positions /\ \A p \in Shard(i) : p < ask.n
  /\ ask.clients > 1 => Procs = {i \in Clients : i < ask.clients /\ i < ask.n}
  /\ ask.clients = 1 => Procs = {} /\ Shard(0) = {p \in Positions : p < ask.n}
  /\ Procs \subseteq Clients

LEMMA ShardsSplit == ask \in Asks => Split
<1> SUFFICES ASSUME ask \in Asks PROVE Split
  OBVIOUS
<1> USE LoadBoundsAssumption DEF Positions, Clients
<1>1. ask.n \in Nat /\ ask.c \in Nat \ {0} /\ ask.clients \in Nat \ {0} /\ ask.clients <= MaxClients /\ ask.n <= MaxPrompts
  BY DEF Asks
<1>2. \A p \in Positions : p \in Nat /\ p % ask.clients \in 0..(ask.clients - 1) /\ p % ask.clients <= p
  <2> TAKE p \in Positions
  <2>1. p \in Nat
    BY <1>1
  <2> QED BY <1>1, <2>1, Remainder
<1>3. \A p \in Positions : p < ask.n => p % ask.clients \in Clients /\ p \in Shard(p % ask.clients)
  BY <1>1, <1>2 DEF Shard
<1>4. \A i \in Clients : Shard(i) \subseteq Positions /\ \A p \in Shard(i) : p < ask.n
  BY DEF Shard
<1>5. \A i, j \in Clients, p \in Positions : p \in Shard(i) /\ p \in Shard(j) => i = j
  BY DEF Shard
<1>6. ASSUME ask.clients > 1 PROVE Procs = {i \in Clients : i < ask.clients /\ i < ask.n}
  <2>1. ASSUME NEW i \in Clients, i < ask.clients, i < ask.n PROVE Shard(i) # {}
    <3>1. i \in Positions /\ i \in Nat
      BY <1>1, <2>1
    <3>2. i % ask.clients = i
      BY <1>1, <2>1, <3>1, Remainder
    <3> QED BY <2>1, <3>1, <3>2 DEF Shard
  <2>2. ASSUME NEW i \in Clients, NEW p \in Shard(i) PROVE i < ask.n
    <3>1. p \in Positions /\ p < ask.n /\ p % ask.clients = i
      BY <2>2 DEF Shard
    <3>2. i <= p /\ p \in Nat /\ i \in Nat
      BY <1>2, <3>1
    <3> QED BY <1>1, <3>1, <3>2
  <2> QED BY <1>6, <2>1, <2>2 DEF Procs
<1>7. ASSUME ask.clients = 1 PROVE Procs = {} /\ Shard(0) = {p \in Positions : p < ask.n}
  <2>1. \A p \in Positions : p % 1 = 0
    BY <1>1, <1>2, Remainder
  <2> QED BY <1>7, <2>1 DEF Procs, Shard
<1>8. Procs \subseteq Clients
  BY DEF Procs
<1> QED BY <1>3, <1>4, <1>5, <1>6, <1>7, <1>8 DEF Split

LEMMA FiniteLoad ==
  ASSUME ask \in Asks
  PROVE  /\ IsFiniteSet(Positions) /\ IsFiniteSet(Clients)
         /\ \A S \in SUBSET Positions : IsFiniteSet(S) /\ Cardinality(S) \in Nat
         /\ IsFiniteSet(Procs) /\ Cardinality(Procs) \in Nat
<1>1. IsFiniteSet(Positions) /\ IsFiniteSet(Clients)
  BY LoadBoundsAssumption, FS_Interval DEF Positions, Clients
<1>2. Procs \subseteq Clients
  BY ShardsSplit DEF Split
<1> QED BY <1>1, <1>2, FS_Subset, FS_CardinalityType

\* The share of a client is at least one request, and rounding up adds less than one for each.
LEMMA ShareBounded ==
  ASSUME ask \in Asks, Procs # {}
  PROVE  /\ PerClient \in Nat \ {0}
         /\ Cardinality(Procs) * PerClient <= ask.c + Cardinality(Procs) - 1
<1> DEFINE k == Cardinality(Procs)
           q == (ask.c + k - 1) \div k
<1>1. k \in Nat \ {0} /\ ask.c \in Nat \ {0}
  BY FiniteLoad, FS_EmptySet DEF Asks
<1>2. q \in Nat /\ k * q <= ask.c + k - 1
  <2> HIDE DEF k
  <2> QED BY <1>1
<1>3. q >= 1
  <2> HIDE DEF k
  <2> QED BY <1>1
<1>4. PerClient = q
  <2>1. Max({1, q}) = CHOOSE x \in {1, q} : \A y \in {1, q} : x >= y
    BY DEF Max
  <2> HIDE DEF q
  <2>2. q >= q /\ q >= 1
    BY <1>2, <1>3
  <2>3. \A x \in {1, q} : (\A y \in {1, q} : x >= y) => x = q
    BY <1>2, <1>3
  <2>4. Max({1, q}) = q
    BY <2>1, <2>2, <2>3
  <2> QED BY <2>4 DEF PerClient, q
<1> QED BY <1>1, <1>2, <1>3, <1>4

Shared == Procs # {} => PerClient \in Nat

LEMMA ShareTyped == ask \in Asks => Shared
  BY ShareBounded DEF Shared

\* A set of requests that shrinks, or grows by one.
LEMMA InFlightCounts ==
  ASSUME ask \in Asks, NEW S \in SUBSET Positions, NEW T, NEW p
  PROVE  /\ T \subseteq S => Cardinality(T) <= Cardinality(S)
         /\ T \subseteq S \cup {p} => Cardinality(T) <= Cardinality(S) + 1
<1>1. IsFiniteSet(S) /\ Cardinality(S) \in Nat
  BY FiniteLoad
<1>2. T \subseteq S => Cardinality(T) <= Cardinality(S)
  BY <1>1, FS_Subset
<1>3. IsFiniteSet(S \cup {p}) /\ Cardinality(S \cup {p}) <= Cardinality(S) + 1
  <2>1. CASE p \in S
    <3>1. S \cup {p} = S
      BY <2>1
    <3> QED BY <1>1, <3>1
  <2>2. CASE p \notin S
    <3>1. IsFiniteSet(S \cup {p}) /\ Cardinality(S \cup {p}) = Cardinality(S) + 1
      BY <1>1, <2>2, FS_AddElement
    <3> QED BY <1>1, <3>1
  <2> QED BY <2>1, <2>2
<1>4. T \subseteq S \cup {p} => Cardinality(T) <= Cardinality(S \cup {p}) /\ Cardinality(T) \in Nat
  BY <1>3, FS_Subset, FS_CardinalityType
<1>5. Cardinality(S \cup {p}) \in Nat
  BY <1>3, FS_CardinalityType
<1> QED BY <1>1, <1>2, <1>3, <1>4, <1>5

-----------------------------------------------------------------------------
(* A level.                                                                *)

\* What a level is made of when it is asked for.
LEMMA DriveKeeps ==
  ASSUME LoadInv, NEW n \in 1..MaxPrompts, NEW c \in Nat \ {0}, NEW k \in 1..MaxClients,
         DriveLevel(n, c, k)
  PROVE  LoadInv'
<1>1. /\ ask' = [n |-> n, c |-> c, clients |-> k] /\ ask' \in Asks
      /\ ready' = {} /\ started' = {} /\ out' = {} /\ results' = {} /\ late' = FALSE
      /\ req' = [p \in Positions |-> IF p < n THEN "wait" ELSE "none"]
      /\ client' = [i \in Clients |-> IF k > 1 /\ i < k /\ i < n THEN "starting" ELSE "none"]
      /\ dpc' = IF k > 1 THEN "starting" ELSE "inline"
      /\ merged' = [p \in Positions |-> "none"]
      /\ deaths' = deaths
  BY LoadBoundsAssumption DEF DriveLevel, Asks
<1>2. TypeOKLoad'
  BY <1>1 DEF LoadInv, TypeOKLoad, Asks, Alone, Parted
<1>3. /\ k > 1 => Procs' = {i \in Clients : i < k /\ i < n}
      /\ k = 1 => Procs' = {}
      /\ Procs' \subseteq Clients
  <2>0. (ask \in Asks)'
    BY <1>1
  <2>1. Split'
    BY <2>0, ShardsSplit, PTL
  <2> QED BY <1>1, <2>1 DEF Split
<1>4. AsAsked'
  BY <1>1, <1>3 DEF AsAsked, Alone, Parted
<1>5. PostedServed' /\ NoneMissed' /\ Reported'
  BY <1>1, <1>3 DEF PostedServed, NoneMissed, Reported
<1>6. SharesKept'
  <2>1. InFlight' = {}
    BY <1>1 DEF InFlight
  <2>2. \A i : (Shard(i) \cap InFlight)' = {}
    BY <2>1
  <2>3. Cardinality({}) = 0
    BY FS_EmptySet
  <2>4. Procs' # {} => PerClient' \in Nat
    <3>1. (ask \in Asks)'
      BY <1>1
    <3>2. Shared'
      BY <3>1, ShareTyped, PTL
    <3> QED BY <3>2 DEF Shared
  <2>5. ask'.c = c
    BY <1>1
  <2> QED BY <1>3, <2>2, <2>3, <2>4, <2>5 DEF SharesKept
<1> QED BY <1>2, <1>4, <1>5, <1>6 DEF LoadInv

LEMMA EndKeeps ==
  ASSUME LoadInv, EndDrive
  PROVE  LoadInv'
<1>1. /\ ask' = NoLevel /\ (ask \in Asks)'
      /\ ready' = {} /\ started' = {} /\ out' = {} /\ results' = {} /\ late' = FALSE
      /\ req' = [p \in Positions |-> "none"] /\ client' = [i \in Clients |-> "none"]
      /\ dpc' = "off" /\ merged' = [p \in Positions |-> "none"] /\ deaths' = deaths
  BY LoadBoundsAssumption DEF EndDrive, Asks, NoLevel
<1>2. Procs' = {}
  <2>1. Split'
    BY <1>1, ShardsSplit, PTL
  <2> QED BY <1>1, <2>1 DEF Split, NoLevel
<1>3. TypeOKLoad'
  BY <1>1 DEF LoadInv, TypeOKLoad, Asks, Alone, Parted
<1>4. AsAsked'
  BY <1>1, <1>2 DEF AsAsked, Alone, Parted
<1>5. PostedServed' /\ NoneMissed' /\ Reported'
  BY <1>1, <1>2 DEF PostedServed, NoneMissed, Reported
<1>6. SharesKept'
  <2>1. InFlight' = {} /\ (Shard(0) \cap InFlight)' = {} /\ Cardinality({}) = 0
    BY <1>1, FS_EmptySet DEF InFlight
  <2> QED BY <1>1, <1>2, <2>1 DEF SharesKept, NoLevel
<1> QED BY <1>3, <1>4, <1>5, <1>6 DEF LoadInv

LEMMA SameLoad == LoadInv /\ UNCHANGED lvars => LoadInv'
<1> SUFFICES ASSUME LoadInv, UNCHANGED lvars PROVE LoadInv'
  OBVIOUS
<1>1. /\ UNCHANGED <<dpc, ask, req, client, ready, started, late, out, results, merged, deaths>>
  BY DEF lvars
<1>2. Procs' = Procs /\ InFlight' = InFlight /\ PerClient' = PerClient
      /\ \A i : Shard(i)' = Shard(i) /\ IsAlive(i)' = IsAlive(i)
  BY <1>1 DEF Procs, InFlight, PerClient, Shard, IsAlive
<1>3. TypeOKLoad' /\ AsAsked'
  BY <1>1, <1>2 DEF LoadInv, TypeOKLoad, AsAsked
<1>4. PostedServed'
  BY <1>1, <1>2 DEF LoadInv, PostedServed, Served
<1>5. NoneMissed' /\ SharesKept' /\ Reported'
  BY <1>1, <1>2 DEF LoadInv, NoneMissed, SharesKept, Reported
<1> QED BY <1>3, <1>4, <1>5 DEF LoadInv

LEMMA NoLoadYet == InitLoad => LoadInv
<1> SUFFICES ASSUME InitLoad PROVE LoadInv
  OBVIOUS
<1>1. /\ ask = NoLevel /\ ask \in Asks
      /\ ready = {} /\ started = {} /\ out = {} /\ results = {} /\ late = FALSE
      /\ req = [p \in Positions |-> "none"] /\ client = [i \in Clients |-> "none"]
      /\ dpc = "off" /\ merged = [p \in Positions |-> "none"] /\ deaths = 0
  BY LoadBoundsAssumption DEF InitLoad, Asks, NoLevel
<1>2. Procs = {}
  BY <1>1, ShardsSplit DEF Split, NoLevel
<1>3. TypeOKLoad
  <2>1. deaths \in 0..MaxDeaths
    BY <1>1, LoadBoundsAssumption
  <2>2. ask \in [n : 0..MaxPrompts, c : Nat \ {0}, clients : 1..MaxClients]
    BY <1>1 DEF Asks
  <2> QED BY <1>1, <2>1, <2>2 DEF TypeOKLoad
<1>4. AsAsked
  BY <1>1, <1>2 DEF AsAsked, Alone, Parted
<1>5. PostedServed /\ NoneMissed /\ Reported
  BY <1>1, <1>2 DEF PostedServed, NoneMissed, Reported
<1>6. SharesKept
  <2>1. InFlight = {} /\ Shard(0) \cap InFlight = {} /\ Cardinality({}) = 0
    BY <1>1, FS_EmptySet DEF InFlight
  <2> QED BY <1>1, <1>2, <2>1 DEF SharesKept, NoLevel
<1> QED BY <1>3, <1>4, <1>5, <1>6 DEF LoadInv

-----------------------------------------------------------------------------
(* The steps of a level.                                                   *)

Driving == dpc \notin {"merged", "raised"}

\* What is asked for stays, and so do the shares.
LEMMA SharesStay ==
  ASSUME LoadStep
  PROVE  ask' = ask /\ Procs' = Procs /\ PerClient' = PerClient /\ \A i : Shard(i)' = Shard(i)
<1>1. ask' = ask
  <2>1. ASSUME ParentStep \/ InlineRaises PROVE ask' = ask
    BY <2>1 DEF ParentStep, StartCounts, StartQuiet, StartLate, StartGo, CollectOne, CollectQuiet, CollectLooks,
                CollectLast, CollectDone, Merge, InlineDone, InlineBegin, InlineEnd, InlineRaises
  <2>2. ASSUME NEW i \in Clients, ClientStep(i) \/ ClientDies(i) PROVE ask' = ask
    BY <2>2 DEF ClientStep, ClientUp, ClientGo, ClientPost, ClientExit, ClientBegin, ClientEnd, ClientDies
  <2> QED BY <2>1, <2>2 DEF LoadStep
<1> QED BY <1>1 DEF Procs, PerClient, Shard

\* How a request may move.
Moved(p) ==
  \/ req'[p] = req[p]
  \/ req[p] = "wait" /\ req'[p] = "flight"
  \/ req[p] = "flight" /\ req'[p] \in {"ok", "failed"}
  \/ req[p] \in {"wait", "flight"} /\ req'[p] = "none"

LEMMA RequestsMove ==
  ASSUME LoadInv, LoadStep
  PROVE  /\ req' \in [Positions -> {"none", "wait", "flight", "ok", "failed"}]
         /\ \A p \in Positions : Moved(p)
         /\ dpc = "inline" => \A p \in Positions : req[p] # "none" => req'[p] # "none"
<1>1. req \in [Positions -> {"none", "wait", "flight", "ok", "failed"}]
  BY DEF LoadInv, TypeOKLoad
<1>2. ASSUME NEW p \in Positions, NEW S, NEW n, Begin(p, S, n) \/ End(p, S)
      PROVE  /\ req' \in [Positions -> {"none", "wait", "flight", "ok", "failed"}]
             /\ \A q \in Positions : Moved(q) /\ (req[q] # "none" => req'[q] # "none")
  BY <1>1, <1>2 DEF Begin, End, InFlight, Moved
<1>3. CASE \E i \in Clients : ClientDies(i)
  <2>1. PICK i \in Clients : ClientDies(i)
    BY <1>3
  <2>2. dpc # "inline"
    <3>1. client[i] # "none"
      BY <2>1 DEF ClientDies, IsAlive
    <3>2. ask.clients = 1 => Procs = {}
      BY ShardsSplit DEF Split, LoadInv, TypeOKLoad, Asks
    <3> QED BY <3>1, <3>2 DEF LoadInv, AsAsked, Alone
  <2> QED BY <1>1, <2>1, <2>2 DEF ClientDies, Moved
<1>4. CASE \/ \E p \in Positions : InlineBegin(p) \/ InlineEnd(p)
           \/ \E i \in Clients, p \in Positions : ClientBegin(i, p) \/ ClientEnd(i, p)
  BY <1>2, <1>4 DEF InlineBegin, InlineEnd, ClientBegin, ClientEnd
<1>5. CASE UNCHANGED req
  BY <1>1, <1>5 DEF Moved
<1>6. UNCHANGED req \/ (\E i \in Clients : ClientDies(i))
      \/ (\E p \in Positions : InlineBegin(p) \/ InlineEnd(p))
      \/ (\E i \in Clients, p \in Positions : ClientBegin(i, p) \/ ClientEnd(i, p))
  BY DEF LoadStep, ParentStep, StartCounts, StartQuiet, StartLate, StartGo, CollectOne, CollectQuiet, CollectLooks,
         CollectLast, CollectDone, Merge, InlineDone, InlineRaises, ClientStep, ClientUp, ClientGo, ClientPost, ClientExit
<1> QED BY <1>3, <1>4, <1>5, <1>6

LEMMA TypesKept ==
  ASSUME LoadInv, LoadStep, Driving
  PROVE  TypeOKLoad'
<1>0. /\ ask \in Asks /\ (\A p \in Positions : req[p] # "none" => p < ask.n)
      /\ TypeOKLoad /\ AsAsked /\ PostedServed
  BY DEF LoadInv, TypeOKLoad, AsAsked, Asks
<1>1. ask' = ask /\ req' \in [Positions -> {"none", "wait", "flight", "ok", "failed"}]
  BY SharesStay, RequestsMove
<1>2. ASSUME NEW i \in Clients, ClientStep(i) \/ ClientDies(i) PROVE TypeOKLoad'
  <2> USE <1>0, <1>1 DEF TypeOKLoad
  <2>1. CASE ClientUp(i)
    BY <2>1 DEF ClientUp
  <2>2. CASE ClientGo(i)
    BY <2>2 DEF ClientGo
  <2>3. CASE \E p \in Positions : ClientBegin(i, p) \/ ClientEnd(i, p)
    BY <2>3 DEF ClientBegin, ClientEnd
  <2>4. CASE ClientPost(i)
    BY <2>4 DEF ClientPost
  <2>5. CASE ClientExit(i)
    BY <2>5 DEF ClientExit
  <2>6. CASE ClientDies(i)
    BY <2>6, LoadBoundsAssumption DEF ClientDies
  <2> QED BY <1>2, <2>1, <2>2, <2>3, <2>4, <2>5, <2>6 DEF ClientStep
<1>3. ASSUME Merge PROVE TypeOKLoad'
  <2>1. \A p \in Positions : (\E i \in results : p \in Shard(i)) => req[p] \in {"ok", "failed"}
    BY <1>0 DEF PostedServed, Served, TypeOKLoad
  <2>2. merged' \in [Positions -> {"none", "ok", "failed"}]
    BY <1>3, <2>1 DEF Merge
  <2> QED BY <1>0, <1>3, <2>2 DEF Merge, TypeOKLoad
<1>4. ASSUME InlineDone PROVE TypeOKLoad'
  <2>1. Shard(0) = {p \in Positions : p < ask.n}
    BY <1>0, <1>4, ShardsSplit DEF Split, InlineDone, AsAsked, Alone
  <2>2. \A p \in Positions : req[p] \in {"none", "ok", "failed"}
    BY <1>0, <1>4, <2>1 DEF InlineDone, Served
  <2>3. merged' \in [Positions -> {"none", "ok", "failed"}]
    BY <1>0, <1>4, <2>2 DEF InlineDone, TypeOKLoad
  <2> QED BY <1>0, <1>4, <2>3 DEF InlineDone, TypeOKLoad
<1>5. ASSUME \/ StartCounts \/ StartQuiet \/ StartLate \/ StartGo
             \/ CollectOne \/ CollectQuiet \/ CollectLooks \/ CollectLast \/ CollectDone
      PROVE  TypeOKLoad'
  <2>1. /\ dpc' \in {"off", "merged"} \cup Alone \cup Parted /\ late' \in BOOLEAN /\ UNCHANGED <<client, merged, deaths>>
    BY <1>0, <1>5 DEF TypeOKLoad, Alone, Parted, StartCounts, StartQuiet, StartLate, StartGo, CollectOne, CollectQuiet,
                      CollectLooks, CollectLast, CollectDone
  <2>2. ready' \subseteq Clients /\ started' \subseteq Clients /\ out' \subseteq Clients /\ results' \subseteq Clients
    BY <1>0, <1>5 DEF TypeOKLoad, StartCounts, StartQuiet, StartLate, StartGo, CollectOne, CollectQuiet,
                      CollectLooks, CollectLast, CollectDone
  <2> QED BY <1>0, <1>1, <2>1, <2>2 DEF TypeOKLoad
<1>6. ASSUME \/ InlineRaises \/ \E p \in Positions : InlineBegin(p) \/ InlineEnd(p)
      PROVE  TypeOKLoad'
  BY <1>0, <1>1, <1>6, LoadBoundsAssumption DEF TypeOKLoad, Alone, InlineRaises, InlineBegin, InlineEnd
<1> QED BY <1>2, <1>3, <1>4, <1>5, <1>6 DEF LoadStep, ParentStep

\* Nothing of a level moves before it is asked for.
LEMMA LevelIsOn ==
  ASSUME LoadInv, LoadStep
  PROVE  dpc' # "off" /\ dpc # "off"
<1>1. ASSUME NEW i \in Clients, ClientStep(i) \/ ClientDies(i) PROVE dpc # "off" /\ dpc' = dpc
  <2>1. dpc' = dpc /\ client[i] # "none"
    BY <1>1 DEF ClientStep, ClientUp, ClientGo, ClientPost, ClientExit, ClientBegin, ClientEnd, ClientDies, IsAlive
  <2> QED BY <2>1 DEF LoadInv, AsAsked
<1>2. ASSUME ParentStep \/ InlineRaises PROVE dpc # "off" /\ dpc' # "off"
  BY <1>2 DEF ParentStep, StartCounts, StartQuiet, StartLate, StartGo, CollectOne, CollectQuiet, CollectLooks,
              CollectLast, CollectDone, Merge, InlineDone, InlineBegin, InlineEnd, InlineRaises
<1> QED BY <1>1, <1>2 DEF LoadStep

LEMMA AsAskedKept ==
  ASSUME LoadInv, LoadStep, Driving
  PROVE  AsAsked'
<1>1. /\ ask' = ask /\ Procs' = Procs /\ ask \in Asks
      /\ AsAsked /\ client \in [Clients -> {"none", "starting", "up", "driving", "posted", "exited", "dead"}]
  BY SharesStay DEF LoadInv, TypeOKLoad, Asks
<1>2. dpc' # "off" /\ dpc # "off"
  BY LevelIsOn
<1>3. /\ dpc' \in Alone => dpc \in Alone
      /\ dpc' \in Parted => dpc \in Parted
      /\ dpc' = "inline" => dpc = "inline"
  <2>1. ASSUME NEW i \in Clients, ClientStep(i) \/ ClientDies(i) PROVE dpc' = dpc
    BY <2>1 DEF ClientStep, ClientUp, ClientGo, ClientPost, ClientExit, ClientBegin, ClientEnd, ClientDies
  <2>2. ASSUME ParentStep \/ InlineRaises
        PROVE  dpc' = dpc \/ (dpc \in Parted /\ dpc' \in Parted \cup {"merged"}) \/ (dpc = "inline" /\ dpc' \in {"merged", "raised"})
    BY <2>2 DEF ParentStep, StartCounts, StartQuiet, StartLate, StartGo, CollectOne, CollectQuiet, CollectLooks,
                CollectLast, CollectDone, Merge, InlineDone, InlineBegin, InlineEnd, InlineRaises, Parted
  <2> QED BY <2>1, <2>2 DEF LoadStep, Alone, Parted
<1>4. \A i \in Clients : client'[i] = "none" <=> client[i] = "none"
  <2>1. ASSUME NEW i \in Clients, ClientStep(i) \/ ClientDies(i) PROVE \A j \in Clients : client'[j] = "none" <=> client[j] = "none"
    BY <1>1, <2>1 DEF ClientStep, ClientUp, ClientGo, ClientPost, ClientExit, ClientBegin, ClientEnd, ClientDies, IsAlive
  <2>2. ASSUME ParentStep \/ InlineRaises PROVE client' = client
    BY <2>2 DEF ParentStep, StartCounts, StartQuiet, StartLate, StartGo, CollectOne, CollectQuiet, CollectLooks,
                CollectLast, CollectDone, Merge, InlineDone, InlineBegin, InlineEnd, InlineRaises
  <2> QED BY <2>1, <2>2 DEF LoadStep
<1>5. /\ \A p \in Positions : req'[p] # "none" => req[p] # "none"
      /\ dpc = "inline" => \A p \in Positions : req[p] # "none" => req'[p] # "none"
  BY RequestsMove DEF Moved
<1>6. \A i \in Procs : i \in Clients
  BY <1>1, ShardsSplit DEF Split
<1> QED BY <1>1, <1>2, <1>3, <1>4, <1>5, <1>6 DEF AsAsked

LEMMA PostedServedKept ==
  ASSUME LoadInv, LoadStep, Driving
  PROVE  PostedServed'
<1>1. /\ \A j : Shard(j)' = Shard(j)
      /\ \A j \in Clients : Shard(j) \subseteq Positions
      /\ PostedServed /\ client \in [Clients -> {"none", "starting", "up", "driving", "posted", "exited", "dead"}]
  BY SharesStay, ShardsSplit DEF LoadInv, TypeOKLoad, Asks, Split
<1>2. \A j \in Clients : Served(Shard(j)) => Served(Shard(j))'
  <2>1. \A p \in Positions : req[p] \in {"ok", "failed"} => req'[p] \in {"ok", "failed"}
    BY RequestsMove DEF Moved
  <2> QED BY <1>1, <2>1 DEF Served
<1>3. ASSUME NEW i \in Clients, ClientStep(i) \/ ClientDies(i) PROVE PostedServed'
  <2>1. CASE ClientUp(i)
    BY <1>1, <1>2, <2>1 DEF ClientUp, PostedServed
  <2>2. CASE ClientGo(i)
    BY <1>1, <1>2, <2>2 DEF ClientGo, PostedServed
  <2>3. CASE \E p \in Positions : ClientBegin(i, p) \/ ClientEnd(i, p)
    <3>1. UNCHANGED <<client, out, results>>
      BY <2>3 DEF ClientBegin, ClientEnd
    <3> QED BY <1>1, <1>2, <3>1 DEF PostedServed
  <2>4. CASE ClientPost(i)
    <3>1. /\ client' = [client EXCEPT ![i] = "posted"] /\ out' = out \cup {i} /\ results' = results
          /\ Served(Shard(i))
      BY <2>4 DEF ClientPost
    <3> QED BY <1>1, <1>2, <3>1 DEF PostedServed
  <2>5. CASE ClientExit(i)
    BY <1>1, <1>2, <2>5 DEF ClientExit, PostedServed
  <2>6. CASE ClientDies(i)
    <3>1. client' = [client EXCEPT ![i] = "dead"] /\ UNCHANGED <<out, results>>
      BY <2>6 DEF ClientDies
    <3> QED BY <1>1, <1>2, <3>1 DEF PostedServed
  <2> QED BY <1>3, <2>1, <2>2, <2>3, <2>4, <2>5, <2>6 DEF ClientStep
<1>4. ASSUME ParentStep \/ InlineRaises PROVE PostedServed'
  <2>1. client' = client /\ out' \cup results' = out \cup results
    <3>1. CASE CollectOne
      BY <3>1 DEF CollectOne
    <3>2. CASE ~CollectOne
      BY <1>4, <3>2 DEF ParentStep, StartCounts, StartQuiet, StartLate, StartGo, CollectQuiet, CollectLooks,
                CollectLast, CollectDone, Merge, InlineDone, InlineBegin, InlineEnd, InlineRaises
    <3> QED BY <3>1, <3>2
  <2> QED BY <1>1, <1>2, <2>1 DEF PostedServed
<1> QED BY <1>3, <1>4 DEF LoadStep

LEMMA NoneMissedKept ==
  ASSUME LoadInv, LoadStep, Driving
  PROVE  NoneMissed'
<1>1. /\ ask' = ask /\ Procs' = Procs /\ Procs \subseteq Clients /\ (ask.clients = 1 => Procs = {})
      /\ PostedServed /\ AsAsked /\ NoneMissed
      /\ client \in [Clients -> {"none", "starting", "up", "driving", "posted", "exited", "dead"}]
  BY SharesStay, ShardsSplit DEF LoadInv, TypeOKLoad, Asks, Split
<1>2. ASSUME NEW i \in Clients, ClientStep(i) \/ ClientDies(i) PROVE NoneMissed'
  <2>1. dpc' = dpc /\ results' = results /\ client[i] \notin {"none", "exited", "dead"}
    BY <1>2 DEF ClientStep, ClientUp, ClientGo, ClientPost, ClientExit, ClientBegin, ClientEnd, ClientDies, IsAlive
  <2>2. out' \subseteq out \cup {i} /\ \A j \in Clients \ {i} : client'[j] = client[j]
    BY <1>1, <1>2 DEF ClientStep, ClientUp, ClientGo, ClientPost, ClientExit, ClientBegin, ClientEnd, ClientDies
  <2>3. IsAlive(i)
    BY <1>1, <2>1 DEF IsAlive
  <2>4. \A j \in Clients : ~IsAlive(j) => ~IsAlive(j)' /\ client'[j] = client[j] /\ (j \in out' => j \in out)
    BY <2>2, <2>3 DEF IsAlive
  <2>5. \A j \in Clients : client[j] = "dead" => ~IsAlive(j)
    BY DEF IsAlive
  <2>6. dpc' = "gone" => \A j \in Procs' : ~IsAlive(j)'
    BY <1>1, <2>1, <2>4 DEF NoneMissed
  <2>7. dpc' \in {"joined", "merged"} => \A j \in Procs' : j \in results' \/ (client'[j] = "dead" /\ j \notin out')
    BY <1>1, <2>1, <2>4, <2>5 DEF NoneMissed
  <2> QED BY <2>6, <2>7 DEF NoneMissed
<1>3. ASSUME ParentStep \/ InlineRaises PROVE NoneMissed'
  <2>1. client' = client /\ \A j : IsAlive(j)' = IsAlive(j)
    BY <1>3 DEF ParentStep, StartCounts, StartQuiet, StartLate, StartGo, CollectOne, CollectQuiet, CollectLooks, IsAlive,
                CollectLast, CollectDone, Merge, InlineDone, InlineBegin, InlineEnd, InlineRaises
  <2>2. CASE CollectLooks
    BY <1>1, <2>1, <2>2 DEF CollectLooks, NoneMissed
  <2>3. CASE CollectLast
    <3>1. dpc = "gone" /\ UNCHANGED <<results, out>> /\ dpc' \in {"joined", "collect"} /\ (dpc' = "joined" => out = {})
      BY <2>3 DEF CollectLast
    <3>2. \A j \in Procs : client[j] \in {"exited", "dead"}
      BY <1>1, <3>1 DEF NoneMissed, AsAsked, IsAlive
    <3> QED BY <1>1, <2>1, <3>1, <3>2 DEF NoneMissed, PostedServed
  <2>4. CASE CollectDone
    BY <1>1, <2>1, <2>4 DEF CollectDone, NoneMissed
  <2>5. CASE Merge
    BY <1>1, <2>1, <2>5 DEF Merge, NoneMissed
  <2>6. CASE InlineDone
    BY <1>1, <2>1, <2>6 DEF InlineDone, NoneMissed, AsAsked, Alone
  <2>7. CASE ~CollectLooks /\ ~CollectLast /\ ~CollectDone /\ ~Merge /\ ~InlineDone
    <3>1. dpc' \notin {"gone", "joined", "merged"}
      BY <1>3, <2>7 DEF ParentStep, StartCounts, StartQuiet, StartLate, StartGo, CollectOne, CollectQuiet,
                InlineBegin, InlineEnd, InlineRaises
    <3> QED BY <3>1 DEF NoneMissed
  <2> QED BY <2>2, <2>3, <2>4, <2>5, <2>6, <2>7
<1> QED BY <1>2, <1>3 DEF LoadStep

\* A level that is reported has one outcome for each prompt.
LEMMA ReportedKept ==
  ASSUME LoadInv, LoadStep, Driving
  PROVE  Reported'
<1>1. /\ ask \in Asks /\ Split /\ ask' = ask /\ Procs' = Procs /\ \A i : Shard(i)' = Shard(i)
      /\ PostedServed /\ AsAsked /\ NoneMissed /\ results \subseteq Clients
      /\ client \in [Clients -> {"none", "starting", "up", "driving", "posted", "exited", "dead"}]
  BY SharesStay, ShardsSplit DEF LoadInv, TypeOKLoad, Asks
<1>2. CASE Merge
  <2>1. /\ dpc = "joined" /\ UNCHANGED <<req, client, out, results>>
        /\ \A p \in Positions : merged'[p] =
             IF \E i \in results : p \in Shard(i) THEN req[p] ELSE IF p < ask.n THEN "failed" ELSE "none"
    BY <1>2 DEF Merge
  <2>2. \A p \in Positions : (\E i \in results : p \in Shard(i)) => req[p] \in {"ok", "failed"} /\ p < ask.n
    BY <1>1 DEF PostedServed, Served, Split
  <2>3. \A p \in Positions : merged'[p] # "none" <=> p < ask.n
    BY <2>1, <2>2
  <2>4. ASSUME NEW p \in Positions, NEW i \in Procs, p \in Shard(i)
        PROVE  merged'[p] = IF client[i] \in {"posted", "exited"} \/ i \in out \cup results THEN req[p] ELSE "failed"
    <3>1. i \in Clients /\ p < ask.n
      BY <1>1, <2>4 DEF Split
    <3>2. CASE i \in results
      BY <2>1, <2>4, <3>2
    <3>3. CASE i \notin results
      <4>1. client[i] = "dead" /\ i \notin out
        BY <1>1, <2>1, <3>3 DEF NoneMissed
      <4>2. ~\E j \in results : p \in Shard(j)
        BY <1>1, <2>4, <3>1, <3>3 DEF Split
      <4> QED BY <2>1, <3>1, <3>3, <4>1, <4>2
    <3> QED BY <3>2, <3>3
  <2> QED BY <1>1, <2>1, <2>3, <2>4 DEF Reported
<1>3. CASE InlineDone
  <2>1. /\ dpc = "inline" /\ merged' = req /\ Served(Shard(0)) /\ req' = req
    BY <1>3 DEF InlineDone
  <2>2. ask.clients = 1 /\ Procs = {} /\ Shard(0) = {p \in Positions : p < ask.n}
    BY <1>1, <2>1 DEF AsAsked, Alone, Split
  <2>3. \A p \in Positions : req[p] # "none" <=> p < ask.n
    BY <1>1, <2>1 DEF AsAsked
  <2> QED BY <1>1, <2>1, <2>2, <2>3 DEF Reported
<1>4. CASE ~Merge /\ ~InlineDone
  <2>1. dpc' # "merged"
    <3>1. ASSUME NEW i \in Clients, ClientStep(i) \/ ClientDies(i) PROVE dpc' = dpc
      BY <3>1 DEF ClientStep, ClientUp, ClientGo, ClientPost, ClientExit, ClientBegin, ClientEnd, ClientDies
    <3>2. ASSUME ParentStep \/ InlineRaises PROVE dpc' # "merged"
      BY <1>4, <3>2 DEF Driving, ParentStep, StartCounts, StartQuiet, StartLate, StartGo, CollectOne, CollectQuiet,
           CollectLooks, CollectLast, CollectDone, InlineBegin, InlineEnd, InlineRaises
    <3> QED BY <3>1, <3>2 DEF LoadStep, Driving
  <2> QED BY <2>1 DEF Reported
<1> QED BY <1>2, <1>3, <1>4

\* A request of a client goes out on a free place of its semaphore.
LEMMA SharesKeptKept ==
  ASSUME LoadInv, LoadStep, Driving
  PROVE  SharesKept'
<1>1. /\ ask \in Asks /\ Split /\ ask' = ask /\ Procs' = Procs /\ PerClient' = PerClient
      /\ \A i : Shard(i)' = Shard(i)
      /\ SharesKept /\ AsAsked
      /\ req \in [Positions -> {"none", "wait", "flight", "ok", "failed"}]
  BY SharesStay, ShardsSplit DEF LoadInv, TypeOKLoad, Asks
<1>2. ask.c \in Nat /\ (Procs # {} => PerClient \in Nat) /\ 0 \in Clients
  BY <1>1, ShareBounded, LoadBoundsAssumption DEF Asks, Clients
<1>3. \A i \in Clients : (Shard(i) \cap InFlight) \in SUBSET Positions
  BY <1>1 DEF Split
<1>4. ASSUME NEW p \in Positions, NEW S, NEW n, Begin(p, S, n)
      PROVE  InFlight' = InFlight \cup {p} /\ Cardinality(S \cap InFlight) < n
  BY <1>1, <1>4 DEF Begin, InFlight
<1>5. CASE InFlight' \subseteq InFlight
  <2>1. ASSUME NEW i \in Clients
        PROVE  /\ Cardinality((Shard(i) \cap InFlight)') <= Cardinality(Shard(i) \cap InFlight)
               /\ Cardinality((Shard(i) \cap InFlight)') \in Nat /\ Cardinality(Shard(i) \cap InFlight) \in Nat
    <3>1. (Shard(i) \cap InFlight)' \subseteq Shard(i) \cap InFlight
      BY <1>1, <1>5
    <3> QED BY <1>1, <1>3, <3>1, InFlightCounts, FiniteLoad
  <2>2. ASSUME NEW i \in Procs PROVE Cardinality((Shard(i) \cap InFlight)') <= PerClient
    <3>1. PerClient \in Nat /\ i \in Clients /\ Cardinality(Shard(i) \cap InFlight) <= PerClient
      BY <1>1, <1>2 DEF SharesKept, Split
    <3> HIDE DEF PerClient
    <3> QED BY <2>1, <3>1
  <2>3. ASSUME ask.clients = 1 PROVE Cardinality((Shard(0) \cap InFlight)') <= ask.c
    <3>1. Cardinality(Shard(0) \cap InFlight) <= ask.c
      BY <1>1, <2>3 DEF SharesKept
    <3>2. /\ Cardinality((Shard(0) \cap InFlight)') <= Cardinality(Shard(0) \cap InFlight)
          /\ Cardinality((Shard(0) \cap InFlight)') \in Nat /\ Cardinality(Shard(0) \cap InFlight) \in Nat
      BY <1>2, <2>1
    <3> QED BY <1>2, <3>1, <3>2
  <2> QED BY <1>1, <2>2, <2>3 DEF SharesKept
<1>6. CASE \E i \in Clients, p \in Positions : ClientBegin(i, p)
  <2>1. PICK i \in Clients, p \in Positions : ClientBegin(i, p)
    BY <1>6
  <2>2. InFlight' = InFlight \cup {p} /\ Cardinality(Shard(i) \cap InFlight) < PerClient /\ p \in Shard(i)
    BY <1>4, <2>1 DEF ClientBegin
  <2>3. i \in Procs /\ ask.clients # 1
    BY <1>1, <2>1 DEF ClientBegin, AsAsked, Split
  <2>4. ASSUME NEW j \in Procs PROVE Cardinality((Shard(j) \cap InFlight)') <= PerClient
    <3>1. CASE j = i
      <4>1. (Shard(i) \cap InFlight)' \subseteq (Shard(i) \cap InFlight) \cup {p}
        BY <1>1, <2>2
      <4>2. Cardinality((Shard(i) \cap InFlight)') <= Cardinality(Shard(i) \cap InFlight) + 1
        BY <1>1, <1>3, <4>1, InFlightCounts
      <4>3. Cardinality((Shard(i) \cap InFlight)') \in Nat /\ Cardinality(Shard(i) \cap InFlight) \in Nat
        <5>1. (Shard(i) \cap InFlight)' \in SUBSET Positions
          BY <1>1 DEF Split
        <5> QED BY <1>1, <1>3, <5>1, FiniteLoad
      <4> QED BY <1>2, <2>2, <2>3, <3>1, <4>2, <4>3
    <3>2. CASE j # i
      <4>1. (Shard(j) \cap InFlight)' = Shard(j) \cap InFlight
        BY <1>1, <2>2, <3>2 DEF Split
      <4> QED BY <1>1, <4>1 DEF SharesKept
    <3> QED BY <3>1, <3>2
  <2> QED BY <1>1, <2>3, <2>4 DEF SharesKept
<1>7. CASE \E p \in Positions : InlineBegin(p)
  <2>1. PICK p \in Positions : InlineBegin(p)
    BY <1>7
  <2>2. InFlight' = InFlight \cup {p} /\ Cardinality(Shard(0) \cap InFlight) < ask.c /\ ask.clients = 1 /\ Procs = {}
    BY <1>1, <1>4, <2>1 DEF InlineBegin, AsAsked, Alone, Split
  <2>3. (Shard(0) \cap InFlight)' \subseteq (Shard(0) \cap InFlight) \cup {p}
    BY <1>1, <2>2
  <2>4. Cardinality((Shard(0) \cap InFlight)') <= Cardinality(Shard(0) \cap InFlight) + 1
    BY <1>1, <1>2, <1>3, <2>3, InFlightCounts
  <2>5. Cardinality((Shard(0) \cap InFlight)') \in Nat /\ Cardinality(Shard(0) \cap InFlight) \in Nat
    <3>1. (Shard(0) \cap InFlight)' \in SUBSET Positions
      BY <1>1, <1>2 DEF Split
    <3> QED BY <1>1, <1>2, <1>3, <3>1, FiniteLoad
  <2> QED BY <1>1, <1>2, <2>2, <2>4, <2>5 DEF SharesKept
<1>8. \/ InFlight' \subseteq InFlight
      \/ \E i \in Clients, p \in Positions : ClientBegin(i, p)
      \/ \E p \in Positions : InlineBegin(p)
  <2>1. ASSUME NEW p \in Positions, NEW S, End(p, S) PROVE InFlight' \subseteq InFlight
    BY <1>1, <2>1 DEF End, InFlight
  <2>2. ASSUME NEW i \in Clients, ClientDies(i) PROVE InFlight' \subseteq InFlight
    BY <1>1, <2>2 DEF ClientDies, InFlight
  <2>3. ASSUME UNCHANGED req PROVE InFlight' \subseteq InFlight
    BY <2>3 DEF InFlight
  <2>4. \/ UNCHANGED req \/ (\E i \in Clients : ClientDies(i))
        \/ (\E p \in Positions : InlineBegin(p) \/ End(p, Shard(0)))
        \/ (\E i \in Clients, p \in Positions : ClientBegin(i, p) \/ End(p, Shard(i)))
    BY DEF LoadStep, ParentStep, StartCounts, StartQuiet, StartLate, StartGo, CollectOne, CollectQuiet, CollectLooks,
         CollectLast, CollectDone, Merge, InlineDone, InlineRaises, InlineEnd,
         ClientStep, ClientUp, ClientGo, ClientPost, ClientExit, ClientEnd
  <2> QED BY <2>1, <2>2, <2>3, <2>4
<1> QED BY <1>5, <1>6, <1>7, <1>8

LEMMA LoadKept ==
  ASSUME LoadInv, LoadStep, Driving
  PROVE  LoadInv'
BY TypesKept, AsAskedKept, PostedServedKept, NoneMissedKept, SharesKeptKept, ReportedKept DEF LoadInv

\* However the clients share it, what is in flight is bounded by the concurrency asked for.
LEMMA InFlightBounded == LoadInv => LoadAsAsked
<1> SUFFICES ASSUME LoadInv PROVE LoadAsAsked
  OBVIOUS
<1>1. /\ ask \in Asks /\ Split /\ SharesKept
      /\ \A p \in Positions : req[p] # "none" => p < ask.n
  BY ShardsSplit DEF LoadInv, TypeOKLoad, Asks, AsAsked
<1>2. ask.c \in Nat \ {0} /\ ask.clients \in Nat \ {0} /\ InFlight \subseteq Positions
  BY <1>1, LoadBoundsAssumption DEF Asks, InFlight
<1>3. \A p \in InFlight : p % ask.clients \in Clients /\ p \in Shard(p % ask.clients)
  BY <1>1 DEF Split, InFlight
<1>4. CASE ask.clients = 1
  <2>1. Procs = {} /\ InFlight = Shard(0) \cap InFlight
    BY <1>1, <1>4 DEF Split, InFlight
  <2> QED BY <1>1, <1>2, <1>4, <2>1, FiniteLoad DEF SharesKept, LoadAsAsked
<1>5. CASE ask.clients # 1
  <2>1. \A p \in InFlight : p % ask.clients \in Procs
    <3> TAKE p \in InFlight
    <3>1. p % ask.clients < ask.clients
      <4>1. p \in Nat
        BY <1>2, LoadBoundsAssumption DEF Positions
      <4> QED BY <1>2, <4>1, Remainder
    <3> QED BY <1>3, <1>5, <3>1 DEF Procs
  <2>2. CASE Procs = {}
    <3>1. InFlight = {} /\ Cardinality({}) = 0
      BY <2>1, <2>2, FS_EmptySet
    <3> QED BY <1>2, <2>2, <3>1 DEF LoadAsAsked
  <2>3. CASE Procs # {}
    <3> DEFINE k == Cardinality(Procs)
               Mine(i) == Shard(i) \cap InFlight
               Places == Procs \X (1..PerClient)
               Numbering(i) == CHOOSE f \in [Mine(i) -> 1..PerClient] : \A p, q \in Mine(i) : f[p] = f[q] => p = q
               Place == [p \in InFlight |-> <<p % ask.clients, Numbering(p % ask.clients)[p]>>]
    <3>1. PerClient \in Nat \ {0} /\ k \in Nat /\ k * PerClient <= ask.c + k - 1
      BY <1>1, <2>3, ShareBounded, FiniteLoad
    <3>2. ASSUME NEW i \in Procs
          PROVE  /\ Numbering(i) \in [Mine(i) -> 1..PerClient]
                 /\ \A p, q \in Mine(i) : Numbering(i)[p] = Numbering(i)[q] => p = q
      <4>1. IsFiniteSet(Mine(i)) /\ Cardinality(Mine(i)) \in Nat /\ Cardinality(Mine(i)) <= PerClient
        BY <1>1, <1>2, FiniteLoad DEF SharesKept
      <4>2. PICK f : f \in Bijection(Mine(i), 1..Cardinality(Mine(i)))
        <5>1. IsFiniteSet(1..Cardinality(Mine(i))) /\ Cardinality(1..Cardinality(Mine(i))) = Cardinality(Mine(i))
          BY <4>1, FS_Interval
        <5>2. ExistsBijection(Mine(i), 1..Cardinality(Mine(i)))
          BY <4>1, <5>1, FS_SameCardinalityBij
        <5> QED BY <5>2 DEF ExistsBijection
      <4>3. f \in [Mine(i) -> 1..Cardinality(Mine(i))] /\ \A p, q \in Mine(i) : f[p] = f[q] => p = q
        BY <4>2 DEF Bijection, Injection, Surjection, IsInjective
      <4>4. f \in [Mine(i) -> 1..PerClient]
        <5>1. 1..Cardinality(Mine(i)) \subseteq 1..PerClient
          <6> HIDE DEF Mine
          <6> QED BY <3>1, <4>1
        <5> QED BY <4>3, <5>1
      <4> QED BY <4>3, <4>4
    <3>3. \A p \in InFlight : p \in Mine(p % ask.clients)
      BY <1>3
    <3>4. Place \in [InFlight -> Places]
      <4>1. ASSUME NEW p \in InFlight PROVE <<p % ask.clients, Numbering(p % ask.clients)[p]>> \in Places
        <5>1. p % ask.clients \in Procs /\ p \in Mine(p % ask.clients)
          BY <2>1, <3>3
        <5>2. Numbering(p % ask.clients) \in [Mine(p % ask.clients) -> 1..PerClient]
          BY <3>2, <5>1
        <5> HIDE DEF Mine, Numbering
        <5> QED BY <5>1, <5>2
      <4> HIDE DEF Mine, Numbering, Places
      <4> QED BY <4>1
    <3>5. ASSUME NEW p \in InFlight, NEW q \in InFlight, Place[p] = Place[q] PROVE p = q
      <4>1. p % ask.clients = q % ask.clients /\ Numbering(p % ask.clients)[p] = Numbering(q % ask.clients)[q]
        <5> HIDE DEF Mine, Numbering
        <5> QED BY <3>5
      <4>2. p % ask.clients \in Procs /\ p \in Mine(p % ask.clients) /\ q \in Mine(p % ask.clients)
        BY <2>1, <3>3, <4>1
      <4> HIDE DEF Mine, Numbering
      <4> QED BY <3>2, <4>1, <4>2
    <3>6. IsFiniteSet(Places) /\ Cardinality(Places) = k * PerClient
      <4>1. IsFiniteSet(Procs)
        BY <1>1, FiniteLoad
      <4>2. IsFiniteSet(1..PerClient) /\ Cardinality(1..PerClient) = PerClient
        BY <3>1, FS_Interval
      <4> QED BY <4>1, <4>2, FS_Product
    <3>7. Place \in Injection(InFlight, Places)
      <4> HIDE DEF Place, Places
      <4> QED BY <3>4, <3>5 DEF Injection, IsInjective
    <3>8. Cardinality(InFlight) <= Cardinality(Places)
      <4> HIDE DEF Place, Places
      <4> QED BY <3>6, <3>7, FS_Injection DEF ExistsInjection
    <3>9. Cardinality(InFlight) \in Nat
      BY <1>1, <1>2, FiniteLoad
    <3> HIDE DEF Places, k
    <3>10. Cardinality(InFlight) <= ask.c + k - 1
      <4>1. k * PerClient \in Int
        BY <3>1
      <4> QED BY <1>2, <3>1, <3>6, <3>8, <3>9, <4>1
    <3> QED BY <1>2, <2>3, <3>1, <3>10 DEF LoadAsAsked, k
  <2> QED BY <2>2, <2>3
<1> QED BY <1>4, <1>5

-----------------------------------------------------------------------------
(* The order of the levels.                                                *)

Workloads == [n : 1..MaxPrompts, concs : Seq(Nat \ {0}), perSlot : Nat, pool : Nat]
Modes == [clients : 1..MaxClients, enough : BOOLEAN, close : BOOLEAN, settings : Nat]

\* The workload and the call of a trial.
Called == w \in Workloads /\ w.concs # <<>> /\ mode \in Modes

LEMMA CallKnown == TypeOKTrial => Called
  BY CallsAssumption DEF TypeOKTrial, Called, Workloads, Modes

Numbers == 0..(LevelCount - 1)
Ahead(l) == {k \in Numbers : Before(k, l)}

LEMMA LevelNumbers ==
  ASSUME Called
  PROVE  /\ LevelCount \in Nat \ {0} /\ \A k \in Numbers : w.concs[k + 1] \in Nat \ {0}
         /\ IsFiniteSet(Numbers) /\ Cardinality(Numbers) = LevelCount
<1>1. w.concs \in Seq(Nat \ {0}) /\ w.concs # <<>>
  BY DEF Called, Workloads
<1>2. LevelCount \in Nat \ {0} /\ \A k \in Numbers : w.concs[k + 1] \in Nat \ {0}
  BY <1>1 DEF LevelCount, Numbers
<1>3. IsFiniteSet(Numbers) /\ Cardinality(Numbers) = LevelCount
  BY <1>2, FS_Interval DEF Numbers
<1> QED BY <1>2, <1>3

\* Levels are in a strict order, whether they are sorted or not.
LEMMA LevelsOrdered ==
  ASSUME Called, NEW k \in Numbers, NEW l \in Numbers, NEW m \in Numbers
  PROVE  /\ ~Before(k, k)
         /\ k # l => Before(k, l) \/ Before(l, k)
         /\ Before(k, l) /\ Before(l, m) => Before(k, m)
<1>1. /\ w.concs[k + 1] \in Nat /\ w.concs[l + 1] \in Nat /\ w.concs[m + 1] \in Nat
      /\ k \in Int /\ l \in Int /\ m \in Int
  BY LevelNumbers DEF Numbers
<1> QED BY <1>1 DEF Before

\* There are more levels ahead of the later of two.
LEMMA AheadCounts ==
  ASSUME Called, NEW k \in Numbers
  PROVE  /\ IsFiniteSet(Ahead(k)) /\ Cardinality(Ahead(k)) \in Numbers
         /\ \A l \in Numbers : Before(k, l) => Cardinality(Ahead(k)) < Cardinality(Ahead(l))
<1>1. LevelCount \in Nat /\ IsFiniteSet(Numbers) /\ Cardinality(Numbers) = LevelCount
  BY LevelNumbers
<1>2. \A l \in Numbers : IsFiniteSet(Ahead(l)) /\ Cardinality(Ahead(l)) \in Nat
  BY <1>1, FS_Subset, FS_CardinalityType DEF Ahead
<1>3. Cardinality(Ahead(k)) <= LevelCount - 1
  <2>1. Ahead(k) \in SUBSET (Numbers \ {k})
    BY LevelsOrdered DEF Ahead
  <2>2. IsFiniteSet(Numbers \ {k}) /\ Cardinality(Numbers \ {k}) = LevelCount - 1
    BY <1>1, FS_RemoveElement
  <2> QED BY <2>1, <2>2, FS_Subset
<1>4. ASSUME NEW l \in Numbers, Before(k, l) PROVE Cardinality(Ahead(k)) < Cardinality(Ahead(l))
  <2>1. Ahead(k) \cup {k} \in SUBSET Ahead(l)
    BY <1>4, LevelsOrdered DEF Ahead
  <2>2. k \notin Ahead(k)
    BY LevelsOrdered DEF Ahead
  <2>3. Cardinality(Ahead(k) \cup {k}) = Cardinality(Ahead(k)) + 1
    BY <1>2, <2>2, FS_AddElement
  <2>4. Cardinality(Ahead(k) \cup {k}) <= Cardinality(Ahead(l))
    BY <1>2, <2>1, FS_Subset
  <2> QED BY <1>2, <2>3, <2>4
<1>5. Cardinality(Ahead(k)) \in Numbers
  BY <1>1, <1>2, <1>3 DEF Numbers
<1> QED BY <1>2, <1>4, <1>5

\* Every place of the order is the place of one level.
LEMMA LevelPlaces ==
  ASSUME Called, NEW place \in Numbers
  PROVE  LevelAt(place) \in Numbers /\ Cardinality(Ahead(LevelAt(place))) = place
<1> DEFINE count == [k \in Numbers |-> Cardinality(Ahead(k))]
<1>1. IsFiniteSet(Numbers)
  BY LevelNumbers
<1>2. count \in [Numbers -> Numbers]
  BY AheadCounts
<1>3. ASSUME NEW k \in Numbers, NEW l \in Numbers, count[k] = count[l], k # l PROVE FALSE
  <2>1. Cardinality(Ahead(k)) = Cardinality(Ahead(l)) /\ Cardinality(Ahead(k)) \in Numbers
    BY <1>3, AheadCounts
  <2>2. Before(k, l) \/ Before(l, k)
    BY <1>3, LevelsOrdered
  <2>3. Before(k, l) => Cardinality(Ahead(k)) < Cardinality(Ahead(l))
    BY AheadCounts
  <2>4. Before(l, k) => Cardinality(Ahead(l)) < Cardinality(Ahead(k))
    BY AheadCounts
  <2> QED BY <2>1, <2>2, <2>3, <2>4 DEF Numbers
<1>4. count \in Injection(Numbers, Numbers)
  BY <1>2, <1>3 DEF Injection, IsInjective
<1>5. count \in Surjection(Numbers, Numbers)
  BY <1>1, <1>4, FS_Injection
<1>6. PICK k \in Numbers : Cardinality(Ahead(k)) = place
  BY <1>5 DEF Surjection
<1>7. LevelAt(place) = CHOOSE l \in Numbers : Cardinality(Ahead(l)) = place
  BY DEF LevelAt, Ahead, Numbers
<1> QED BY <1>6, <1>7

-----------------------------------------------------------------------------
(* Prompts and requests.                                                   *)

LEMMA Batches ==
  ASSUME NEW a \in Nat, NEW b \in Nat, NEW n \in Nat
  PROVE  /\ a * n \in Nat
         /\ a < b => a * n + n <= b * n
<1>1. \A x \in Nat : x * n \in Nat
  OBVIOUS
<1>2. ASSUME a < b PROVE a * n + n <= b * n
  <2>1. b - a - 1 \in Nat
    BY <1>2
  <2>2. (b - a - 1) * n \in Nat
    BY <1>1, <2>1
  <2>3. b * n = a * n + n + (b - a - 1) * n
    OBVIOUS
  <2> QED BY <1>1, <2>2, <2>3
<1> QED BY <1>1, <1>2

\* No prompt is in two batches, or twice in one, as long as the pool does not wrap around.
LEMMA PromptsDiffer ==
  ASSUME NEW x \in Workloads, NEW K \in Nat, x.pool = 0 \/ K * x.n <= x.pool,
         NEW a \in 0..(K - 1), NEW b \in 0..(K - 1), NEW p \in 0..(x.n - 1), NEW q \in 0..(x.n - 1),
         PromptAt(x, a, p) = PromptAt(x, b, q)
  PROVE  a = b /\ p = q
<1>1. x.n \in Nat /\ x.pool \in Nat
  BY LoadBoundsAssumption DEF Workloads
<1>2. CASE x.pool = 0
  BY <1>2 DEF PromptAt
<1>3. CASE x.pool # 0
  <2> DEFINE n == x.n
  <2>1. \A c \in 0..(K - 1), r \in 0..(n - 1) : c * n + r \in Nat /\ c * n + r < c * n + n /\ c * n + n <= x.pool
    <3> TAKE c \in 0..(K - 1), r \in 0..(n - 1)
    <3>1. c * n + n <= K * n /\ c * n \in Nat /\ K * n \in Nat
      BY <1>1, Batches
    <3> HIDE DEF n
    <3>2. K * n <= x.pool
      BY <1>3 DEF n
    <3> QED BY <1>1, <3>1, <3>2 DEF n
  <2>2. \A c \in 0..(K - 1), r \in 0..(n - 1) : (c * n + r) % x.pool = c * n + r
    <3> TAKE c \in 0..(K - 1), r \in 0..(n - 1)
    <3>1. c * n + r \in Nat /\ c * n + r < x.pool
      BY <1>1, <2>1
    <3> HIDE DEF n
    <3> QED BY <1>1, <1>3, <3>1, Remainder
  <2>3. a * n + p = b * n + q
    BY <1>3, <2>2 DEF PromptAt
  <2>4. (a < b => a * n + n <= b * n) /\ (b < a => b * n + n <= a * n) /\ a * n \in Nat /\ b * n \in Nat
    BY <1>1, Batches
  <2>5. a = b
    <3> HIDE DEF n
    <3> QED BY <1>1, <2>3, <2>4 DEF n
  <2> QED BY <1>1, <2>3, <2>4, <2>5
<1> QED BY <1>2, <1>3

LEMMA WarmupApart ==
  ASSUME NEW x \in Workloads, NEW a \in Nat, NEW p
  PROVE  PromptAt(x, a, p) \notin Warmup
BY DEF PromptAt, Warmup, WarmupPrompt

\* A level has at least one request and no more than the workload.
LEMMA RequestsOfLevel ==
  ASSUME NEW x \in Workloads, NEW c \in Nat
  PROVE  LevelRequests(x, c) \in 1..x.n
<1>1. x.n \in Nat \ {0} /\ c * x.perSlot \in Nat /\ MinLevelRequests \in Nat \ {0}
  BY LoadBoundsAssumption, MinLevelRequestsAssumption DEF Workloads
<1>2. ASSUME NEW y \in Nat, NEW z \in Nat \ {0} PROVE Max({z, y}) \in Nat \ {0}
  <2>1. Max({z, y}) = CHOOSE m \in {z, y} : \A e \in {z, y} : m >= e
    BY DEF Max
  <2>2. \E m \in {z, y} : \A e \in {z, y} : m >= e
    OBVIOUS
  <2>3. Max({z, y}) \in {z, y} /\ Max({z, y}) >= z
    BY <2>1, <2>2
  <2> QED BY <2>3
<1>3. ASSUME NEW y \in Nat \ {0}, NEW z \in Nat \ {0} PROVE Min({z, y}) \in 1..z
  <2>1. Min({z, y}) = CHOOSE m \in {z, y} : \A e \in {z, y} : m <= e
    BY DEF Min
  <2>2. \E m \in {z, y} : \A e \in {z, y} : m <= e
    OBVIOUS
  <2>3. Min({z, y}) \in {z, y} /\ Min({z, y}) <= z
    BY <2>1, <2>2
  <2> QED BY <2>3
<1> QED BY <1>1, <1>2, <1>3 DEF LevelRequests

-----------------------------------------------------------------------------
(* The trial.                                                              *)

\* A workload that stays keeps its levels in their places.
LEMMA LevelsStay ==
  ASSUME UNCHANGED <<w, mode>>
  PROVE  /\ LevelCount' = LevelCount /\ Warmup' = Warmup /\ Called' = Called
         /\ \A k : LevelAt(k)' = LevelAt(k)
BY DEF LevelCount, Warmup, Called, LevelAt, Before

\* The batch of this drive is none of those behind what was sent before it.
LEMMA BatchApart ==
  ASSUME TypeOKTrial, InTurn, tpc = "drive"
  PROVE  /\ Batch \in 0..((IF mode.close THEN 2 ELSE 1) * LevelCount - 1)
         /\ Taken \subseteq 0..((IF mode.close THEN 2 ELSE 1) * LevelCount - 1)
         /\ Batch \notin Taken
<1>1. Called /\ LevelCount \in Nat \ {0} /\ pos \in Numbers /\ extra \in BOOLEAN /\ (extra => mode.close)
  BY CallKnown, LevelNumbers DEF TypeOKTrial, InTurn, Numbers
<1>2. /\ \A k \in Numbers : LevelAt(k) \in 0..(LevelCount - 1)
      /\ \A k, l \in Numbers : LevelAt(k) = LevelAt(l) => k = l
  BY <1>1, LevelPlaces DEF Numbers
<1>3. Level = LevelAt(pos) /\ \A k \in 0..(pos - 1) : k \in Numbers /\ k # pos
  BY <1>1 DEF Level, Numbers
<1>4. Taken = {LevelAt(k) : k \in 0..(pos - 1)}
                \cup (IF mode.close THEN {LevelAt(k) + LevelCount : k \in 0..(pos - 1)} ELSE {})
                \cup (IF extra THEN {Level} ELSE {})
  BY DEF Taken
<1>5. /\ Level \in 0..(LevelCount - 1)
      /\ \A k \in 0..(pos - 1) : LevelAt(k) \in 0..(LevelCount - 1) /\ LevelAt(k) # Level
  BY <1>1, <1>2, <1>3
<1>6. Batch = IF extra THEN Level + LevelCount ELSE Level
  BY DEF Batch
<1>7. Batch \notin Taken
  <2>1. CASE extra
    <3>1. Batch # Level /\ \A k \in 0..(pos - 1) : Batch # LevelAt(k) /\ Batch # LevelAt(k) + LevelCount
      BY <1>1, <1>5, <1>6, <2>1
    <3> QED BY <1>4, <3>1
  <2>2. CASE ~extra
    <3>1. \A k \in 0..(pos - 1) : Batch # LevelAt(k) /\ Batch # LevelAt(k) + LevelCount
      BY <1>1, <1>5, <1>6, <2>2
    <3> QED BY <1>4, <2>2, <3>1
  <2> QED BY <1>1, <2>1, <2>2
<1>8. CASE mode.close
  <2>1. 2 * LevelCount - 1 \in Int /\ \A x \in 0..(LevelCount - 1) : {x, x + LevelCount} \subseteq 0..(2 * LevelCount - 1)
    BY <1>1
  <2> QED BY <1>4, <1>5, <1>6, <1>7, <1>8, <2>1
<1>9. CASE ~mode.close
  <2>1. 1 * LevelCount - 1 = LevelCount - 1 /\ ~extra
    BY <1>1, <1>9
  <2> QED BY <1>4, <1>5, <1>6, <1>7, <1>9, <2>1
<1> QED BY <1>8, <1>9

\* In the first trial of an engine, what goes out is fresh.
LEMMA FreshDrive ==
  ASSUME TrialInv, Drive, setting = 0, RoomFor(w, mode.close)
  PROVE  SendsFresh
<1>1. /\ LoadInv /\ TypeOKTrial /\ InTurn /\ SentInTurn /\ tpc = "drive" /\ Called
      /\ w \in Workloads /\ w.n \in Nat
  BY CallKnown, LoadBoundsAssumption DEF TrialInv, Drive, Called, Workloads
<1>2. \A p \in Positions : req[p] # "none" => p \in 0..(w.n - 1)
  <2>1. ask.n \in Nat /\ MaxPrompts \in Nat
    BY <1>1, LoadBoundsAssumption DEF LoadInv, TypeOKLoad
  <2>2. \A p \in Positions : req[p] # "none" => p < ask.n /\ ask.n <= w.n
    BY <1>1 DEF LoadInv, AsAsked, InTurn
  <2> QED BY <1>1, <2>1, <2>2 DEF Positions
<1> DEFINE K == (IF mode.close THEN 2 ELSE 1) * LevelCount
<1>3. K \in Nat /\ Batch \in 0..(K - 1) /\ Taken \subseteq 0..(K - 1) /\ Batch \notin Taken /\ Batch \in Nat
  BY <1>1, BatchApart, LevelNumbers
<1>4. w.pool = 0 \/ K * w.n <= w.pool
  BY DEF RoomFor, LevelCount
<1> HIDE DEF K
<1>5. SUFFICES ASSUME NEW p \in Positions, req[p] = "wait", PromptAt(w, Batch, p) \in sent PROVE FALSE
  BY DEF SendsFresh
<1>6. p \in 0..(w.n - 1)
  BY <1>2, <1>5
<1>7. PromptAt(w, Batch, p) \notin Warmup
  BY <1>1, <1>3, WarmupApart
<1>8. ASSUME NEW b \in Taken, NEW q \in 0..(w.n - 1), PromptAt(w, Batch, p) = PromptAt(w, b, q) PROVE FALSE
  <2>1. b \in 0..(K - 1)
    BY <1>3
  <2>2. Batch = b
    BY <1>1, <1>3, <1>4, <1>6, <1>8, <2>1, PromptsDiffer
  <2> QED BY <1>3, <2>2
<1>9. ASSUME NEW q \in Positions, req[q] # "wait", q < w.n, PromptAt(w, Batch, p) = PromptAt(w, Batch, q) PROVE FALSE
  <2>1. q \in 0..(w.n - 1)
    BY <1>1, <1>9, LoadBoundsAssumption DEF Positions
  <2>2. p = q
    BY <1>1, <1>3, <1>4, <1>6, <1>9, <2>1, PromptsDiffer
  <2> QED BY <1>5, <1>9, <2>2
<1> QED BY <1>1, <1>5, <1>7, <1>8, <1>9 DEF SentInTurn

-----------------------------------------------------------------------------
(* Every step keeps the invariant.                                         *)

LEMMA InitTrial == Init => TrialInv
<1> SUFFICES ASSUME Init PROVE TrialInv
  OBVIOUS
<1>1. LoadInv
  BY NoLoadYet DEF Init
<1>2. TypeOKTrial
  <2>1. PICK c \in Calls : w = c.w /\ mode = c.mode
    BY DEF Init
  <2>2. w.concs \in Seq(Nat \ {0}) /\ w.concs # <<>>
    BY <2>1, CallsAssumption
  <2>3. 0 \in 0..(LevelCount - 1)
    BY <2>2 DEF LevelCount
  <2>4. /\ tpc = "trial" /\ setting = 0 /\ pos = 0 /\ extra = FALSE /\ metered = FALSE /\ trials = <<>>
        /\ level \in [all : Nat, failed : Nat] /\ total \in [all : Nat, failed : Nat, energy : BOOLEAN]
    BY DEF Init, Nothing
  <2>5. trials \in Seq([ok : BOOLEAN, energy : BOOLEAN])
    BY <2>4
  <2>6. \E d \in Calls : w = d.w /\ mode = d.mode
    BY <2>1
  <2>7. setting \in Nat /\ pos \in 0..(LevelCount - 1)
    BY <2>3, <2>4
  <2> QED BY <2>4, <2>5, <2>6, <2>7 DEF TypeOKTrial
<1>3. InTurn /\ SentInTurn
  BY DEF Init, InitLoad, InTurn, SentInTurn
<1> QED BY <1>1, <1>2, <1>3 DEF TrialInv

\* The steps between the drives leave the load alone.
LEMMA BetweenDrives ==
  ASSUME TrialInv, BeginTrial \/ EndLevel \/ NextLevel \/ EndTrial \/ Return
  PROVE  TrialInv'
<1>1. /\ LoadInv /\ TypeOKTrial /\ InTurn /\ SentInTurn
      /\ UNCHANGED <<lvars, w, mode>> /\ tpc \in {"trial", "judge", "next"} /\ tpc' # "drive"
  BY DEF TrialInv, BeginTrial, EndLevel, NextLevel, EndTrial, Return, Over
<1>2. LoadInv' /\ dpc = "off" /\ dpc' = "off" /\ UNCHANGED <<ask, req>>
  BY <1>1, SameLoad DEF InTurn, lvars
<1>3. LevelCount' = LevelCount /\ Warmup' = Warmup /\ \A k : LevelAt(k)' = LevelAt(k)
  BY <1>1, LevelsStay
<1>4. LevelCount \in Nat \ {0}
  BY <1>1, CallKnown, LevelNumbers
<1>5. ASSUME SentInTurn, setting' = 0, sent' = sent, setting = 0, Taken \subseteq Taken', tpc # "drive" PROVE SentInTurn'
  BY <1>1, <1>3, <1>5 DEF SentInTurn, PromptAt
<1>6. CASE BeginTrial
  <2>1. TypeOKTrial'
    BY <1>1, <1>3, <1>4, <1>6 DEF BeginTrial, TypeOKTrial
  <2>2. InTurn'
    BY <1>1, <1>2, <1>6 DEF BeginTrial, InTurn
  <2>3. SentInTurn'
    BY <1>1, <1>3, <1>6 DEF BeginTrial, InTurn, SentInTurn
  <2> QED BY <1>2, <2>1, <2>2, <2>3 DEF TrialInv
<1>7. CASE EndLevel
  <2>1. TypeOKTrial'
    <3>1. total' \in [all : Nat, failed : Nat, energy : BOOLEAN]
      <4>1. level.all \in Nat /\ level.failed \in Nat /\ total.all \in Nat /\ total.failed \in Nat
        BY <1>1 DEF TypeOKTrial
      <4>2. (total.energy /\ metered /\ level.failed < level.all) \in BOOLEAN
        OBVIOUS
      <4> QED BY <1>7, <4>1, <4>2 DEF EndLevel
    <3> QED BY <1>1, <1>3, <1>7, <3>1 DEF EndLevel, TypeOKTrial
  <2>2. InTurn'
    BY <1>1, <1>2, <1>7 DEF EndLevel, InTurn
  <2>3. Taken \subseteq Taken'
    <3>1. Level' = Level /\ pos' = pos /\ mode' = mode /\ tpc = "judge" /\ tpc' = "next"
      BY <1>1, <1>3, <1>7 DEF EndLevel, Level
    <3> QED BY <1>3, <3>1 DEF Taken
  <2>4. SentInTurn'
    <3>1. UNCHANGED <<setting, sent>> /\ tpc # "drive"
      BY <1>7 DEF EndLevel
    <3> QED BY <1>1, <1>5, <2>3, <3>1 DEF SentInTurn
  <2> QED BY <1>2, <2>1, <2>2, <2>4 DEF TrialInv
<1>8. CASE NextLevel
  <2>1. TypeOKTrial'
    BY <1>1, <1>3, <1>4, <1>8 DEF NextLevel, TypeOKTrial
  <2>2. InTurn'
    BY <1>1, <1>2, <1>8 DEF NextLevel, InTurn
  <2>3. Taken \subseteq Taken'
    <3>1. /\ Level = LevelAt(pos) /\ pos' = pos + 1 /\ mode' = mode /\ tpc = "next" /\ tpc' = "level"
          /\ pos \in Nat
      BY <1>1, <1>4, <1>8 DEF NextLevel, Level, TypeOKTrial
    <3>2. pos \in 0..(pos' - 1) /\ 0..(pos - 1) \subseteq 0..(pos' - 1)
      BY <3>1
    <3>3. Taken' = {LevelAt(k) : k \in 0..(pos' - 1)}
                     \cup (IF mode.close THEN {LevelAt(k) + LevelCount : k \in 0..(pos' - 1)} ELSE {})
                     \cup (IF extra' THEN {Level'} ELSE {})
      BY <1>3, <3>1 DEF Taken
    <3>4. Taken \subseteq {LevelAt(k) : k \in 0..(pos - 1)}
                     \cup (IF mode.close THEN {LevelAt(k) + LevelCount : k \in 0..(pos - 1)} ELSE {})
                     \cup {LevelAt(pos)} \cup (IF mode.close THEN {LevelAt(pos) + LevelCount} ELSE {})
      BY <3>1 DEF Taken
    <3> QED BY <3>2, <3>3, <3>4
  <2>4. SentInTurn'
    <3>1. UNCHANGED <<setting, sent>> /\ tpc # "drive"
      BY <1>8 DEF NextLevel
    <3> QED BY <1>1, <1>5, <2>3, <3>1 DEF SentInTurn
  <2> QED BY <1>2, <2>1, <2>2, <2>4 DEF TrialInv
<1>9. CASE EndTrial
  <2>1. /\ setting' = setting + 1 /\ setting \in Nat /\ tpc' = "trial" /\ tpc = "next"
        /\ UNCHANGED <<pos, extra, metered, level, total, sent>>
    BY <1>1, <1>9 DEF EndTrial, Over, TypeOKTrial
  <2>2. TypeOKTrial'
    <3>1. trials' \in Seq([ok : BOOLEAN, energy : BOOLEAN])
      <4>1. [ok |-> Ok(total), energy |-> total.energy /\ total.failed < total.all] \in [ok : BOOLEAN, energy : BOOLEAN]
        BY DEF Ok
      <4> QED BY <1>1, <1>9, <4>1 DEF EndTrial, Over, TypeOKTrial
    <3>2. setting' \in Nat
      BY <2>1
    <3> QED BY <1>1, <1>3, <2>1, <3>1, <3>2 DEF TypeOKTrial
  <2>3. InTurn'
    BY <1>1, <1>2, <2>1 DEF InTurn
  <2>4. SentInTurn'
    BY <2>1 DEF SentInTurn
  <2> QED BY <1>2, <2>2, <2>3, <2>4 DEF TrialInv
<1>10. CASE Return
  <2>1. UNCHANGED <<setting, pos, extra, metered, level, total, trials, sent>> /\ tpc' = "done" /\ tpc = "trial"
    BY <1>10 DEF Return
  <2>2. TypeOKTrial'
    BY <1>1, <1>3, <2>1 DEF TypeOKTrial
  <2>3. InTurn'
    BY <1>1, <1>2, <2>1 DEF InTurn
  <2>4. SentInTurn'
    BY <1>1, <2>1 DEF SentInTurn, InTurn
  <2> QED BY <1>2, <2>2, <2>3, <2>4 DEF TrialInv
<1> QED BY <1>6, <1>7, <1>8, <1>9, <1>10

\* A drive is begun for a level, or for measuring it again.
LEMMA DriveBegins ==
  ASSUME TrialInv, BeginLevel \/ Resample
  PROVE  TrialInv'
<1>1. /\ LoadInv /\ TypeOKTrial /\ InTurn /\ SentInTurn /\ Called /\ w \in Workloads
      /\ UNCHANGED <<w, mode, setting, pos, total, trials, sent>>
      /\ DriveLevel(LevelRequests(w, Concurrency), Concurrency, mode.clients)
      /\ tpc' = "drive" /\ tpc \in {"level", "judge"}
  BY CallKnown DEF TrialInv, BeginLevel, Resample, Called
<1>2. LevelCount' = LevelCount /\ Warmup' = Warmup /\ \A k : LevelAt(k)' = LevelAt(k)
  BY <1>1, LevelsStay
<1>3. Concurrency \in Nat \ {0} /\ mode.clients \in 1..MaxClients
  <2>1. pos \in Numbers
    BY <1>1 DEF TypeOKTrial, Numbers
  <2> QED BY <1>1, <2>1, LevelPlaces, LevelNumbers DEF Concurrency, Level, Called, Modes
<1>4. LevelRequests(w, Concurrency) \in 1..w.n /\ w.n \in 1..MaxPrompts
  BY <1>1, <1>3, RequestsOfLevel DEF Workloads
<1>5. LoadInv'
  <2>1. LevelRequests(w, Concurrency) \in 1..MaxPrompts
    BY <1>4, LoadBoundsAssumption
  <2> QED BY <1>1, <1>3, <2>1, DriveKeeps
<1>6. TypeOKTrial'
  <2>1. extra' \in BOOLEAN /\ metered' \in BOOLEAN /\ level' \in [all : Nat, failed : Nat]
    <3>1. CASE BeginLevel
      BY <1>1, <3>1 DEF BeginLevel, TypeOKTrial, Nothing
    <3>2. CASE Resample
      BY <1>1, <3>2 DEF Resample, TypeOKTrial
    <3> QED BY <3>1, <3>2
  <2> QED BY <1>1, <1>2, <2>1 DEF TypeOKTrial
<1>7. InTurn'
  <2>1. extra' => mode.close
    BY <1>1 DEF BeginLevel, Resample, InTurn
  <2>2. ask'.n <= w'.n
    BY <1>1, <1>4 DEF DriveLevel
  <2> QED BY <1>1, <2>1, <2>2 DEF InTurn
<1>8. SentInTurn'
  <2>1. Taken \subseteq Taken'
    <3>1. Level' = Level
      BY <1>1, <1>2 DEF Level
    <3>2. (tpc = "level" /\ ~extra /\ ~extra') \/ (tpc = "judge" /\ ~extra /\ extra')
      BY <1>1 DEF BeginLevel, Resample, InTurn, TypeOKTrial
    <3> QED BY <1>1, <1>2, <3>1, <3>2 DEF Taken
  <2> QED BY <1>1, <1>2, <2>1 DEF SentInTurn, PromptAt
<1> QED BY <1>5, <1>6, <1>7, <1>8 DEF TrialInv

\* A drive is over, with its outcomes or an exception.
LEMMA DriveOver ==
  ASSUME TrialInv, Gather \/ TrialRaises
  PROVE  TrialInv'
<1>1. /\ LoadInv /\ TypeOKTrial /\ InTurn /\ SentInTurn /\ Called /\ w.n \in Nat /\ EndDrive
      /\ UNCHANGED <<w, mode, pos, total, sent>> /\ tpc = "drive"
  BY CallKnown, LoadBoundsAssumption DEF TrialInv, Gather, TrialRaises, Called, Workloads
<1>2. LevelCount' = LevelCount /\ Warmup' = Warmup /\ \A k : LevelAt(k)' = LevelAt(k)
  BY <1>1, LevelsStay
<1>3. LoadInv' /\ dpc' = "off"
  BY <1>1, EndKeeps DEF EndDrive
<1>4. CASE Gather
  <2>1. UNCHANGED <<setting, extra, metered, trials>> /\ tpc' = "judge"
    BY <1>4 DEF Gather
  <2>2. TypeOKTrial'
    <3>1. level' \in [all : Nat, failed : Nat]
      <4>1. ask \in Asks /\ ask.n \in Nat
        BY <1>1, LoadBoundsAssumption DEF LoadInv, TypeOKLoad, Asks
      <4>2. Cardinality({p \in Positions : merged[p] = "failed"}) \in Nat
        BY <4>1, FiniteLoad
      <4>3. level.all \in Nat /\ level.failed \in Nat
        BY <1>1 DEF TypeOKTrial
      <4> QED BY <1>4, <4>1, <4>2, <4>3 DEF Gather
    <3> QED BY <1>1, <1>2, <2>1, <3>1 DEF TypeOKTrial
  <2>3. InTurn'
    BY <1>1, <1>3, <2>1 DEF InTurn
  <2>4. Taken \cup {Batch} \subseteq Taken'
    <3>1. Level' = Level /\ (extra => mode.close)
      BY <1>1, <1>2 DEF Level, InTurn
    <3> QED BY <1>1, <1>2, <2>1, <3>1 DEF Taken, Batch
  <2>5. SentInTurn'
    <3>1. ASSUME setting = 0, NEW x \in sent
          PROVE  x \in Warmup \/ \E b \in Taken', p \in 0..(w.n - 1) : x = PromptAt(w, b, p)
      <4>1. ASSUME NEW p \in Positions, p < w.n PROVE p \in 0..(w.n - 1)
        BY <1>1, <4>1, LoadBoundsAssumption DEF Positions
      <4> QED BY <1>1, <2>4, <3>1, <4>1 DEF SentInTurn
    <3> QED BY <1>1, <1>2, <2>1, <3>1 DEF SentInTurn, PromptAt
  <2> QED BY <1>3, <2>2, <2>3, <2>5 DEF TrialInv
<1>5. CASE TrialRaises
  <2>1. /\ setting' = setting + 1 /\ setting \in Nat /\ tpc' = "trial" /\ extra' = FALSE /\ metered' = FALSE
        /\ level' = level /\ trials' = Append(trials, [ok |-> FALSE, energy |-> FALSE])
    BY <1>1, <1>5 DEF TrialRaises, Over, TypeOKTrial
  <2>2. TypeOKTrial'
    <3>1. trials' \in Seq([ok : BOOLEAN, energy : BOOLEAN])
      BY <1>1, <2>1 DEF TypeOKTrial
    <3>2. setting' \in Nat
      BY <2>1
    <3> QED BY <1>1, <1>2, <2>1, <3>1, <3>2 DEF TypeOKTrial
  <2>3. InTurn'
    BY <1>1, <1>3, <2>1 DEF InTurn
  <2>4. SentInTurn'
    BY <2>1 DEF SentInTurn
  <2> QED BY <1>3, <2>2, <2>3, <2>4 DEF TrialInv
<1> QED BY <1>4, <1>5

\* What goes out is a prompt of this drive's batch.
LEMMA DriveGoesOn ==
  ASSUME TrialInv, Drive
  PROVE  TrialInv'
<1>1. /\ LoadInv /\ TypeOKTrial /\ InTurn /\ SentInTurn /\ LoadStep /\ Driving
      /\ UNCHANGED <<w, mode, tpc, setting, pos, extra, metered, level, total, trials>> /\ tpc = "drive"
      /\ sent' = sent \cup {PromptAt(w, Batch, p) : p \in {q \in Positions : req[q] = "wait" /\ req'[q] = "flight"}}
  BY DEF TrialInv, Drive, Driving
<1>2. LoadInv' /\ ask' = ask
  BY <1>1, LoadKept, SharesStay
<1>3. LevelCount' = LevelCount /\ Warmup' = Warmup /\ Taken' = Taken /\ Batch' = Batch
  <2>1. LevelCount' = LevelCount /\ Warmup' = Warmup /\ \A k : LevelAt(k)' = LevelAt(k)
    BY <1>1, LevelsStay
  <2> QED BY <1>1, <2>1 DEF Taken, Batch, Level
<1>4. TypeOKTrial'
  BY <1>1, <1>3 DEF TypeOKTrial
<1>5. InTurn'
  <2>1. dpc # "off"
    BY <1>1, LevelIsOn
  <2> QED BY <1>1, <1>2, <2>1 DEF InTurn
<1>6. SentInTurn'
  <2>1. \A p \in Positions : req[p] # "wait" => req'[p] # "wait"
    BY <1>1, RequestsMove DEF Moved
  <2>2. \A p \in Positions : req[p] = "wait" => p < w.n
    <3>1. ask.n \in Nat /\ w.n \in Nat
      BY <1>1, CallKnown, LoadBoundsAssumption DEF LoadInv, TypeOKLoad, Called, Workloads
    <3>2. \A p \in Positions : req[p] = "wait" => p < ask.n /\ ask.n <= w.n
      BY <1>1 DEF LoadInv, AsAsked, InTurn
    <3> QED BY <3>1, <3>2, LoadBoundsAssumption DEF Positions
  <2> QED BY <1>1, <1>3, <2>1, <2>2 DEF SentInTurn, PromptAt
<1> QED BY <1>2, <1>4, <1>5, <1>6 DEF TrialInv

-----------------------------------------------------------------------------

LEMMA NextKeepsTrial == TrialInv /\ [Next]_vars => TrialInv'
<1> SUFFICES ASSUME TrialInv, [Next]_vars PROVE TrialInv'
  OBVIOUS
<1>1. CASE UNCHANGED vars
  <2>1. UNCHANGED lvars /\ UNCHANGED tvars
    BY <1>1 DEF vars
  <2>2. LoadInv'
    BY <2>1, SameLoad DEF TrialInv
  <2>3. UNCHANGED <<dpc, ask, req>> /\ UNCHANGED <<w, mode, tpc, setting, pos, extra, metered, level, total, trials, sent>>
    BY <2>1 DEF lvars, tvars
  <2>4. LevelCount' = LevelCount /\ Warmup' = Warmup /\ Taken' = Taken /\ Batch' = Batch
    <3>1. LevelCount' = LevelCount /\ Warmup' = Warmup /\ \A k : LevelAt(k)' = LevelAt(k)
      BY <2>3, LevelsStay
    <3> QED BY <2>3, <3>1 DEF Taken, Batch, Level
  <2>5. TypeOKTrial' /\ InTurn' /\ SentInTurn'
    BY <2>3, <2>4 DEF TrialInv, TypeOKTrial, InTurn, SentInTurn, PromptAt
  <2> QED BY <2>2, <2>5 DEF TrialInv
<1> QED BY <1>1, BetweenDrives, DriveBegins, DriveOver, DriveGoesOn DEF Next, Step

\* The invariant of a trial and of its levels holds for any calls, prompts, clients and deaths.
THEOREM TrialGoesInTurn == Spec => []TrialInv
  BY InitTrial, NextKeepsTrial, PTL DEF Spec

\* Whichever clients die and whenever they do, a level reports one outcome for each of its
\* prompts: as its client saw it when that client has posted, else a failure.
THEOREM LevelsReported == Spec => []Reported
<1>1. TrialInv => Reported
  BY DEF TrialInv, LoadInv
<1> QED BY <1>1, TrialGoesInTurn, PTL

\* However many clients share a level, no more requests are in flight than were asked for,
\* but for the rounding of the shares.
THEOREM LevelsAsAsked == Spec => []LoadAsAsked
<1>1. TrialInv => LoadAsAsked
  BY InFlightBounded DEF TrialInv
<1> QED BY <1>1, TrialGoesInTurn, PTL

\* In the first trial on an engine no prompt is sent twice, for any workload, any order of
\* its levels and any of them measured again, where the pool has room.
THEOREM FirstTrialFresh == Spec => FreshWhereRoom
<1>1. TrialInv /\ [Next]_vars => [setting = 0 /\ RoomFor(w, mode.close) => SendsFresh]_vars
  <2> SUFFICES ASSUME TrialInv, Next, setting = 0, RoomFor(w, mode.close) PROVE SendsFresh
    OBVIOUS
  <2>1. CASE Drive
    BY <2>1, FreshDrive
  <2>2. CASE Step
    <3>1. \A p \in Positions : req'[p] = "flight" => req'[p] = req[p]
      BY <2>2 DEF Step, BeginTrial, BeginLevel, Gather, Resample, EndLevel, NextLevel, EndTrial, TrialRaises, Return,
                  DriveLevel, EndDrive, lvars
    <3> QED BY <3>1 DEF SendsFresh
  <2> QED BY <2>1, <2>2 DEF Next
<1> QED BY <1>1, TrialGoesInTurn, PTL DEF Spec, FreshWhereRoom
=============================================================================

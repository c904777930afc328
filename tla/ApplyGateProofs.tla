-------------------------- MODULE ApplyGateProofs --------------------------
(***************************************************************************)
(* Theorems about ApplyGate, for any number of callers going through any   *)
(* mix of entry points, any number of runs and of crashes.                 *)
(***************************************************************************)
EXTENDS ApplyGate, TLAPS

\* What the proofs need to know of the routes.
RouteFacts ==
  \A k \in Kinds :
    /\ Len(Route[k]) \in 1..6
    /\ \A i \in 1..Len(Route[k]) : Route[k][i] = "arrs" =>
         i < Len(Route[k]) /\ Route[k][i + 1] = "qbit"
    /\ \A app \in {"arrs", "qbit"} : \E i \in 1..Len(Route[k]) : Route[k][i] = app
    /\ \E i \in 1..Len(Route[k]) : Route[k][i] = "lock"
    /\ \A i, j \in 1..Len(Route[k]) : Route[k][i] = "lock" /\ Route[k][j] = "lock" => i = j

\* Every route asks both apps, qBittorrent right after the others, and takes
\* the lock once.
LEMMA Routes == RouteFacts
<1> SUFFICES ASSUME NEW k \in Kinds PROVE
      /\ Len(Route[k]) \in 1..6
      /\ \A i \in 1..Len(Route[k]) : Route[k][i] = "arrs" =>
           i < Len(Route[k]) /\ Route[k][i + 1] = "qbit"
      /\ \A app \in {"arrs", "qbit"} : \E i \in 1..Len(Route[k]) : Route[k][i] = app
      /\ \E i \in 1..Len(Route[k]) : Route[k][i] = "lock"
      /\ \A i, j \in 1..Len(Route[k]) : Route[k][i] = "lock" /\ Route[k][j] = "lock" => i = j
  BY DEF RouteFacts
<1>1. CASE k = "apply" BY <1>1 DEF Route
<1>2. CASE k = "planPage" BY <1>2 DEF Route
<1>3. CASE k = "downloadsPage" BY <1>3 DEF Route
<1>4. CASE k = "runPlan" BY <1>4 DEF Route
<1>5. CASE k = "runDownloads" BY <1>5 DEF Route
<1>6. CASE k = "removeSeeds" BY <1>6 DEF Route
<1> QED BY <1>1, <1>2, <1>3, <1>4, <1>5, <1>6 DEF Kinds, Route

-----------------------------------------------------------------------------
(* The inductive invariant *)

\* a has got past the lock on its way.
PastLock(a) == \E i \in 1..gate[a] : Route[Kind[a]][i] = "lock"
Holds(a) == at[a] \in {"entering", "running", "ending"} /\ PastLock(a)

\* An attempt goes through the gates of its route, and runs behind the last.
Gates ==
  \A a \in Attempts :
    /\ gate[a] \in 0..Len(Route[Kind[a]])
    /\ at[a] = "idle" => gate[a] = 0
    /\ at[a] \notin {"idle", "entering"} => gate[a] = Len(Route[Kind[a]])

\* The flock is held by whoever got past it and has not let go.
HoldsLock == \A a \in Attempts : Holds(a) <=> lock = a

\* Runs are numbered in the order they took the lock.
Numbered ==
  /\ \A m \in moves \cup late : m.run <= runs
  /\ \A a \in Attempts : /\ Holds(a) => runOf[a] \in 1..runs
                         /\ at[a] = "idle" => runOf[a] = 0
                         /\ at[a] = "entering" /\ ~PastLock(a) => runOf[a] = 0

\* A move that is not a's own was handed over since a began asking, or its
\* app has yet to be asked.
Asked ==
  \A a \in Attempts : at[a] \in {"entering", "running"} =>
    \A m \in moves :
      \/ m.run = runOf[a]
      \/ m \in since[a]
      \/ \E i \in (gate[a] + 1)..Len(Route[Kind[a]]) : Route[Kind[a]][i] = m.app

\* The server keeps the record of a published run until it is released.
Recorded ==
  \A a \in Attempts :
    /\ a \in active => /\ at[a] \in {"running", "ending", "released"}
                       /\ at[a] # "released" => current[Slot(a)] = a
    /\ at[a] = "ending" /\ Publishes(a) => a \in active

IInv == TypeOK /\ Gates /\ HoldsLock /\ Numbered /\ Asked /\ Recorded

\* The invariant holds before anybody has begun.
LEMMA InitIInv == Init => IInv
<1> SUFFICES ASSUME Init PROVE IInv
  OBVIOUS
<1>1. TypeOK BY BoundsAssumption DEF Init, TypeOK
<1>2. Gates
  <2>1. \A a \in Attempts : Len(Route[Kind[a]]) \in Nat
    BY Routes, AttemptsAssumption DEF RouteFacts
  <2>2. \A a \in Attempts : gate[a] = 0 /\ at[a] = "idle" BY DEF Init
  <2> SUFFICES ASSUME NEW a \in Attempts
               PROVE  /\ gate[a] \in 0..Len(Route[Kind[a]])
                      /\ at[a] = "idle" => gate[a] = 0
                      /\ at[a] \notin {"idle", "entering"} => gate[a] = Len(Route[Kind[a]])
    BY DEF Gates
  <2>3. gate[a] \in 0..Len(Route[Kind[a]]) BY <2>1, <2>2
  <2> QED BY <2>2, <2>3
<1>3. HoldsLock /\ Numbered
  BY AttemptsAssumption DEF Init, HoldsLock, Holds, Numbered
<1>4. Asked /\ Recorded BY DEF Init, Asked, Recorded
<1> QED BY <1>1, <1>2, <1>3, <1>4 DEF IInv

\* A step that leaves places, gates, the lock and the runs alone.
LEMMA SamePlaces ==
  ASSUME IInv, UNCHANGED <<at, gate, lock, runs, runOf>>
  PROVE  /\ Gates' /\ HoldsLock'
         /\ \A a \in Attempts : PastLock(a)' = PastLock(a) /\ Holds(a)' = Holds(a)
BY DEF IInv, Gates, HoldsLock, Holds, PastLock

\* Where an attempt is that faces a gate.
LEMMA Place ==
  ASSUME IInv, NEW a \in Attempts, NEW g, Facing(a, g)
  PROVE  /\ Kind[a] \in Kinds /\ gate[a] \in Nat /\ Len(Route[Kind[a]]) \in Nat
         /\ gate[a] < Len(Route[Kind[a]])
         /\ gate[a] + 1 \in 1..Len(Route[Kind[a]])
         /\ Route[Kind[a]][gate[a] + 1] = g
<1>1. Kind[a] \in Kinds BY AttemptsAssumption
<1>2. Len(Route[Kind[a]]) \in Nat BY <1>1, Routes DEF RouteFacts
<1>3. gate[a] \in Nat BY DEF IInv, TypeOK
<1>4. gate[a] < Len(Route[Kind[a]]) /\ Route[Kind[a]][gate[a] + 1] = g
  BY DEF Facing
<1>5. gate[a] + 1 \in 1..Len(Route[Kind[a]]) BY ONLY <1>2, <1>3, <1>4
<1> QED BY <1>1, <1>2, <1>3, <1>4, <1>5

\* Passing a gate other than the lock.
LEMMA Passing ==
  ASSUME IInv, NEW a \in Attempts, NEW g, g # "lock", Facing(a, g), Pass(a),
         UNCHANGED <<at, lock, runs, runOf>>
  PROVE  /\ Gates' /\ HoldsLock'
         /\ gate[a]' = gate[a] + 1
         /\ \A b \in Attempts : PastLock(b)' = PastLock(b) /\ Holds(b)' = Holds(b)
<1>1. /\ Kind[a] \in Kinds /\ gate[a] \in Nat /\ Len(Route[Kind[a]]) \in Nat
      /\ gate[a] < Len(Route[Kind[a]])
  BY Place
<1>2. gate[a]' = gate[a] + 1
  BY DEF Pass, IInv, TypeOK
<1>3. \A b \in Attempts : b # a => gate[b]' = gate[b]
  BY DEF Pass, IInv, TypeOK
<1>4. Gates'
  BY <1>1, <1>2, <1>3 DEF IInv, Gates, Facing
<1>5. PastLock(a)' = PastLock(a)
  <2>1. Route[Kind[a]][gate[a] + 1] # "lock"
    BY DEF Facing
  <2>2. \A i \in 1..(gate[a] + 1) : i \in 1..gate[a] \/ i = gate[a] + 1
    BY <1>1
  <2>3. 1..gate[a] \subseteq 1..(gate[a] + 1)
    BY <1>1
  <2> QED BY <1>2, <2>1, <2>2, <2>3 DEF PastLock
<1>6. \A b \in Attempts : PastLock(b)' = PastLock(b)
  BY <1>3, <1>5 DEF PastLock
<1>7. \A b \in Attempts : Holds(b)' = Holds(b)
  BY <1>6 DEF Holds
<1> QED BY <1>2, <1>4, <1>6, <1>7 DEF IInv, HoldsLock

\* No move in flight is of the app whose gate is passed.
LEMMA AskedPassing ==
  ASSUME IInv, NEW a \in Attempts, NEW g, g # "lock", Facing(a, g), Pass(a),
         UNCHANGED <<at, lock, runs, runOf, late, moves, since>>,
         \A m \in moves : m.app # g
  PROVE  Asked'
<1> SUFFICES ASSUME NEW b \in Attempts, at[b] \in {"entering", "running"}, NEW m \in moves,
                    m.run # runOf[b], m \notin since[b]
             PROVE  \E i \in (gate[b]' + 1)..Len(Route[Kind[b]]) : Route[Kind[b]][i] = m.app
  BY DEF Asked
<1>1. PICK i \in (gate[b] + 1)..Len(Route[Kind[b]]) : Route[Kind[b]][i] = m.app
  BY DEF IInv, Asked
<1>2. CASE b = a
  <2>1. gate[a]' = gate[a] + 1 /\ gate[a] \in Nat /\ Len(Route[Kind[a]]) \in Nat
    BY Place DEF Pass, IInv, TypeOK
  <2>2. i # gate[a] + 1
    BY <1>1, <1>2 DEF Facing
  <2>3. i \in (gate[a]' + 1)..Len(Route[Kind[a]])
    BY <1>2, <2>1, <2>2
  <2> QED BY <1>1, <1>2, <2>3
<1>3. CASE b # a
  <2>1. gate[b]' = gate[b] BY <1>3 DEF Pass, IInv, TypeOK
  <2> QED BY <1>1, <2>1
<1> QED BY <1>2, <1>3

\* An attempt begins: nothing has been asked yet, and everything will be.
LEMMA BeginIInv ==
  ASSUME IInv, TypeOK', NEW a \in Attempts, Begin(a)
  PROVE  IInv'
<1> USE DEF Begin
<1>1. gate[a] = 0 /\ runOf[a] = 0 /\ lock # a
  BY DEF IInv, Gates, Numbered, HoldsLock, Holds
<1>2. \A b \in Attempts : PastLock(b)' = PastLock(b)
  BY DEF PastLock
<1>3. ~PastLock(a) BY <1>1 DEF PastLock
<1>4. \A b \in Attempts : b # a => at[b]' = at[b]
  BY DEF IInv, TypeOK
<1>5. at[a]' = "entering" BY DEF IInv, TypeOK
<1>6. \A b \in Attempts : Holds(b)' = Holds(b)
  BY <1>2, <1>3, <1>4, <1>5 DEF Holds
<1>7. Gates' BY <1>1, <1>4, <1>5 DEF IInv, Gates
<1>8. HoldsLock' BY <1>6 DEF IInv, HoldsLock
<1>9. Numbered' BY <1>1, <1>2, <1>4, <1>5, <1>6 DEF IInv, Numbered
<1>10. Asked'
  <2> SUFFICES ASSUME NEW b \in Attempts, at[b]' \in {"entering", "running"}, NEW m \in moves
               PROVE  \/ m.run = runOf[b] \/ m \in since[b]
                      \/ \E i \in (gate[b] + 1)..Len(Route[Kind[b]]) : Route[Kind[b]][i] = m.app
    BY DEF Asked
  <2>1. CASE b = a
    <3>1. m.app \in {"arrs", "qbit"} BY DEF IInv, TypeOK, Moves
    <3>2. PICK i \in 1..Len(Route[Kind[a]]) : Route[Kind[a]][i] = m.app
      BY <3>1, Routes, AttemptsAssumption DEF RouteFacts
    <3> QED BY <1>1, <2>1, <3>2
  <2>2. CASE b # a BY <1>4, <2>2 DEF IInv, Asked
  <2> QED BY <2>1, <2>2
<1>11. Recorded'
  BY <1>4, <1>5 DEF IInv, Recorded
<1> QED BY <1>7, <1>8, <1>9, <1>10, <1>11 DEF IInv

\* Radarr and Sonarr are idle, and qBittorrent is asked next.
LEMMA ArrsIdleIInv ==
  ASSUME IInv, TypeOK', NEW a \in Attempts, ArrsIdle(a)
  PROVE  IInv'
<1> USE DEF ArrsIdle
<1>1. /\ Gates' /\ HoldsLock' /\ gate[a]' = gate[a] + 1
      /\ \A b \in Attempts : PastLock(b)' = PastLock(b) /\ Holds(b)' = Holds(b)
  BY Passing
<1>2. Numbered' BY <1>1 DEF IInv, Numbered
<1>3. Asked'
  <2> SUFFICES ASSUME NEW b \in Attempts, at[b] \in {"entering", "running"}, NEW m \in moves,
                      m.run # runOf[b], m \notin since[b]'
               PROVE  \E i \in (gate[b]' + 1)..Len(Route[Kind[b]]) : Route[Kind[b]][i] = m.app
    BY DEF Asked
  <2>1. CASE b = a
    <3>1. m.app = "qbit" BY DEF IInv, TypeOK, Moves
    <3>2. /\ Kind[a] \in Kinds /\ gate[a] \in Nat
          /\ gate[a] + 1 \in 1..Len(Route[Kind[a]])
          /\ Route[Kind[a]][gate[a] + 1] = "arrs"
      BY Place
    <3>3. /\ gate[a] + 1 < Len(Route[Kind[a]])
          /\ Route[Kind[a]][gate[a] + 1 + 1] = "qbit"
          /\ Len(Route[Kind[a]]) \in Nat
      <4>1. \A i \in 1..Len(Route[Kind[a]]) : Route[Kind[a]][i] = "arrs" =>
              i < Len(Route[Kind[a]]) /\ Route[Kind[a]][i + 1] = "qbit"
        BY <3>2, Routes DEF RouteFacts
      <4> QED BY <3>2, <4>1, Place
    <3> QED BY <1>1, <2>1, <3>1, <3>2, <3>3
  <2>2. CASE b # a
    <3>1. gate[b]' = gate[b] /\ since[b]' = since[b]
      BY <2>2 DEF Pass, IInv, TypeOK
    <3> QED BY <3>1 DEF IInv, Asked
  <2> QED BY <2>1, <2>2
<1>4. Recorded' BY DEF IInv, Recorded
<1> QED BY <1>1, <1>2, <1>3, <1>4 DEF IInv

\* A gate that is neither the first question nor the lock.
LEMMA PassIInv ==
  ASSUME IInv, TypeOK', NEW a \in Attempts, QbitIdle(a) \/ Confirm(a) \/ Plan(a)
  PROVE  IInv'
<1>1. PICK g \in {"qbit", "confirm", "plan"} :
        /\ Facing(a, g) /\ Pass(a) /\ \A m \in moves : m.app # g
        /\ UNCHANGED <<at, lock, runs, runOf, current, active, late, moves, since>>
  BY DEF QbitIdle, Confirm, Plan, IInv, TypeOK, Moves
<1>2. /\ Gates' /\ HoldsLock'
      /\ \A b \in Attempts : PastLock(b)' = PastLock(b) /\ Holds(b)' = Holds(b)
  BY <1>1, Passing
<1>3. Numbered' BY <1>1, <1>2 DEF IInv, Numbered
<1>4. Asked' BY <1>1, AskedPassing
<1>5. Recorded' BY <1>1 DEF IInv, Recorded
<1> QED BY <1>2, <1>3, <1>4, <1>5 DEF IInv

\* The lock is free and a takes it; its run is new to every app.
LEMMA AcquireLockIInv ==
  ASSUME IInv, TypeOK', NEW a \in Attempts, AcquireLock(a)
  PROVE  IInv'
<1> USE DEF AcquireLock
<1>1. /\ Kind[a] \in Kinds /\ gate[a] \in Nat /\ Len(Route[Kind[a]]) \in Nat
      /\ gate[a] < Len(Route[Kind[a]])
      /\ gate[a] + 1 \in 1..Len(Route[Kind[a]])
      /\ Route[Kind[a]][gate[a] + 1] = "lock" /\ at[a] = "entering"
  BY Place DEF Facing
<1>2. gate[a]' = gate[a] + 1 /\ \A b \in Attempts : b # a => gate[b]' = gate[b]
  BY DEF Pass, IInv, TypeOK
<1>3. PastLock(a)' BY <1>1, <1>2 DEF PastLock
<1>4. \A b \in Attempts : b # a => PastLock(b)' = PastLock(b)
  BY <1>2 DEF PastLock
<1>5. \A b \in Attempts : ~Holds(b)
  BY AttemptsAssumption DEF IInv, HoldsLock
<1>6. Holds(a)' /\ \A b \in Attempts : b # a => ~Holds(b)'
  BY <1>1, <1>3, <1>4, <1>5 DEF Holds
<1>7. Gates' BY <1>1, <1>2 DEF IInv, Gates
<1>8. HoldsLock' BY <1>6 DEF HoldsLock
<1>9. runs \in Nat /\ runs' = runs + 1 /\ runOf[a]' = runs + 1
      /\ \A b \in Attempts : b # a => runOf[b]' = runOf[b]
  BY BoundsAssumption DEF IInv, TypeOK
<1>10. Numbered'
  <2>1. \A m \in moves \cup late : m.run \in Int /\ m.run <= runs
    BY DEF IInv, TypeOK, Moves, Numbered
  <2>2. \A m \in moves' \cup late' : m.run <= runs'
    BY <1>9, <2>1
  <2>3. ASSUME NEW b \in Attempts
        PROVE  /\ Holds(b)' => runOf[b]' \in 1..runs'
               /\ at[b] = "idle" => runOf[b]' = 0
               /\ at[b] = "entering" /\ ~PastLock(b)' => runOf[b]' = 0
    <3>1. CASE b = a BY <1>1, <1>3, <1>9, <3>1
    <3>2. CASE b # a BY <1>4, <1>6, <1>9, <3>2 DEF IInv, Numbered
    <3> QED BY <3>1, <3>2
  <2> QED BY <2>2, <2>3 DEF Numbered
<1>11. Asked'
  <2> SUFFICES ASSUME NEW b \in Attempts, at[b] \in {"entering", "running"}, NEW m \in moves,
                      m.run # runOf[b]', m \notin since[b]
               PROVE  \E i \in (gate[b]' + 1)..Len(Route[Kind[b]]) : Route[Kind[b]][i] = m.app
    BY DEF Asked
  <2>1. m.run # runOf[b]
    <3>1. CASE b = a
      <4>1. runOf[a] = 0 BY <1>1, <1>5 DEF IInv, Numbered, Holds
      <4>2. m.run # 0 BY DEF IInv, TypeOK, Moves
      <4> QED BY <3>1, <4>1, <4>2
    <3>2. CASE b # a BY <3>2, <1>9
    <3> QED BY <3>1, <3>2
  <2>2. PICK i \in (gate[b] + 1)..Len(Route[Kind[b]]) : Route[Kind[b]][i] = m.app
    BY <2>1 DEF IInv, Asked
  <2>3. m.app # "lock" BY DEF IInv, TypeOK, Moves
  <2>4. CASE b = a
    <3>1. i # gate[a] + 1 BY <1>1, <2>2, <2>3, <2>4
    <3> QED BY <1>1, <1>2, <2>2, <2>4, <3>1
  <2>5. CASE b # a BY <1>2, <2>2, <2>5
  <2> QED BY <2>4, <2>5
<1>12. Recorded' BY DEF IInv, Recorded
<1> QED BY <1>7, <1>8, <1>10, <1>11, <1>12 DEF IInv

\* Attempts that are over hold nothing and have read nothing; whatever was
\* recorded of the others stays.
LEMMA ForgetIInv ==
  ASSUME IInv, TypeOK', NEW S \in SUBSET Attempts, Forget(S),
         lock' = IF lock \in S THEN Nobody ELSE lock,
         runs' = runs, late' = late, moves' = moves, active' = active \ S,
         \A b \in Attempts \ S : b \in active => current'[Slot(b)] = current[Slot(b)] \/ current[Slot(b)] # b
  PROVE  IInv'
<1> USE DEF Forget
<1>1. \A b \in S : at[b]' = "idle" /\ gate[b]' = 0 /\ runOf[b]' = 0
  OBVIOUS
<1>2. \A b \in Attempts \ S : /\ at[b]' = at[b] /\ gate[b]' = gate[b]
                             /\ runOf[b]' = runOf[b] /\ since[b]' = since[b]
  BY DEF IInv, TypeOK
<1>3. \A b \in Attempts \ S : PastLock(b)' = PastLock(b) /\ Holds(b)' = Holds(b)
  BY <1>2 DEF PastLock, Holds
<1>4. \A b \in S : ~Holds(b)' BY <1>1 DEF Holds
<1>5. Gates'
  <2>1. \A b \in Attempts : 0 \in 0..Len(Route[Kind[b]])
    BY AttemptsAssumption, Routes DEF RouteFacts
  <2> QED BY <1>1, <1>2, <2>1 DEF IInv, Gates
<1>6. HoldsLock'
  BY <1>3, <1>4, AttemptsAssumption DEF IInv, HoldsLock
<1>7. Numbered' BY <1>1, <1>2, <1>3, <1>4 DEF IInv, Numbered
<1>8. Asked' BY <1>1, <1>2 DEF IInv, Asked
<1>9. Recorded' BY <1>1, <1>2 DEF IInv, Recorded
<1> QED BY <1>5, <1>6, <1>7, <1>8, <1>9 DEF IInv

\* Giving up, letting the server forget a run, and dying.
LEMMA OverIInv ==
  ASSUME IInv, TypeOK', (\E a \in Attempts : GiveUp(a) \/ Deactivate(a)) \/ Crash
  PROVE  IInv'
<1>1. CASE \E a \in Attempts : GiveUp(a)
  <2>1. PICK a \in Attempts : GiveUp(a) BY <1>1
  <2>2. a \notin active BY <2>1 DEF GiveUp, IInv, Recorded
  <2> QED BY <2>1, <2>2, ForgetIInv, {a} \in SUBSET Attempts, active \ {a} = active DEF GiveUp
<1>2. CASE \E a \in Attempts : Deactivate(a)
  <2>1. PICK a \in Attempts : Deactivate(a) BY <1>2
  <2>2. lock # a BY <2>1 DEF Deactivate, IInv, HoldsLock, Holds
  <2> QED BY <2>1, <2>2, ForgetIInv, {a} \in SUBSET Attempts DEF Deactivate
<1>3. CASE Crash
  <2>1. PICK S \in SUBSET Attempts : Die(S) BY <1>3 DEF Crash, Web
  <2>2. \A b \in Attempts \ S : b \in active =>
          current'[Slot(b)] = current[Slot(b)] \/ current[Slot(b)] # b
    BY <2>1 DEF Die, IInv, TypeOK, Slot
  <2> QED BY <2>1, <2>2, ForgetIInv DEF Die
<1> QED BY <1>1, <1>2, <1>3

\* All gates passed: the run starts under the lock.
LEMMA StartRunIInv ==
  ASSUME IInv, TypeOK', NEW a \in Attempts, StartRun(a)
  PROVE  IInv'
<1> USE DEF StartRun
<1>1. at[a] = "entering" /\ gate[a] = Len(Route[Kind[a]])
  BY DEF Through
<1>2. at[a]' = "running" /\ \A b \in Attempts : b # a => at[b]' = at[b]
  BY DEF IInv, TypeOK
<1>3. \A b \in Attempts : PastLock(b)' = PastLock(b)
  BY DEF PastLock
<1>4. PastLock(a)
  BY <1>1, Routes, AttemptsAssumption DEF PastLock, RouteFacts
<1>5. \A b \in Attempts : Holds(b)' = Holds(b)
  BY <1>1, <1>2, <1>3 DEF Holds
<1>6. Gates' BY <1>1, <1>2 DEF IInv, Gates
<1>7. HoldsLock' BY <1>5 DEF IInv, HoldsLock
<1>8. Numbered' BY <1>2, <1>3, <1>5 DEF IInv, Numbered
<1>9. Asked' BY <1>1, <1>2 DEF IInv, Asked
<1>10. Recorded' BY <1>1, <1>2 DEF IInv, Recorded
<1> QED BY <1>6, <1>7, <1>8, <1>9, <1>10 DEF IInv

\* The only running attempt is the one that holds the lock.
LEMMA RunningHolds ==
  ASSUME IInv, NEW a \in Attempts, at[a] \in {"running", "ending"}
  PROVE  Holds(a) /\ lock = a
<1>1. gate[a] = Len(Route[Kind[a]]) BY DEF IInv, Gates
<1>2. PastLock(a)
  BY <1>1, Routes, AttemptsAssumption DEF PastLock, RouteFacts
<1> QED BY <1>2 DEF Holds, IInv, HoldsLock

\* Nobody else's published record is overwritten while it is needed.
LEMMA PublishIInv ==
  ASSUME IInv, TypeOK', NEW a \in Attempts, Publish(a)
  PROVE  IInv'
<1> USE DEF Publish
<1>1. lock = a BY RunningHolds
<1>2. Gates' /\ HoldsLock' /\ \A b \in Attempts : PastLock(b)' = PastLock(b) /\ Holds(b)' = Holds(b)
  BY SamePlaces
<1>3. Numbered' BY <1>2 DEF IInv, Numbered
<1>4. Asked' BY DEF IInv, Asked
<1>5. Recorded'
  <2> SUFFICES ASSUME NEW b \in Attempts
               PROVE  /\ b \in active' => /\ at[b] \in {"running", "ending", "released"}
                                          /\ at[b] # "released" => current[Slot(b)]' = b
                      /\ at[b] = "ending" /\ Publishes(b) => b \in active'
    BY DEF Recorded
  <2>1. CASE b = a
    <3>1. Slot(a) \in DOMAIN current BY DEF IInv, TypeOK, Slot
    <3>2. current[Slot(a)]' = a BY <3>1
    <3> QED BY <2>1, <3>2
  <2>2. CASE b # a
    <3>1. at[b] \notin {"running", "ending"} BY <1>1, <2>2, RunningHolds
    <3> QED BY <2>2, <3>1 DEF IInv, Recorded
  <2> QED BY <2>1, <2>2
<1> QED BY <1>2, <1>3, <1>4, <1>5 DEF IInv

\* A move of run m.run, which is a's if a runs, is taken: everybody still at the
\* gates sees it as new, and so does a run that is not its own.
LEMMA TakenAsked ==
  ASSUME IInv, NEW m \in Moves, NEW noticed, Taken(m, noticed), "entering" \in noticed,
         \A b \in Attempts : at[b] = "running" => "running" \in noticed \/ m.run = runOf[b],
         UNCHANGED <<at, gate, lock, runs, runOf>>
  PROVE  Asked'
<1>1. /\ moves' = moves \cup {m}
      /\ \A b \in Attempts : since[b]' = IF at[b] \in noticed THEN since[b] \cup {m} ELSE since[b]
  BY DEF Taken
<1> SUFFICES ASSUME NEW b \in Attempts, at[b] \in {"entering", "running"}, NEW n \in moves',
                    n.run # runOf[b], n \notin since[b]'
             PROVE  \E i \in (gate[b] + 1)..Len(Route[Kind[b]]) : Route[Kind[b]][i] = n.app
  BY DEF Asked
<1>2. n # m
  <2>1. CASE at[b] = "entering" BY <1>1, <2>1
  <2>2. CASE at[b] = "running" BY <1>1, <2>2
  <2> QED BY <2>1, <2>2
<1>3. n \in moves /\ n \notin since[b] BY <1>1, <1>2
<1> QED BY <1>3 DEF IInv, Asked

\* The request a run sends is of a run that has taken the lock.
LEMMA Own ==
  ASSUME IInv, NEW a \in Attempts, at[a] = "running"
  PROVE  LET m == [run |-> runOf[a], app |-> App(a)]
         IN m \in Moves /\ m.run = runOf[a] /\ m.run <= runs
<1>1. runOf[a] \in 1..runs BY RunningHolds DEF IInv, Numbered
<1>2. runOf[a] \in 1..RunMax /\ runOf[a] <= runs BY <1>1, BoundsAssumption DEF IInv, TypeOK
<1> QED BY <1>2 DEF Moves, App

\* The run asks for a move, which is taken, or whose answer is lost.
LEMMA SendMoveIInv ==
  ASSUME IInv, TypeOK', NEW a \in Attempts, SendMove(a)
  PROVE  IInv'
<1> DEFINE new == [run |-> runOf[a], app |-> App(a)]
<1>1. /\ at[a] = "running"
      /\ UNCHANGED <<at, gate, lock, runs, runOf, current, active>>
      /\ \/ Taken(new, {"entering"}) /\ UNCHANGED late
         \/ late' = late \cup {new} /\ UNCHANGED <<moves, since>>
  BY DEF SendMove
<1>2. new \in Moves /\ new.run = runOf[a] /\ new.run <= runs BY <1>1, Own
<1> HIDE DEF new
<1>3. Gates' /\ HoldsLock' /\ \A b \in Attempts : PastLock(b)' = PastLock(b) /\ Holds(b)' = Holds(b)
  BY <1>1, SamePlaces
<1>4. moves' \cup late' \subseteq moves \cup late \cup {new} BY <1>1 DEF Taken
<1>5. Numbered' BY <1>1, <1>2, <1>3, <1>4 DEF IInv, Numbered
<1>6. Asked'
  <2>1. CASE Taken(new, {"entering"})
    <3>1. \A b \in Attempts : at[b] = "running" => new.run = runOf[b]
      BY <1>1, <1>2, RunningHolds
    <3> QED BY <1>1, <1>2, <2>1, <3>1, TakenAsked
  <2>2. CASE UNCHANGED <<moves, since>> BY <1>1, <2>2 DEF IInv, Asked
  <2> QED BY <1>1, <2>1, <2>2
<1>7. Recorded' BY <1>1 DEF IInv, Recorded
<1> QED BY <1>3, <1>5, <1>6, <1>7 DEF IInv

\* A request is taken late: by then the run that sent it is the one that is
\* running, or none that runs is.
LEMMA TakenLateIInv ==
  ASSUME IInv, TypeOK', NEW m \in late, TakenLate(m)
  PROVE  IInv'
<1>1. /\ Taken(m, IF Outlived(m) THEN {"entering", "running"} ELSE {"entering"})
      /\ late' = late \ {m}
      /\ UNCHANGED <<at, gate, lock, runs, runOf, current, active>>
  BY DEF TakenLate
<1>2. m \in Moves BY DEF IInv, TypeOK
<1>3. Gates' /\ HoldsLock' /\ \A b \in Attempts : PastLock(b)' = PastLock(b) /\ Holds(b)' = Holds(b)
  BY <1>1, SamePlaces
<1>4. moves' \cup late' \subseteq moves \cup late BY <1>1 DEF Taken
<1>5. Numbered' BY <1>1, <1>3, <1>4 DEF IInv, Numbered
<1>6. Asked'
  <2>1. CASE Outlived(m) BY <1>1, <1>2, <2>1, TakenAsked
  <2>2. CASE ~Outlived(m)
    <3>1. PICK c \in Attempts : at[c] = "running" /\ runOf[c] = m.run BY <2>2 DEF Outlived
    <3>2. \A b \in Attempts : at[b] = "running" => m.run = runOf[b] BY <3>1, RunningHolds
    <3> QED BY <1>1, <1>2, <2>2, <3>2, TakenAsked
  <2> QED BY <2>1, <2>2
<1>7. Recorded' BY <1>1 DEF IInv, Recorded
<1> QED BY <1>3, <1>5, <1>6, <1>7 DEF IInv

\* A move that is over can no longer be missed by anybody.
LEMMA MoveOverIInv ==
  ASSUME IInv, TypeOK', NEW m \in moves, MoveOver(m)
  PROVE  IInv'
<1> USE DEF MoveOver
<1>1. Gates' /\ HoldsLock' /\ \A b \in Attempts : PastLock(b)' = PastLock(b) /\ Holds(b)' = Holds(b)
  BY SamePlaces
<1>2. Numbered' BY <1>1 DEF IInv, Numbered
<1>3. Asked' BY DEF IInv, TypeOK, Asked
<1>4. Recorded' BY DEF IInv, Recorded
<1> QED BY <1>1, <1>2, <1>3, <1>4 DEF IInv

\* The run is over, then releases the lock, in this order.
LEMMA EndIInv ==
  ASSUME IInv, TypeOK', NEW a \in Attempts, RunOver(a) \/ Release(a)
  PROVE  IInv'
<1>1. /\ at[a] \in {"running", "ending"} /\ at[a]' \in {"ending", "released"}
      /\ \A b \in Attempts : b # a => at[b]' = at[b]
      /\ \A b \in Attempts : b # a => since[b]' = since[b]
      /\ UNCHANGED <<gate, runs, runOf, current, active, late, moves>>
  BY DEF RunOver, Release, IInv, TypeOK
<1>2. lock = a /\ Holds(a) BY <1>1, RunningHolds
<1>3. \A b \in Attempts : PastLock(b)' = PastLock(b) BY <1>1 DEF PastLock
<1>4. \A b \in Attempts : b # a => Holds(b)' = Holds(b) /\ ~Holds(b)
  BY <1>1, <1>2, <1>3 DEF Holds, IInv, HoldsLock
<1>5. Holds(a)' <=> lock' = a
  BY <1>2, <1>3, AttemptsAssumption DEF Holds, RunOver, Release, IInv, TypeOK
<1>6. Gates' BY <1>1 DEF IInv, Gates
<1>7. HoldsLock'
  <2>1. lock' \in {a, Nobody} BY <1>2 DEF RunOver, Release
  <2> QED BY <1>4, <1>5, <2>1, AttemptsAssumption DEF HoldsLock
<1>8. Numbered' BY <1>1, <1>2, <1>3, <1>4 DEF IInv, Numbered
<1>9. Asked' BY <1>1 DEF IInv, Asked
<1>10. Recorded'
  <2>1. at[a]' = "ending" /\ Publishes(a) => a \in active
    BY DEF RunOver, Release, IInv, TypeOK
  <2> QED BY <1>1, <2>1 DEF IInv, Recorded
<1> QED BY <1>6, <1>7, <1>8, <1>9, <1>10 DEF IInv

-----------------------------------------------------------------------------
(* Types *)

\* Every step keeps the variables in their types.
LEMMA TypeStep == IInv /\ [Next]_vars => TypeOK'
<1> SUFFICES ASSUME IInv, [Next]_vars PROVE TypeOK'
  OBVIOUS
<1> USE AttemptsAssumption, BoundsAssumption DEF TypeOK
<1>0. TypeOK BY DEF IInv
<1> USE <1>0
<1>1. ASSUME NEW a \in Attempts, Begin(a) PROVE TypeOK'
  BY <1>1 DEF Begin
<1>2. ASSUME NEW a \in Attempts, NEW g, Facing(a, g), Pass(a)
      PROVE  gate' \in [Attempts -> 0..6]
  <2>1. gate[a] + 1 \in 1..6
    <3>1. Len(Route[Kind[a]]) \in 1..6 BY Routes DEF RouteFacts
    <3> QED BY <1>2, <3>1, Place
  <2> QED BY <1>2, <2>1 DEF Pass
<1>3. ASSUME NEW a \in Attempts, ArrsIdle(a) PROVE TypeOK'
  BY <1>2, <1>3 DEF ArrsIdle
<1>4. ASSUME NEW a \in Attempts, QbitIdle(a) \/ Confirm(a) \/ Plan(a) PROVE TypeOK'
  BY <1>2, <1>4 DEF QbitIdle, Confirm, Plan
<1>5. ASSUME NEW a \in Attempts, AcquireLock(a) PROVE TypeOK'
  <2>1. runs' \in 0..RunMax /\ runOf' \in [Attempts -> 0..RunMax]
    BY <1>5 DEF AcquireLock
  <2> QED BY <1>2, <1>5, <2>1 DEF AcquireLock
<1>6. ASSUME NEW S \in SUBSET Attempts, Forget(S)
      PROVE  /\ at' \in [Attempts -> {"idle", "entering", "running", "ending", "released"}]
             /\ gate' \in [Attempts -> 0..6] /\ runOf' \in [Attempts -> 0..RunMax]
             /\ since' \in [Attempts -> SUBSET Moves]
  BY <1>6 DEF Forget
<1>7. ASSUME NEW a \in Attempts, GiveUp(a) \/ Deactivate(a) PROVE TypeOK'
  <2>1. {a} \in SUBSET Attempts /\ Forget({a}) BY <1>7 DEF GiveUp, Deactivate
  <2> QED BY <1>6, <1>7, <2>1 DEF GiveUp, Deactivate
<1>8. ASSUME Crash PROVE TypeOK'
  <2>1. PICK S \in SUBSET Attempts : Die(S) BY <1>8 DEF Crash, Web
  <2>2. current' \in [{"library", "downloads"} -> Attempts \cup {Nobody}]
        /\ \A s \in DOMAIN current' : current'[s] # Nobody =>
             Publishes(current'[s]) /\ Slot(current'[s]) = s
    BY <2>1 DEF Die
  <2> QED BY <1>6, <2>1, <2>2 DEF Die
<1>9. ASSUME NEW a \in Attempts, StartRun(a) \/ RunOver(a) \/ Release(a) PROVE TypeOK'
  BY <1>9 DEF StartRun, RunOver, Release
<1>10. ASSUME NEW a \in Attempts, Publish(a) PROVE TypeOK'
  <2>1. Slot(a) \in {"library", "downloads"} BY DEF Slot
  <2>2. a # Nobody OBVIOUS
  <2>3. current' \in [{"library", "downloads"} -> Attempts \cup {Nobody}]
    BY <1>10, <2>1 DEF Publish
  <2>4. \A s \in DOMAIN current' : current'[s] # Nobody =>
          Publishes(current'[s]) /\ Slot(current'[s]) = s
    BY <1>10, <2>1 DEF Publish
  <2>5. active' \subseteq {b \in Attempts : Publishes(b)}
    BY <1>10 DEF Publish
  <2> QED BY <1>10, <2>3, <2>4, <2>5 DEF Publish
<1>11. ASSUME NEW m \in Moves, NEW noticed, Taken(m, noticed)
       PROVE  moves' \subseteq Moves /\ since' \in [Attempts -> SUBSET Moves]
  BY <1>11 DEF Taken
<1>12. ASSUME NEW a \in Attempts, SendMove(a) PROVE TypeOK'
  <2> DEFINE new == [run |-> runOf[a], app |-> App(a)]
  <2>1. /\ UNCHANGED <<at, gate, lock, runs, runOf, current, active, crashes>>
        /\ \/ Taken(new, {"entering"}) /\ UNCHANGED late
           \/ late' = late \cup {new} /\ UNCHANGED <<moves, since>>
    BY <1>12 DEF SendMove
  <2>2. new \in Moves BY <1>12, Own DEF SendMove
  <2> HIDE DEF new
  <2> QED BY <1>11, <2>1, <2>2
<1>13. ASSUME NEW m \in late, TakenLate(m) PROVE TypeOK'
  <2>1. m \in Moves OBVIOUS
  <2> QED BY <1>11, <1>13, <2>1 DEF TakenLate
<1>14. ASSUME NEW m \in moves, MoveOver(m) PROVE TypeOK'
  BY <1>14 DEF MoveOver
<1>15. CASE UNCHANGED vars BY <1>15 DEF vars
<1> QED BY <1>1, <1>3, <1>4, <1>5, <1>7, <1>8, <1>9, <1>10, <1>12, <1>13, <1>14, <1>15
        DEF Next, Enter, End

-----------------------------------------------------------------------------
(* The invariant, and what follows from it *)

\* Every step keeps the inductive invariant.
LEMMA IInvStep == IInv /\ [Next]_vars => IInv'
<1> SUFFICES ASSUME IInv, [Next]_vars PROVE IInv'
  OBVIOUS
<1>1. TypeOK' BY TypeStep
<1>2. ASSUME NEW a \in Attempts, Begin(a) PROVE IInv'
  BY <1>1, <1>2, BeginIInv
<1>3. ASSUME NEW a \in Attempts, Enter(a) PROVE IInv'
  BY <1>1, <1>3, ArrsIdleIInv, PassIInv, AcquireLockIInv, OverIInv, StartRunIInv DEF Enter
<1>4. ASSUME NEW a \in Attempts, SendMove(a) PROVE IInv'
  BY <1>1, <1>4, SendMoveIInv
<1>5. ASSUME NEW a \in Attempts, End(a) PROVE IInv'
  BY <1>1, <1>5, PublishIInv, EndIInv, OverIInv DEF End
<1>6. ASSUME NEW m \in late, TakenLate(m) PROVE IInv'
  BY <1>1, <1>6, TakenLateIInv
<1>7. ASSUME NEW m \in moves, MoveOver(m) PROVE IInv'
  BY <1>1, <1>7, MoveOverIInv
<1>8. CASE Crash BY <1>1, <1>8, OverIInv
<1>9. CASE UNCHANGED vars
  <2>1. Gates' /\ HoldsLock' /\ \A a \in Attempts : PastLock(a)' = PastLock(a) /\ Holds(a)' = Holds(a)
    BY <1>9, SamePlaces DEF vars
  <2>2. Numbered' /\ Asked' /\ Recorded'
    BY <1>9, <2>1 DEF vars, IInv, Numbered, Asked, Recorded
  <2> QED BY <1>1, <2>1, <2>2 DEF IInv
<1> QED BY <1>2, <1>3, <1>4, <1>5, <1>6, <1>7, <1>8, <1>9 DEF Next

\* It holds in every reachable state.
LEMMA Invariance == Spec => []IInv
BY InitIInv, IInvStep, PTL DEF Spec

\* Every variable keeps its type; in particular, a record of the server only
\* ever points to a run of its own domain.
THEOREM TypeCorrect == Spec => []TypeOK
<1>1. IInv => TypeOK BY DEF IInv
<1> QED BY <1>1, Invariance, PTL

\* However many callers go through whichever entry points, one at a time
\* gets to move or remove anything.
THEOREM OneApply == Spec => []OneAtATime
<1>1. IInv => OneAtATime
  <2> SUFFICES ASSUME IInv, NEW a \in Attempts, NEW b \in Attempts,
                      at[a] \in {"running", "ending"}, at[b] \in {"running", "ending"}
               PROVE  a = b
    BY DEF OneAtATime
  <2>1. lock = a /\ lock = b BY RunningHolds
  <2> QED BY <2>1
<1> QED BY <1>1, Invariance, PTL

\* The questions of each entry point, with all that happens between them and
\* the lock, miss no move but those the apps took meanwhile.
THEOREM OverlapSeen == Spec => []NoOverlapMissed
<1>1. IInv => NoOverlapMissed
  <2> SUFFICES ASSUME IInv, NEW a \in Attempts, at[a] = "running",
                      NEW m \in moves, m.run # runOf[a]
               PROVE  m \in since[a]
    BY DEF NoOverlapMissed
  <2>1. gate[a] = Len(Route[Kind[a]]) BY DEF IInv, Gates
  <2>2. Len(Route[Kind[a]]) \in Nat BY Routes, AttemptsAssumption DEF RouteFacts
  <2>3. ~\E i \in (gate[a] + 1)..Len(Route[Kind[a]]) : Route[Kind[a]][i] = m.app
    BY <2>1, <2>2
  <2> QED BY <2>3 DEF IInv, Asked
<1> QED BY <1>1, Invariance, PTL

\* The server never believes itself idle while a run of its own, that it was
\* told of, holds the lock.
THEOREM Admission == Spec => []NoFalseAdmission
<1>1. IInv => NoFalseAdmission
  <2> SUFFICES ASSUME IInv, NEW a \in Attempts, lock = a,
                      at[a] \in {"ending", "released"}, Publishes(a)
               PROVE  ApplyInFlight
    BY DEF NoFalseAdmission
  <2>1. at[a] = "ending" BY DEF IInv, HoldsLock, Holds
  <2>2. a \in active /\ current[Slot(a)] = a BY <2>1 DEF IInv, Recorded
  <2>3. Slot(a) \in DOMAIN current BY DEF IInv, TypeOK, Slot
  <2> QED BY <2>2, <2>3 DEF ApplyInFlight
<1> QED BY <1>1, Invariance, PTL
=============================================================================

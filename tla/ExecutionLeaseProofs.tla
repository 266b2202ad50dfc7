------------------------- MODULE ExecutionLeaseProofs -------------------------
(***************************************************************************)
(* For any workers, API calls, lease and heartbeat interval that NewWorker *)
(* accepts, at most one worker processes the run as long as no UpsertRun   *)
(* writes back an outdated lease.                                          *)
(***************************************************************************)
EXTENDS ExecutionLease, TLAPS

\* Every step keeps the types: claims and heartbeats write sums of naturals.
LEMMA TypeStep == TypeOK /\ [Next]_vars => TypeOK'
<1> SUFFICES ASSUME TypeOK, [Next]_vars PROVE TypeOK'
  OBVIOUS
<1> USE LeaseAssumption DEF TypeOK, Doc, Read, WorkerState, Status, Client
<1>1. ASSUME NEW w \in Worker, Claim(w) PROVE TypeOK'
  <2>1. doc' \in Doc
    <3>1. now + TTL \in Nat
      OBVIOUS
    <3>2. doc' = [lease |-> w, until |-> now + TTL, status |-> doc.status]
      BY <1>1 DEF Claim
    <3> QED
      BY <3>1, <3>2
  <2>2. state' \in [Worker -> WorkerState] /\ due' \in [Worker -> Nat]
    BY <1>1 DEF Claim
  <2> QED
    BY <1>1, <2>1, <2>2 DEF Claim
<1>2. ASSUME NEW w \in Worker, ClaimRefused(w) PROVE TypeOK'
  BY <1>2 DEF ClaimRefused
<1>3. ASSUME NEW w \in Worker, Heartbeat(w) PROVE TypeOK'
  BY <1>3 DEF Heartbeat, HeartbeatUntil
<1>4. ASSUME NEW w \in Worker, HeartbeatFails(w) PROVE TypeOK'
  BY <1>4 DEF HeartbeatFails
<1>5. ASSUME NEW w \in Worker, ProcessEnds(w) PROVE TypeOK'
  BY <1>5 DEF ProcessEnds
<1>6. ASSUME NEW w \in Worker, Release(w) PROVE TypeOK'
  BY <1>6 DEF Release, ReleasedDoc
<1>7. ASSUME NEW w \in Worker, Die(w) PROVE TypeOK'
  BY <1>7 DEF Die
<1>8. ASSUME NEW c \in Client, UpsertRunLoad(c) PROVE TypeOK'
  BY <1>8 DEF UpsertRunLoad
<1>9. ASSUME NEW c \in Client, NEW s \in Status, UpsertRunSet(c, s)
       PROVE TypeOK'
  BY <1>9 DEF UpsertRunSet, preserveExecutionLease, NotReading
<1>10. CASE Tick
  BY <1>10 DEF Tick
<1>11. CASE UNCHANGED vars
  BY <1>11 DEF vars
<1> QED
  BY <1>1, <1>2, <1>3, <1>4, <1>5, <1>6, <1>7, <1>8, <1>9, <1>10, <1>11
  DEF Next

\* The types hold in every state.
THEOREM LeaseTypeCorrect == Spec => []TypeOK
<1>1. Init => TypeOK
  <2> SUFFICES ASSUME Init PROVE TypeOK
    OBVIOUS
  <2>1. clobbered \in BOOLEAN
    BY Zenon DEF Init
  <2>2. /\ now \in Nat /\ doc \in Doc
        /\ state \in [Worker -> WorkerState] /\ due \in [Worker -> Nat]
        /\ read \in [Client -> Read]
    BY LeaseAssumption DEF Init, Doc, Read, WorkerState, Status, Client, NotReading
  <2> QED
    BY <2>1, <2>2 DEF TypeOK
<1> QED
  BY <1>1, TypeStep, PTL DEF Spec

\* In the first state nobody works and nobody has released.
LEMMA LeaseInit == Init => LeaseInv
BY LeaseAssumption DEF Init, LeaseInv, LeaseHeld, LeaseBound, ReleasedGone

\* An outdated write is never forgotten.
LEMMA ClobberedStays == [Next]_vars /\ ~clobbered' => ~clobbered
BY Zenon DEF Next, vars, Claim, ClaimRefused, Heartbeat, HeartbeatFails, ProcessEnds,
       Release, Die, UpsertRunLoad, UpsertRunSet, Tick

\* Every step but an outdated write keeps the lease with the worker that works,
\* unexpired at least until its next heartbeat is due.
LEMMA LeaseStep == TypeOK /\ LeaseInv /\ [Next]_vars /\ ~clobbered' => LeaseInv'
<1> SUFFICES ASSUME TypeOK, LeaseInv, [Next]_vars, ~clobbered' PROVE LeaseInv'
  OBVIOUS
<1> USE LeaseAssumption
    DEF TypeOK, Doc, Read, WorkerState, LeaseInv, LeaseHeld, ReleasedGone, LeaseBound
\* The lease was not active, so no worker was working.
<1>1. ASSUME NEW w \in Worker, Claim(w) PROVE LeaseInv'
  <2>1. \A v \in Worker : state[v] # "working"
    BY <1>1 DEF Claim, leaseIsActive
  <2>2. \A v \in Worker : v # w => state'[v] = state[v]
    BY <1>1 DEF Claim
  <2>3. state'[w] = "working" /\ due'[w] = now + Interval /\ now' = now
    BY <1>1 DEF Claim
  <2>4. doc'.lease = w /\ doc'.until = now + TTL
    BY <1>1 DEF Claim
  <2>5. read' = read
    BY <1>1 DEF Claim
  <2>6. LeaseHeld'
    BY <2>1, <2>2, <2>3, <2>4
  <2>7. ReleasedGone'
    BY <2>2, <2>3, <2>4
  <2>8. LeaseBound'
    BY <2>3, <2>4
  <2> QED
    BY <2>5, <2>6, <2>7, <2>8
<1>2. ASSUME NEW w \in Worker, ClaimRefused(w) PROVE LeaseInv'
  BY <1>2 DEF ClaimRefused, leaseIsActive
<1>3. ASSUME NEW w \in Worker, Heartbeat(w) PROVE LeaseInv'
  <2>1. doc'.lease = w /\ doc'.until = now + TTL /\ now' = now
    BY <1>3 DEF Heartbeat, HeartbeatUntil
  <2>2. state' = state /\ read' = read
    BY <1>3 DEF Heartbeat
  <2>3. due'[w] = now + Interval
    BY <1>3 DEF Heartbeat
  <2>4. \A v \in Worker : state[v] = "working" => v = w
    BY <1>3 DEF Heartbeat
  <2> QED
    BY <1>3, <2>1, <2>2, <2>3, <2>4 DEF Heartbeat
<1>4. ASSUME NEW w \in Worker, HeartbeatFails(w) PROVE LeaseInv'
  BY <1>4 DEF HeartbeatFails
<1>5. ASSUME NEW w \in Worker, ProcessEnds(w) PROVE LeaseInv'
  BY <1>5 DEF ProcessEnds
\* A worker that has ended does not work, so no working worker loses its lease.
<1>6. ASSUME NEW w \in Worker, Release(w) PROVE LeaseInv'
  <2>1. \A v \in Worker : v # w => state'[v] = state[v]
    BY <1>6 DEF Release
  <2>2. state'[w] = "released" /\ due' = due /\ now' = now /\ read' = read
    BY <1>6 DEF Release
  <2>3. CASE doc.lease \in {NoLease, w}
    <3>1. \A v \in Worker : state[v] # "working"
      BY <1>6, <2>3 DEF Release
    <3>2. doc'.lease = NoLease /\ doc'.until = 0
      BY <1>6, <2>3 DEF Release, ReleasedDoc
    <3> QED
      BY <2>1, <2>2, <3>1, <3>2 DEF Client
  <2>4. CASE doc.lease \notin {NoLease, w}
    <3>1. doc' = doc
      BY <1>6, <2>4 DEF Release, ReleasedDoc
    <3> QED
      BY <2>1, <2>2, <2>4, <3>1
  <2> QED
    BY <2>3, <2>4
<1>7. ASSUME NEW w \in Worker, Die(w) PROVE LeaseInv'
  BY <1>7 DEF Die
<1>8. ASSUME NEW c \in Client, UpsertRunLoad(c) PROVE LeaseInv'
  BY <1>8 DEF UpsertRunLoad
<1>9. ASSUME NEW c \in Client, NEW s \in Status, UpsertRunSet(c, s)
       PROVE LeaseInv'
  <2>1. doc'.lease = doc.lease /\ doc'.until = doc.until
    <3>1. read[c].lease = doc.lease /\ read[c].until = doc.until
      BY Zenon, <1>9 DEF UpsertRunSet
    <3> QED
      BY <1>9, <3>1 DEF UpsertRunSet, preserveExecutionLease
  <2> QED
    BY <1>9, <2>1 DEF UpsertRunSet
\* Time passes only up to the next heartbeat.
<1>10. CASE Tick
  BY <1>10 DEF Tick
<1>11. CASE UNCHANGED vars
  BY <1>11 DEF vars
<1> QED
  BY <1>1, <1>2, <1>3, <1>4, <1>5, <1>6, <1>7, <1>8, <1>9, <1>10, <1>11
  DEF Next

\* The inductive invariant holds in every state.
THEOREM LeaseInvariant == Spec => []IInv
<1>1. Init /\ TypeOK => IInv
  BY LeaseInit DEF IInv
<1>2. IInv /\ TypeOK' /\ [Next]_vars => IInv'
  BY Zenon, LeaseStep, ClobberedStays DEF IInv
<1> QED
  BY <1>1, <1>2, LeaseTypeCorrect, PTL DEF Spec

\* At most one worker processes the run (Worker.Run), and a lease that was
\* released is not found in the record again, unless an UpsertRun has written
\* back an outdated lease.
THEOREM LeaseExclusive == Spec => [](MutualExclusion /\ ReleasedStaysReleased)
<1>1. IInv => MutualExclusion /\ ReleasedStaysReleased
  <2>1. LeaseInv => \A v, w \in Worker :
            state[v] = "working" /\ state[w] = "working" => v = w
    BY DEF LeaseInv, LeaseHeld
  <2> QED
    BY Zenon, <2>1 DEF IInv, LeaseInv, MutualExclusion, ReleasedStaysReleased
<1> QED
  BY <1>1, LeaseInvariant, PTL

\* No step but such a write shortens or moves the lease of a worker that goes on
\* working.
THEOREM LeaseNotShortened == Spec => HeartbeatNotUndone
<1> DEFINE A == ~clobbered' =>
                \A w \in Worker :
                  state[w] = "working" /\ state'[w] = "working" =>
                    doc'.lease = w /\ doc'.until >= doc.until
<1>1. IInv /\ [Next]_vars => [A]_vars
  <2> SUFFICES ASSUME IInv, Next, ~clobbered', NEW w \in Worker,
                      state[w] = "working", state'[w] = "working"
               PROVE  doc'.lease = w /\ doc'.until >= doc.until
    BY DEF vars
  <2>0. TypeOK /\ LeaseInv
    BY Zenon, ClobberedStays DEF IInv
  <2>1. doc.lease = w /\ leaseIsActive(doc, now)
    BY <2>0, LeaseAssumption
    DEF LeaseInv, LeaseHeld, TypeOK, Doc, leaseIsActive
  <2>2. ASSUME NEW v \in Worker, Heartbeat(v)
        PROVE  doc'.lease = w /\ doc'.until >= doc.until
    BY <2>0, <2>1, <2>2, LeaseAssumption
    DEF Heartbeat, HeartbeatUntil, LeaseInv, LeaseBound, TypeOK, Doc
  <2>3. ASSUME NEW v \in Worker, Release(v) PROVE doc' = doc
    BY <2>0, <2>1, <2>3, LeaseAssumption DEF Release, ReleasedDoc, LeaseInv, LeaseHeld, TypeOK
  <2>4. ASSUME NEW c \in Client, NEW s \in Status, UpsertRunSet(c, s)
        PROVE  doc'.lease = w /\ doc'.until >= doc.until
    <3>1. read[c].lease = doc.lease /\ read[c].until = doc.until
      BY Zenon, <2>4 DEF UpsertRunSet
    <3> QED
      BY <2>0, <2>1, <2>4, <3>1 DEF UpsertRunSet, preserveExecutionLease, TypeOK, Doc
  <2>5. ASSUME NEW v \in Worker,
               ClaimRefused(v) \/ HeartbeatFails(v) \/ ProcessEnds(v) \/ Die(v)
        PROVE  doc' = doc
    BY <2>5 DEF ClaimRefused, HeartbeatFails, ProcessEnds, Die
  <2>6. ASSUME NEW c \in Client, UpsertRunLoad(c) PROVE doc' = doc
    BY <2>6 DEF UpsertRunLoad
  <2>7. \A v \in Worker : ~Claim(v)
    BY <2>1 DEF Claim
  <2>8. Tick => doc' = doc
    BY DEF Tick
  <2>9. doc' = doc => doc'.lease = w /\ doc'.until >= doc.until
    BY <2>0, <2>1 DEF TypeOK, Doc
  <2> QED
    BY <2>2, <2>3, <2>4, <2>5, <2>6, <2>7, <2>8, <2>9 DEF Next
<1> QED
  BY <1>1, LeaseInvariant, PTL DEF Spec, HeartbeatNotUndone

=============================================================================

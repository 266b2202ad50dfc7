---------------------------- MODULE ExecutionLease ----------------------------
(***************************************************************************)
(* The execution lease of one run: workers (Worker.Run and its heartbeat   *)
(* goroutine) and API calls that share the run's document.  Claim,         *)
(* heartbeat and release are transactions in both projection stores.       *)
(* UpsertRun reads the document and writes it later in the Firestore       *)
(* store, which is the one a deployment uses; the memory store of the      *)
(* tests does both under one mutex, so that nothing happens in between.    *)
(*                                                                         *)
(* Time passes in ticks.  A heartbeat that is due happens before the next  *)
(* tick: Interval stands for the ticker's period plus the latency of the   *)
(* transaction.                                                            *)
(***************************************************************************)
EXTENDS Integers

CONSTANTS
    Worker,     \* executions of the worker job, one lease ID each
    Caller,     \* API calls (DecidePivot) that upsert the run
    NoLease,    \* the empty ExecutionLeaseID
    TTL,        \* WorkerConfig.LeaseTTL
    Interval,   \* WorkerConfig.HeartbeatInterval
    MaxTime     \* bound of the clock

\* NewWorker refuses a heartbeat interval that is not shorter than the lease.
ASSUME LeaseAssumption ==
    /\ NoLease \notin Worker
    /\ Worker \cap Caller = {}
    /\ TTL \in Nat /\ Interval \in Nat \ {0}
    /\ Interval < TTL
    /\ MaxTime \in Nat

VARIABLES
    now,        \* the clock
    doc,        \* the run's document: the lease and the status
    state,      \* where each worker is
    due,        \* when the worker's next heartbeat has happened at the latest
    read,       \* what an UpsertRun that has not yet written has read
    clobbered   \* history: an UpsertRun has written back an outdated lease

vars == <<now, doc, state, due, read, clobbered>>

Client == Worker \cup Caller
Status == {"queued", "running", "completed"}
Doc == [lease : Worker \cup {NoLease}, until : Nat, status : Status]

\* "new": not started; "working": inside ProcessRun with a live context;
\* "cancelled": inside ProcessRun, context cancelled by the heartbeat;
\* "ended": ProcessRun has returned; the others: Run has returned, or died.
WorkerState == {"new", "working", "cancelled", "ended",
                "refused", "released", "dead"}

NotReading == [reading |-> FALSE, lease |-> NoLease, until |-> 0]
Read == [reading : BOOLEAN, lease : Worker \cup {NoLease}, until : Nat]

TypeOK ==
    /\ now \in Nat
    /\ doc \in Doc
    /\ state \in [Worker -> WorkerState]
    /\ due \in [Worker -> Nat]
    /\ read \in [Client -> Read]
    /\ clobbered \in BOOLEAN

Init ==
    /\ now = 0
    /\ doc = [lease |-> NoLease, until |-> 0, status |-> "queued"]
    /\ state = [w \in Worker |-> "new"]
    /\ due = [w \in Worker |-> 0]
    /\ read = [c \in Client |-> NotReading]
    /\ clobbered = FALSE

-----------------------------------------------------------------------------
(* The lease transactions.                                                 *)

leaseIsActive(d, t) == d.lease # NoLease /\ d.until > t

Claim(w) ==
    /\ state[w] = "new"
    /\ ~leaseIsActive(doc, now)
    /\ doc' = [doc EXCEPT !.lease = w, !.until = now + TTL]
    /\ state' = [state EXCEPT ![w] = "working"]
    /\ due' = [due EXCEPT ![w] = now + Interval]
    /\ UNCHANGED <<now, read, clobbered>>

\* Another worker's lease is active: Run returns without an error.
ClaimRefused(w) ==
    /\ state[w] = "new"
    /\ leaseIsActive(doc, now)
    /\ state' = [state EXCEPT ![w] = "refused"]
    /\ UNCHANGED <<now, doc, due, read, clobbered>>

HeartbeatUntil_Past == now - TTL

HeartbeatUntil == now + TTL

Heartbeat(w) ==
    /\ state[w] = "working"
    /\ doc.lease = w
    /\ doc' = [doc EXCEPT !.until = HeartbeatUntil]
    /\ due' = [due EXCEPT ![w] = now + Interval]
    /\ UNCHANGED <<now, state, read, clobbered>>

\* The lease is another's, or the transaction fails: the context is cancelled.
HeartbeatFails(w) ==
    /\ state[w] = "working"
    /\ state' = [state EXCEPT ![w] = "cancelled"]
    /\ UNCHANGED <<now, doc, due, read, clobbered>>

\* The processor and its mutation listener upsert synchronously.
ProcessEnds(w) ==
    /\ state[w] \in {"working", "cancelled"}
    /\ ~read[w].reading
    /\ state' = [state EXCEPT ![w] = "ended"]
    /\ UNCHANGED <<now, doc, due, read, clobbered>>

ReleasedDoc_Unconditional(w) ==
    [doc EXCEPT !.lease = NoLease, !.until = 0]

\* A lease that another worker holds by now is left alone.
ReleasedDoc(w) ==
    IF doc.lease \in {NoLease, w}
    THEN [doc EXCEPT !.lease = NoLease, !.until = 0] ELSE doc

Release(w) ==
    /\ state[w] = "ended"
    /\ doc' = ReleasedDoc(w)
    /\ state' = [state EXCEPT ![w] = "released"]
    /\ UNCHANGED <<now, due, read, clobbered>>

\* The worker dies; the lease stays in the document until it expires.
Die(w) ==
    /\ state[w] \in {"working", "cancelled", "ended"}
    /\ state' = [state EXCEPT ![w] = "dead"]
    /\ UNCHANGED <<now, doc, due, read, clobbered>>

-----------------------------------------------------------------------------
(* UpsertRun.  The caller's own record never has a lease: snapshots are    *)
(* written without it.                                                     *)

mayUpsert(c) ==
    c \in Worker => state[c] \in {"working", "cancelled"}

preserveExecutionLease_Drops(existing, status) ==
    [lease |-> NoLease, until |-> 0, status |-> status]

preserveExecutionLease(existing, status) ==
    [lease |-> existing.lease, until |-> existing.until, status |-> status]

UpsertRunLoad(c) ==
    /\ mayUpsert(c)
    /\ ~read[c].reading
    /\ read' = [read EXCEPT ![c] = [reading |-> TRUE, lease |-> doc.lease,
                                    until |-> doc.until]]
    /\ UNCHANGED <<now, doc, state, due, clobbered>>

UpsertRunSet(c, status) ==
    /\ read[c].reading
    /\ doc' = preserveExecutionLease(read[c], status)
    /\ read' = [read EXCEPT ![c] = NotReading]
    /\ clobbered' = (clobbered \/ read[c].lease # doc.lease
                                \/ read[c].until # doc.until)
    /\ UNCHANGED <<now, state, due>>

-----------------------------------------------------------------------------

Tick ==
    /\ now < MaxTime
    /\ \A w \in Worker : state[w] = "working" => now < due[w]
    /\ now' = now + 1
    /\ UNCHANGED <<doc, state, due, read, clobbered>>

Next ==
    \/ \E w \in Worker :
         \/ Claim(w) \/ ClaimRefused(w)
         \/ Heartbeat(w) \/ HeartbeatFails(w)
         \/ ProcessEnds(w) \/ Release(w) \/ Die(w)
    \/ \E c \in Client : UpsertRunLoad(c)
    \/ \E c \in Client, s \in Status : UpsertRunSet(c, s)
    \/ Tick

Spec == Init /\ [][Next]_vars

-----------------------------------------------------------------------------
(* Properties.                                                             *)

\* A working worker has the lease, it has not expired, and it will not before the
\* next heartbeat is due.
LeaseHeld ==
    \A w \in Worker : state[w] = "working" =>
        /\ doc.lease = w
        /\ now <= due[w]
        /\ due[w] < doc.until

ReleasedGone == \A w \in Worker : state[w] = "released" => doc.lease # w

\* No lease reaches further than one TTL ahead.
LeaseBound == doc.until <= now + TTL

\* The inductive invariant: what the exclusion rests on, as long as no UpsertRun
\* has written back a lease that changed after it was read.
LeaseInv == LeaseHeld /\ ReleasedGone /\ LeaseBound
IInv == TypeOK /\ (~clobbered => LeaseInv)

\* At most one worker processes the run, whatever claims, late releases, deaths
\* and upserts happen in between (Worker.Run, worker.go), as long as no UpsertRun
\* has written back a lease that changed after it was read.
MutualExclusion ==
    ~clobbered =>
        \A v, w \in Worker :
            state[v] = "working" /\ state[w] = "working" => v = w

\* A released lease does not come back: it would keep the next worker away from
\* the run until it expires, although nobody works on it.
ReleasedStaysReleased == ~clobbered => ReleasedGone

\* A lease that stays with its worker is never shortened: no write of the run's
\* record undoes a heartbeat, unless it writes back an outdated lease.
HeartbeatNotUndone ==
    [][~clobbered' =>
         \A w \in Worker :
             state[w] = "working" /\ state'[w] = "working" =>
                doc'.lease = w /\ doc'.until >= doc.until]_vars

\* At most one worker processes the run, with the store as it is.
NoDuplicateWork ==
    \A v, w \in Worker : state[v] = "working" /\ state[w] = "working" => v = w

=============================================================================

------------------------------ MODULE JobQueue ------------------------------
(***************************************************************************)
(* One named job queue, replicated over the nodes of a mesh: the operations *)
(* of queue.JobQueue, the cleanup of JobManager, and the gossip that merges *)
(* the queues.                                                              *)
(*                                                                          *)
(* Every operation runs under JobQueue.mu and is one step.  jq.Jobs, the    *)
(* log that gossip copies, and jq.JobIndex hold pointers: for most jobs to  *)
(* the same object, but a merge that replaces a job replaces it in the      *)
(* index only.  A queue therefore keeps the index, the IDs whose object the *)
(* log shares, and the outdated objects only the log still holds.           *)
(*                                                                          *)
(* Workers, payloads and results are left out: no operation looks at them,  *)
(* so whoever knows a job's ID may report on it, at any time.               *)
(***************************************************************************)
EXTENDS Integers, SequencesExt

CONSTANTS
  Node,            \* the nodes: numbers, in the order of the nodes' names
  Suffix,          \* UnixNano() % 1000, the second part of a job ID
  Priorities,      \* priorities of the requests
  Retries,         \* max_retries of the requests
  Deadlines,       \* deadlines of the requests, in ticks of the clock
  ProcessingTimeout, MaxAge, InitialBackoff, MaxBackoff,
                   \* in ticks, rounded down
  MaxSize,         \* the limit of the dead-letter queue
  MaxJobs,         \* bound: jobs enqueued, over all nodes
  MaxNow,          \* bound: the last reading of the clock
  MaxClaims,       \* bound: claims, over all nodes and jobs
  MaxReports,      \* bound: failures reported of a job
  MaxSends,        \* bound: logs sent
  MaxInFlight      \* bound: logs in flight between nodes at a time

ASSUME SetsAssumption ==
  /\ Node \subseteq Nat
  /\ IsFiniteSet(Node)
  /\ Priorities \subseteq Nat
  /\ Retries \subseteq Nat
  /\ Deadlines \subseteq Nat \ {0}

ASSUME TicksAssumption ==
  /\ ProcessingTimeout \in Nat /\ MaxAge \in Nat
  /\ InitialBackoff \in Nat /\ MaxBackoff \in Nat

ASSUME LimitAssumption == MaxSize \in Nat \ {0}

ASSUME BoundsAssumption ==
  /\ MaxJobs \in Nat /\ MaxNow \in Nat /\ MaxClaims \in Nat
  /\ MaxReports \in Nat /\ MaxSends \in Nat /\ MaxInFlight \in Nat

VARIABLES
  now,       \* the clock, one for all nodes
  lamport,   \* lamport[n]: lamportClock of node n's queue
  queue,     \* queue[n]: node n's queue
  up,        \* the nodes whose process runs
  msgs,      \* logs copied by Snapshot and not yet merged
  jobs,      \* jobs enqueued so far
  sends,     \* logs sent so far
  claims,    \* history: claims[id], the times GetNextJob took the job
  timeouts   \* history: timeouts[id], the times cleanup took it back

bounded == <<jobs, sends>>
history == <<claims, timeouts>>

vars == <<now, lamport, queue, up, msgs, bounded, history>>

ID == (1 .. MaxJobs) \X Suffix

Status == {"pending", "processing", "completed", "failed"}

Job == [id : ID, status : Status, priority : Priorities, timestamp : Nat,
        retries : Nat, maxRetries : Retries, updatedAt : Nat, node : Node,
        deadlineAt : Nat, started : Nat]

EmptyQueue ==
  [index      |-> <<>>,  \* JobIndex: a function from IDs to jobs
   shared     |-> {},    \* the IDs whose object in JobIndex is also in Jobs
   outdated   |-> {},    \* the other objects in Jobs
   pending    |-> <<>>,  \* PendingJobs
   processing |-> <<>>,  \* ProcessingJobs
   dead       |-> <<>>]  \* the IDs in deadLetterQ

(* jq.Jobs: the objects that Snapshot copies.                               *)
Log(q) == {q.index[id] : id \in q.shared} \cup q.outdated

IsQueue(q) ==
  /\ DOMAIN q = DOMAIN EmptyQueue
  /\ DOMAIN q.index \subseteq ID
  /\ \A id \in DOMAIN q.index : q.index[id] \in Job /\ q.index[id].id = id
  /\ q.shared \subseteq DOMAIN q.index
  /\ q.outdated \subseteq Job
  /\ q.pending \in Seq(ID)
  /\ q.processing \in Seq(ID)
  /\ q.dead \in Seq(ID) /\ Len(q.dead) <= MaxSize

TypeOK ==
  /\ now \in Nat
  /\ lamport \in [Node -> Nat]
  /\ DOMAIN queue = Node
  /\ \A n \in Node : IsQueue(queue[n])
  /\ up \subseteq Node
  /\ jobs \in Nat /\ sends \in Nat
  /\ \A msg \in msgs : msg.from \in Node /\ msg.to \in Node /\ msg.log \subseteq Job
  /\ claims \in [ID -> Nat]
  /\ timeouts \in [ID -> Nat]

----------------------------------------------------------------------------
Expired(job) == now > job.deadlineAt

Stuck(job) == job.started > 0 /\ now - job.started > ProcessingTimeout

Evictable(job) ==
  job.status \in {"completed", "failed"} /\ job.updatedAt < now - MaxAge

(* jobLess: the order of the versions of a job.                             *)
Older(a, b) ==
  \/ a.updatedAt < b.updatedAt
  \/ a.updatedAt = b.updatedAt /\ a.node < b.node

(* calculateBackoff, for a positive number of retries.                      *)
Backoff(retries) ==
  LET delay == 2 * InitialBackoff * retries
  IN  IF delay > MaxBackoff THEN MaxBackoff ELSE delay

(* An ID on a list whose job was evicted from the index: looking it up      *)
(* gives nil, and the operation that uses it panics.                        *)
Dangling(q) == (ToSet(q.pending) \cup ToSet(q.processing)) \ DOMAIN q.index

(* The elements of a list at positions I, in their order.                   *)
Picked(list, I) ==
  [k \in 1 .. Cardinality(I) |->
     list[CHOOSE i \in I : Cardinality({j \in I : j < i}) = k - 1]]

(* sortPendingJobs.  It panics, and the list stays as it is, when it        *)
(* compares an evicted job.  In a handler net/http recovers: the caller of  *)
(* Enqueue or MarkFailed sees an error although all else is done.           *)
(*                                                                          *)
(* An element goes where the number of those above it says.  sort.Slice     *)
(* keeps equal jobs in their order in lists of up to 12, which is more than *)
(* any checked here.                                                        *)
SortPanics(q) == Len(q.pending) > 1 /\ ~(ToSet(q.pending) \subseteq DOMAIN q.index)

Before(q, i, j) ==
  LET a == q.index[i]
      b == q.index[j]
  IN  \/ a.priority > b.priority
      \/ a.priority = b.priority /\ a.timestamp < b.timestamp

Above(q, i, j) ==
  LET list == q.pending
  IN  \/ Before(q, list[i], list[j])
      \/ i < j /\ ~Before(q, list[j], list[i])

Ordered(q) ==
  [k \in DOMAIN q.pending |->
     q.pending[CHOOSE i \in DOMAIN q.pending :
                 Cardinality({j \in DOMAIN q.pending : Above(q, j, i)}) = k - 1]]

Sorted(q) ==
  IF ToSet(q.pending) \subseteq DOMAIN q.index
  THEN [q EXCEPT !.pending = Ordered(q)] ELSE q

(* moveToDeadLetter, for one letter or many: above the limit the oldest go. *)
DeadLetter(dead, ids) ==
  LET all == dead \o ids
  IN  IF Len(all) <= MaxSize THEN all
      ELSE SubSeq(all, Len(all) - MaxSize + 1, Len(all))

WithJob(q, job) ==
  [q EXCEPT !.index = [id \in DOMAIN @ \cup {job.id} |-> IF id = job.id THEN job ELSE @[id]]]

----------------------------------------------------------------------------
Init ==
  /\ now = 1
  /\ lamport = [n \in Node |-> 0]
  /\ queue = [n \in Node |-> EmptyQueue]
  /\ up = Node
  /\ msgs = {}
  /\ jobs = 0 /\ sends = 0
  /\ claims = [id \in ID |-> 0]
  /\ timeouts = [id \in ID |-> 0]

Tick ==
  /\ now < MaxNow
  /\ now' = now + 1
  /\ UNCHANGED <<lamport, queue, up, msgs, bounded, history>>

(* An ID names neither the node nor the job: a log merged earlier may have  *)
(* brought a peer's job of the same ID, which then leaves the index.        *)
Enqueued(q, job) ==
  Sorted([WithJob(q, job) EXCEPT
            !.shared = @ \cup {job.id},
            !.outdated = @ \cup (IF job.id \in q.shared THEN {q.index[job.id]} ELSE {}),
            !.pending = Append(@, job.id)])

Enqueue(n, priority, maxRetries, deadline, suffix) ==
  LET ts  == lamport[n] + 1
      job == [id |-> <<ts, suffix>>, status |-> "pending", priority |-> priority,
              timestamp |-> ts, retries |-> 0, maxRetries |-> maxRetries,
              updatedAt |-> now, node |-> n, deadlineAt |-> now + deadline,
              started |-> 0]
  IN  /\ n \in up
      /\ jobs < MaxJobs
      /\ jobs' = jobs + 1
      /\ lamport' = [lamport EXCEPT ![n] = ts]
      /\ queue' = [queue EXCEPT ![n] = Enqueued(@, job)]
      /\ UNCHANGED <<now, up, msgs, sends, history>>

----------------------------------------------------------------------------
Late(q, id) == id \in DOMAIN q.index /\ Expired(q.index[id])

Ready(q, id) ==
  id \in DOMAIN q.index /\ ~Expired(q.index[id]) /\ q.index[id].status = "pending"

(* The loop of GetNextJob ranges over PendingJobs as it was, while its body *)
(* removes elements from the array underneath: what follows a removed       *)
(* element moves one place to the left and is passed over, and the places   *)
(* after the shortened list all show the last element of the old list.      *)
(* So turn i looks at place[i] of the old list, or else at its end.         *)
At(q, k) == q.pending[IF k > Len(q.pending) THEN Len(q.pending) ELSE k]

Places(q) ==
  LET place[i \in DOMAIN q.pending] ==
        IF i = 1 THEN 1
        ELSE LET k == place[i - 1] IN IF Late(q, At(q, k)) THEN k + 2 ELSE k + 1
  IN  place

(* The loop ends with the first job that is ready, with the panic on an     *)
(* evicted job, or with the panic on removing from beyond the list, where   *)
(* the job has been changed already.                                        *)
Scan(q) ==
  LET place   == Places(q)
      Id(i)   == At(q, place[i])
      turns   == DOMAIN q.pending
      ends    == {i \in turns : \/ Id(i) \notin DOMAIN q.index
                                \/ Ready(q, Id(i))
                                \/ Late(q, Id(i)) /\ place[i] > Len(q.pending)}
      end     == Min(ends \cup {Len(q.pending)})
      late    == {i \in turns : i <= end /\ Late(q, Id(i))}
      taken   == {i \in {end} : Ready(q, Id(i))}
  IN  [late    |-> Picked([i \in turns |-> Id(i)], late),
       taken   |-> {Id(i) : i \in taken},
       listed  |-> {Id(i) : i \in {j \in taken : place[j] \in turns}},
       pending |-> Picked(q.pending, turns \ {place[i] : i \in late \cup taken})]

(* The queue after GetNextJob at node n.                                    *)
Claimed(q, n) ==
  LET scan == Scan(q)
      Take(job) == IF job.id \in scan.taken
                   THEN [job EXCEPT !.status = "processing", !.started = now,
                                    !.updatedAt = now, !.node = n]
                   ELSE job
  IN  [q EXCEPT !.index = [id \in DOMAIN @ |-> Take(@[id])],
                !.pending = scan.pending,
                !.processing = IF scan.listed = {} THEN @
                               ELSE Append(@, CHOOSE id \in scan.listed : TRUE),
                !.dead = DeadLetter(@, scan.late)]

Claim(n) ==
  /\ n \in up
  /\ queue[n].pending # <<>>
  /\ SumFunction(claims) < MaxClaims
  /\ queue' = [queue EXCEPT ![n] = Claimed(@, n)]
  /\ claims' = [id \in ID |-> IF id \in Scan(queue[n]).taken THEN claims[id] + 1
                                                             ELSE claims[id]]
  /\ UNCHANGED <<now, lamport, up, msgs, bounded, timeouts>>

MarkComplete(n, id) ==
  LET q == queue[n]
  IN  /\ n \in up
      /\ id \in DOMAIN q.index
      /\ q.index[id].status = "processing"
      /\ queue' = [queue EXCEPT ![n] =
           [WithJob(q, [q.index[id] EXCEPT !.status = "completed", !.updatedAt = now,
                                           !.node = n])
              EXCEPT !.processing = RemoveFirst(@, id)]]
      /\ UNCHANGED <<now, lamport, up, msgs, bounded, history>>

(* MarkFailed asks for the job to exist, not for it to be in processing.    *)
(* updatedAt of a retry is the time the backoff ends, which nothing else    *)
(* looks at.                                                                *)
(*                                                                          *)
(* Mutants of Failed: the limit is off by one; the job does not go to the   *)
(* dead-letter queue.                                                       *)
FailedLate(q, n, job) ==
  LET report == [job EXCEPT !.retries = @ + 1, !.node = n, !.updatedAt = now]
      done   == [q EXCEPT !.processing = RemoveFirst(@, job.id)]
  IN  IF report.retries > job.maxRetries
      THEN [WithJob(done, [report EXCEPT !.status = "failed"]) EXCEPT !.dead = DeadLetter(@, <<job.id>>)]
      ELSE [WithJob(done, [report EXCEPT !.status = "pending"])
              EXCEPT !.pending = Append(@, job.id)]

FailedSilently(q, n, job) ==
  LET report == [job EXCEPT !.retries = @ + 1, !.node = n, !.updatedAt = now]
  IN  [WithJob(q, [report EXCEPT !.status = "failed"])
         EXCEPT !.processing = RemoveFirst(@, job.id)]

Failed(q, n, job) ==
  LET report == [job EXCEPT !.retries = @ + 1, !.node = n]
      done   == [q EXCEPT !.processing = RemoveFirst(@, job.id)]
  IN  IF report.retries >= job.maxRetries
      THEN [WithJob(done, [report EXCEPT !.status = "failed", !.updatedAt = now])
              EXCEPT !.dead = DeadLetter(@, <<job.id>>)]
      ELSE Sorted([WithJob(done, [report EXCEPT !.status = "pending",
                                                !.updatedAt = now + Backoff(report.retries)])
                     EXCEPT !.pending = Append(@, job.id)])

MarkFailed(n, id) ==
  /\ n \in up
  /\ id \in DOMAIN queue[n].index
  /\ queue[n].index[id].retries < MaxReports
  /\ queue' = [queue EXCEPT ![n] = Failed(@, n, @.index[id])]
  /\ UNCHANGED <<now, lamport, up, msgs, bounded, history>>

----------------------------------------------------------------------------
Only(list, ids) == Picked(list, {i \in DOMAIN list : list[i] \in ids})

Without(list, ids) == Picked(list, {i \in DOMAIN list : list[i] \notin ids})

(* cleanupExpiredJobs: expired jobs leave the pending list, stuck ones go   *)
(* back to it, with neither a new stamp nor the node's name.                *)
(*                                                                          *)
(* Mutant of Requeued: stuck jobs become pending, but are not listed.       *)
RequeuedUnlisted(q) ==
  LET stuck == {id \in ToSet(q.processing) : Stuck(q.index[id])}
      Free(job) == IF job.id \in stuck THEN [job EXCEPT !.status = "pending"] ELSE job
  IN  [q EXCEPT !.index = [id \in DOMAIN @ |-> Free(@[id])],
                !.processing = Without(@, stuck)]

Requeued(q) ==
  LET expired == {id \in ToSet(q.pending) : Expired(q.index[id])}
      stuck   == {id \in ToSet(q.processing) : Stuck(q.index[id])}
      Free(job) == IF job.id \in stuck THEN [job EXCEPT !.status = "pending"] ELSE job
  IN  Sorted([q EXCEPT
        !.index = [id \in DOMAIN @ |-> Free(@[id])],
        !.pending = Without(@, expired) \o Only(q.processing, stuck),
        !.processing = Without(@, stuck),
        !.dead = DeadLetter(@, Only(q.pending, expired))])

(* ... then the old terminal jobs of the log leave the log, and whatever    *)
(* the index holds under their IDs leaves the index.                        *)
(*                                                                          *)
(* Mutant of Evicted: the log keeps them.                                   *)
EvictedFromIndex(q) ==
  [q EXCEPT !.index = Restrict(@, {id \in DOMAIN @ : ~Evictable(@[id])})]

Evicted(q) ==
  LET gone == {job.id : job \in {j \in Log(q) : Evictable(j)}}
      kept == DOMAIN q.index \ gone
  IN  [q EXCEPT !.index = Restrict(@, kept),
                !.shared = @ \cap kept,
                !.outdated = {j \in Log(q) : ~Evictable(j)}
                               \ {q.index[id] : id \in q.shared \cap kept}]

(* A panic outside of an HTTP handler ends the process; it is not started   *)
(* again here.                                                              *)
Dies(n) ==
  /\ up' = up \ {n}
  /\ queue' = [queue EXCEPT ![n] = EmptyQueue]

(* Cleanup runs in a goroutine of its own.                                  *)
Cleanup(n) ==
  LET q == queue[n]
  IN  /\ n \in up
      /\ IF Dangling(q) = {}
         THEN /\ queue' = [queue EXCEPT ![n] = Evicted(Requeued(q))]
              /\ timeouts' = [id \in ID |->
                   IF id \in ToSet(q.processing) /\ Stuck(q.index[id])
                   THEN timeouts[id] + 1 ELSE timeouts[id]]
              /\ UNCHANGED up
         ELSE Dies(n) /\ UNCHANGED timeouts
      /\ UNCHANGED <<now, lamport, msgs, bounded, claims>>

----------------------------------------------------------------------------
(* Snapshot at m, for n to merge: the periodic gossip, or the push after a  *)
(* claim.                                                                   *)
Send(m, n) ==
  /\ m # n
  /\ m \in up
  /\ sends < MaxSends
  /\ sends' = sends + 1
  /\ Cardinality(msgs) < MaxInFlight
  /\ msgs' = msgs \cup {[from |-> m, to |-> n, log |-> Log(queue[m])]}
  /\ UNCHANGED <<now, lamport, queue, up, jobs, history>>

(* Mutants of Adopt, one turn of MergeSnapshot's loop: an unknown job does  *)
(* not enter the log; an adopted job does not enter its list.               *)
AdoptUnlogged(q, peer) ==
  IF peer.id \in DOMAIN q.index THEN q
  ELSE [WithJob(q, peer) EXCEPT
          !.pending = @ \o (IF peer.status = "pending" THEN <<peer.id>> ELSE <<>>)]

AdoptUnlisted(q, peer) ==
  IF peer.id \in DOMAIN q.index /\ ~Older(q.index[peer.id], peer) THEN q
  ELSE [WithJob(q, peer) EXCEPT !.shared = @ \cup {peer.id}]

(* One turn of MergeSnapshot's loop: a job is adopted when it is unknown or *)
(* strictly newer.  Only an unknown one is added to the log.                *)
Adopt(q, peer) ==
  LET known    == peer.id \in DOMAIN q.index
      replaced == known /\ peer.id \in q.shared
      Listed(list, status) ==
        (IF known THEN RemoveFirst(list, peer.id) ELSE list)
          \o (IF peer.status = status THEN <<peer.id>> ELSE <<>>)
  IN  IF known /\ ~Older(q.index[peer.id], peer) THEN q
      ELSE [WithJob(q, peer) EXCEPT
              !.shared = IF known THEN @ \ {peer.id} ELSE @ \cup {peer.id},
              !.outdated = @ \cup (IF replaced THEN {q.index[peer.id]} ELSE {}),
              !.pending = Listed(@, "pending"),
              !.processing = Listed(@, "processing")]

(* The loop over a log in some order.                                       *)
Adopted(q, log) ==
  LET merged[k \in 0 .. Len(log)] ==
        IF k = 0 THEN q ELSE Adopt(merged[k - 1], log[k])
  IN  merged[Len(log)]

(* A pushed state is merged in a handler, a pulled one in the gossip loop.  *)
Deliver(m, n) ==
  /\ n \in up
  /\ \E msg \in msgs : \E log \in SetToSeqs(msg.log) :
       /\ msg.from = m /\ msg.to = n
       /\ msgs' = msgs \ {msg}
       /\ LET q == Adopted(queue[n], log)
          IN  \/ queue' = [queue EXCEPT ![n] = Sorted(q)] /\ UNCHANGED up
              \/ SortPanics(q) /\ Dies(n)
  /\ UNCHANGED <<now, lamport, bounded, history>>

Lose(msg) ==
  /\ msgs' = msgs \ {msg}
  /\ UNCHANGED <<now, lamport, queue, up, bounded, history>>

----------------------------------------------------------------------------
Next ==
  \/ Tick
  \/ \E n \in Node :
       \/ \E p \in Priorities, r \in Retries, d \in Deadlines, s \in Suffix :
            Enqueue(n, p, r, d, s)
       \/ Claim(n)
       \/ \E id \in ID : MarkComplete(n, id) \/ MarkFailed(n, id)
       \/ Cleanup(n)
  \/ \E m, n \in Node : Send(m, n) \/ Deliver(m, n)
  \/ \E msg \in msgs : Lose(msg)

Spec == Init /\ [][Next]_vars

(* Workers poll for jobs, and the ticker of JobManager never stops: weak    *)
(* fairness of Claim and Cleanup, with ENABLED written out.                 *)
CanClaim(n) ==
  n \in up /\ queue[n].pending # <<>> /\ Claimed(queue[n], n) # queue[n]

CanClean(n) ==
  n \in up /\ (Dangling(queue[n]) # {} \/ Evicted(Requeued(queue[n])) # queue[n])

WorkFairness ==
  \A n \in Node :
    /\ []<>(~CanClaim(n)) \/ []<><<Claim(n)>>_vars
    /\ []<>(~CanClean(n)) \/ []<><<Cleanup(n)>>_vars

WorkSpec == Spec /\ WorkFairness

----------------------------------------------------------------------------
(* Retries are limited: on one node, with late and repeated reports, jobs   *)
(* listed twice and jobs taken back from slow workers, nobody is given a    *)
(* job more often than max_retries allows plus the times it was taken back. *)
AttemptsBounded ==
  \A n \in Node : \A id \in DOMAIN queue[n].index :
    LET limit == queue[n].index[id].maxRetries
    IN  claims[id] <= (IF limit = 0 THEN 1 ELSE limit) + timeouts[id]

(* No waiting job is forgotten: a pending job of the index is on the list   *)
(* GetNextJob reads, or has expired; whatever claims, cleanups and merges   *)
(* shift, sort or replace.                                                  *)
PendingIsQueued ==
  \A n \in Node : \A id \in DOMAIN queue[n].index :
    queue[n].index[id].status = "pending" =>
      id \in ToSet(queue[n].pending) \/ Expired(queue[n].index[id])

(* A job that any node of the mesh knows as failed is in the dead-letter    *)
(* queue of the node that failed it, as long as that process lives and the  *)
(* queue is not full; and nowhere else, since dead-letter queues are not    *)
(* gossiped.                                                                *)
Buried(q, id) == id \in ToSet(q.dead) \/ Len(q.dead) = MaxSize

FailedIsDeadLettered ==
  \A n \in Node : \A id \in DOMAIN queue[n].index :
    LET job == queue[n].index[id]
    IN  job.status = "failed" /\ job.node \in up => Buried(queue[job.node], id)

(* A node gossips some version of every job it knows, also of those it only *)
(* learnt of by gossip: the log loses an ID only when the index does.       *)
KnownIsGossiped ==
  \A n \in Node : DOMAIN queue[n].index \subseteq {job.id : job \in Log(queue[n])}

(* A waiting job is served: workers that keep polling get it, or it is      *)
(* dead-lettered when its deadline passes; no list order, duplicate or      *)
(* expired neighbour keeps it waiting, unless the whole process goes down.  *)
Waiting(n, id) ==
  id \in DOMAIN queue[n].index /\ queue[n].index[id].status = "pending"

PendingIsServed ==
  \A n \in Node, id \in ID :
    Waiting(n, id) ~> (~Waiting(n, id) \/ id \in ToSet(queue[n].dead))

(* queue/job_manager.go:316 takes jobs back from stuck workers: "Timeout    *)
(* processing jobs (stuck workers)".  For that, every job in processing is  *)
(* on the list cleanup reads.                                               *)
ProcessingIsTracked ==
  \A n \in Node : \A id \in DOMAIN queue[n].index :
    queue[n].index[id].status = "processing" => id \in ToSet(queue[n].processing)

(* queue/job.go:306 says that Snapshot returns "a copy of every job ever    *)
(* seen by this queue", and job.go:324 that merging these copies "converges *)
(* *state* (a job's status, result, retry count) eventually".  For that, a  *)
(* node's snapshot has the version of a job that the node itself answers    *)
(* GET /queue/status with.                                                  *)
SnapshotIsCurrent ==
  \A n \in Node : \A id \in DOMAIN queue[n].index :
    queue[n].index[id] \in Log(queue[n])
=============================================================================

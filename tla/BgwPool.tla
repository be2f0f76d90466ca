------------------------------- MODULE BgwPool -------------------------------
(***************************************************************************)
(* The pool of apply workers of src/src/bgwpool.c.  A receiver (the        *)
(* producer) puts jobs into a ring buffer in shared memory: a job is a     *)
(* 4-byte size followed by the work, and a job that does not fit between   *)
(* the tail and the end of the buffer has its size at the tail and its     *)
(* work at the start.  Workers take the jobs out.  The semaphore           *)
(* 'available' counts the jobs, 'overflow' wakes the producer that found   *)
(* no room.                                                                *)
(*                                                                         *)
(* A step is one section under pool->lock or one semaphore operation.  The *)
(* buffer is kept word by word (4 bytes): every word of a job holds the    *)
(* number of the job, which is enough to see an overwritten job.           *)
(* lastPeakTime, read by monitoring only, is left out.                     *)
(***************************************************************************)
EXTENDS Naturals, Sequences, FiniteSets

CONSTANTS
    QueueSize,      \* pool->size, in bytes
    NWorkers,       \* static workers: pool->nWorkers after BgwPoolInit
    MtmMaxWorkers,  \* limit of pool->nWorkers with dynamic workers
    JobSizes,       \* sizes of the work the producer submits, in bytes
    MaxJobs,        \* bound: jobs submitted in a behaviour
    MayStop         \* whether BgwPoolStop is called in a behaviour

ASSUME ConstantsOK ==
    /\ QueueSize \in Nat \ {0} /\ QueueSize % 4 = 0
    /\ NWorkers \in Nat \ {0} /\ MtmMaxWorkers \in Nat
    /\ JobSizes \subseteq Nat \ {0}
    /\ MaxJobs \in Nat /\ MayStop \in BOOLEAN

VARIABLES
    queue,            \* pool->queue, by word: the job written there, 0 for none
    head, tail,       \* pool->head, pool->tail
    pending, active,  \* pool->pending, pool->active
    nWorkers,         \* pool->nWorkers
    producerBlocked,  \* pool->producerBlocked
    shutdown,         \* pool->shutdown
    available,        \* semaphore pool->available
    overflow,         \* semaphore pool->overflow
    producer,         \* the producer: "idle", or "blocked" in BgwPoolExecute
    worker,           \* the workers: "wait", "taken", "exec", "exited"
    submitted,        \* history: size of every job submitted
    executed,         \* history: what was handed to pool->executor
    overrun           \* history: the tail has caught up with the head

pool == <<head, tail, pending, active, nWorkers, producerBlocked>>
vars == <<queue, pool, shutdown, available, overflow, producer, worker,
          submitted, executed, overrun>>

Workers  == 1..(IF MtmMaxWorkers > NWorkers THEN MtmMaxWorkers ELSE NWorkers)
Words    == 0..(QueueSize \div 4 - 1)
INTALIGN(n) == ((n + 3) \div 4) * 4

\* the words of 'size' bytes from byte 'from' on
WordsOf(from, size) == {w \in Words : from <= 4 * w /\ 4 * w < from + size}

\* mutant of Wrapped: the end of the buffer is not looked for
Wrapped_Never(pos) == pos

\* head and tail go back to 0 at the end of the buffer
Wrapped(pos) == IF pos = QueueSize THEN 0 ELSE pos

\* the size in the header of job k; memory nobody wrote is zero
SizeOfJob(k) == IF k = 0 THEN 0 ELSE submitted[k]

-----------------------------------------------------------------------------
(* Producer: BgwPoolExecute *)

\* mutant of NoRoom: at the end of the buffer the head is not looked at
NoRoom_HeadIgnored(size) ==
    head > tail /\ head - tail < size + 4

\* no room for a job of this size: neither behind the tail nor, from the
\* start of the buffer, in front of the head
NoRoom(size) ==
    \/ head <= tail /\ QueueSize - tail < size + 4 /\ head < size
    \/ head > tail /\ head - tail < size + 4

\* the job k is written at the tail
Enqueue(k, size) ==
    LET fits  == QueueSize - tail >= size + 4
        work  == WordsOf(IF fits THEN tail + 4 ELSE 0, size)
        after == Wrapped(IF fits THEN tail + 4 + INTALIGN(size) ELSE INTALIGN(size))
    IN  /\ pending' = pending + 1
        /\ nWorkers' = IF active + pending + 1 > nWorkers /\ nWorkers < MtmMaxWorkers
                       THEN nWorkers + 1 ELSE nWorkers
        /\ queue' = [w \in Words |-> IF 4 * w = tail \/ w \in work THEN k ELSE queue[w]]
        /\ tail' = after
        /\ overrun' = (overrun \/ after = head)
        /\ available' = available + 1
        /\ producer' = "idle"
        /\ UNCHANGED <<head, active, producerBlocked>>

\* mutant of ProducerBlocks: the job is announced before room is looked for
ProducerBlocks_Announced ==
    /\ producerBlocked' = TRUE
    /\ producer' = "blocked"
    /\ available' = available + 1
    /\ UNCHANGED <<queue, head, tail, pending, active, nWorkers, overrun>>

\* the producer is about to wait on 'overflow'
ProducerBlocks ==
    /\ producerBlocked' = TRUE
    /\ producer' = "blocked"
    /\ UNCHANGED <<queue, head, tail, pending, active, nWorkers, available, overrun>>

\* one turn of the loop of BgwPoolExecute for job k, under the lock
Attempt(k, size) ==
    \/ /\ shutdown
       /\ producer' = "idle"
       /\ UNCHANGED <<queue, pool, available, overrun>>
    \/ ~shutdown /\ NoRoom(size) /\ ProducerBlocks
    \/ ~shutdown /\ ~NoRoom(size) /\ Enqueue(k, size)

\* BgwPoolExecute is called: work larger than the buffer is run at once,
\* other work is queued or the producer blocks
BgwPoolExecute(size) ==
    /\ producer = "idle"
    /\ Len(submitted) < MaxJobs
    /\ submitted' = Append(submitted, size)
    /\ IF size + 4 > QueueSize
       THEN /\ executed' = Append(executed, [job |-> Len(submitted) + 1, intact |-> TRUE])
            /\ UNCHANGED <<queue, pool, available, producer, overrun>>
       ELSE /\ Attempt(Len(submitted) + 1, size)
            /\ UNCHANGED executed
    /\ UNCHANGED <<shutdown, overflow, worker>>

\* PGSemaphoreLock(pool->overflow) returns and the loop takes another turn
ProducerWakes ==
    /\ producer = "blocked"
    /\ overflow > 0
    /\ overflow' = overflow - 1
    /\ Attempt(Len(submitted), submitted[Len(submitted)])
    /\ UNCHANGED <<shutdown, worker, submitted, executed>>

-----------------------------------------------------------------------------
(* Workers: BgwPoolMainLoop *)

Running(w) == w <= nWorkers /\ worker[w] # "exited"

\* PGSemaphoreLock(pool->available)
WorkerTakes(w) ==
    /\ Running(w) /\ worker[w] = "wait"
    /\ available > 0
    /\ available' = available - 1
    /\ worker' = [worker EXCEPT ![w] = "taken"]
    /\ UNCHANGED <<queue, pool, shutdown, overflow, producer, submitted, executed, overrun>>

\* mutant of PassedOn: a worker that leaves keeps the wake-up for itself
PassedOn_Kept(n) == n

\* 'available' after a worker has seen the shutdown: the next one is woken
PassedOn(n) == n + 1

\* the worker sees pool->shutdown and leaves the loop
WorkerExits(w) ==
    /\ worker[w] = "taken"
    /\ shutdown
    /\ available' = PassedOn(available)
    /\ worker' = [worker EXCEPT ![w] = "exited"]
    /\ UNCHANGED <<queue, pool, shutdown, overflow, producer, submitted, executed, overrun>>

\* mutant of Unblocked: the producer is not woken
Unblocked_Never(n) == n

\* 'overflow' after a worker has made room: a blocked producer is woken
Unblocked(n) == IF producerBlocked THEN n + 1 ELSE n

\* the worker copies the job at the head out of the buffer and runs it
WorkerDequeues(w) ==
    LET k     == queue[head \div 4]
        size  == SizeOfJob(k)
        split == head + size + 4 > QueueSize
        work  == WordsOf(IF split THEN 0 ELSE head + 4, size)
    IN  /\ worker[w] = "taken"
        /\ ~shutdown
        /\ pending' = pending - 1
        /\ active' = active + 1
        /\ head' = Wrapped(IF split THEN INTALIGN(size) ELSE head + 4 + INTALIGN(size))
        /\ overflow' = Unblocked(overflow)
        /\ producerBlocked' = FALSE
        /\ executed' = Append(executed,
               [job |-> k, intact |-> k # 0 /\ \A x \in work : queue[x] = k])
        /\ worker' = [worker EXCEPT ![w] = "exec"]
        /\ UNCHANGED <<queue, tail, nWorkers, shutdown, available, producer,
                       submitted, overrun>>

\* pool->executor has returned
WorkerFinishes(w) ==
    /\ worker[w] = "exec"
    /\ active' = active - 1
    /\ worker' = [worker EXCEPT ![w] = "wait"]
    /\ UNCHANGED <<queue, head, tail, pending, nWorkers, producerBlocked, shutdown,
                   available, overflow, producer, submitted, executed, overrun>>

\* BgwPoolStop, from the signal handler of a worker
BgwPoolStop ==
    /\ MayStop /\ ~shutdown
    /\ shutdown' = TRUE
    /\ available' = available + 1
    /\ overflow' = overflow + 1
    /\ UNCHANGED <<queue, pool, producer, worker, submitted, executed, overrun>>

-----------------------------------------------------------------------------
(* Specification *)

\* BgwPoolInit
Init ==
    /\ queue = [w \in Words |-> 0]
    /\ head = 0 /\ tail = 0
    /\ pending = 0 /\ active = 0
    /\ nWorkers = NWorkers
    /\ producerBlocked = FALSE
    /\ shutdown = FALSE
    /\ available = 0 /\ overflow = 0
    /\ producer = "idle"
    /\ worker = [w \in Workers |-> "wait"]
    /\ submitted = <<>>
    /\ executed = <<>>
    /\ overrun = FALSE

Producer == (\E size \in JobSizes : BgwPoolExecute(size)) \/ ProducerWakes

Worker(w) == WorkerTakes(w) \/ WorkerExits(w) \/ WorkerDequeues(w) \/ WorkerFinishes(w)

Next == Producer \/ (\E w \in Workers : Worker(w)) \/ BgwPoolStop

\* the scheduler runs a producer that was woken and every worker, and the
\* executor returns
Spec == Init /\ [][Next]_vars /\ WF_vars(ProducerWakes) /\ \A w \in Workers : WF_vars(Worker(w))

-----------------------------------------------------------------------------
(* Properties *)

\* The variables keep their types; head and tail stay aligned and inside the
\* buffer, the counters never go below zero.
TypeOK ==
    /\ queue \in [Words -> 0..MaxJobs]
    /\ head \in {4 * w : w \in Words} /\ tail \in {4 * w : w \in Words}
    /\ pending \in 0..MaxJobs /\ active \in 0..MaxJobs
    /\ nWorkers \in Workers
    /\ producerBlocked \in BOOLEAN /\ shutdown \in BOOLEAN
    /\ available \in 0..(MaxJobs + Cardinality(Workers) + 1)
    /\ overflow \in 0..(MaxJobs + 1)
    /\ producer \in {"idle", "blocked"}
    /\ worker \in [Workers -> {"wait", "taken", "exec", "exited"}]
    /\ submitted \in Seq(JobSizes) /\ Len(submitted) <= MaxJobs
    /\ executed \in Seq([job : 0..MaxJobs, intact : BOOLEAN])
    /\ overrun \in BOOLEAN

\* Until the pool is stopped the semaphore 'available' counts the jobs in
\* the buffer: every job queued is announced once (BgwPoolExecute) and every
\* worker that got past the semaphore finds a job (BgwPoolMainLoop reads the
\* size at the head without asking whether there is one).
SemaphoreCountsJobs ==
    ~shutdown =>
        available + Cardinality({w \in Workers : worker[w] = "taken"}) = pending

\* As long as the tail has never caught up with the head, every job is
\* handed to the executor as it was submitted and at most once: the test for
\* room in BgwPoolExecute keeps the producer off the jobs not yet taken, on
\* both sides of the end of the buffer.
IntactUnlessOverrun ==
    ~overrun =>
        /\ \A i \in DOMAIN executed : executed[i].intact
        /\ \A i, j \in DOMAIN executed :
               executed[i].job = executed[j].job => i = j

\* No wake-up of the producer is lost: while it waits on 'overflow', either
\* producerBlocked still tells the next worker to wake it, or the wake-up is
\* in the semaphore already (BgwPoolMainLoop resets the flag and unlocks the
\* semaphore under the lock BgwPoolExecute set the flag under).
WakeupIsPending ==
    producer = "blocked" => producerBlocked \/ overflow > 0

\* After BgwPoolStop nobody stays in the pool: the producer leaves
\* BgwPoolExecute and every worker leaves its loop, the one wake-up of
\* BgwPoolStop being passed on from worker to worker.
EveryoneLeavesOnShutdown ==
    shutdown ~> /\ producer = "idle"
                /\ \A w \in Workers : w > nWorkers \/ worker[w] = "exited"

\* Every job is handed to the executor as it was submitted, and at most once.
JobsRunIntactOnce ==
    /\ \A i \in DOMAIN executed : executed[i].intact
    /\ \A i, j \in DOMAIN executed : executed[i].job = executed[j].job => i = j

\* Work that is not larger than the buffer can be queued (BgwPoolExecute:
\* only when "Size of work is larger than size of shared buffer" it is run
\* at once): a producer that blocks has somebody to wake it, a job in the
\* buffer or in the hands of a worker.
ProducerNotStranded ==
    producer = "blocked" /\ ~shutdown =>
        pending + Cardinality({w \in Workers : worker[w] \in {"taken"}}) + overflow > 0

=============================================================================

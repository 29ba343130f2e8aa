----------------------------- MODULE StromQueue -----------------------------
(***************************************************************************)
(* The shared-memory message queue of shmem.c (src/main.c): a dlist under  *)
(* a process-shared pthread mutex with one condition variable.  Producers  *)
(* call pgstrom_queue_enqueue, consumers pgstrom_queue_dequeue (with a     *)
(* timeout in ms, 0 meaning wait forever) or pgstrom_queue_try_dequeue,    *)
(* and some process calls pgstrom_queue_shutdown.                          *)
(*                                                                         *)
(* Every call holds the mutex from start to end, except that a dequeue     *)
(* finding the queue empty releases it inside pthread_cond_(timed)wait.    *)
(* So each call is one step, and a waiting dequeue is two: the part before *)
(* the wait, and the part after it, which runs when the waiter is          *)
(* signalled, wakes spuriously (POSIX allows it at any time) or times out. *)
(***************************************************************************)
EXTENDS Naturals, Sequences, SequencesExt, FiniteSets

CONSTANTS
    Producers,  \* processes calling pgstrom_queue_enqueue
    Consumers,  \* processes calling pgstrom_queue_dequeue / try_dequeue
    NMsgs,      \* messages each producer sends
    Timeouts,   \* timeout arguments (ms) of dequeue; 0 waits forever
    USecs       \* tv_usec of gettimeofday when a timed wait starts

ASSUME NMsgs \in Nat /\ Timeouts \subseteq Nat /\ USecs \subseteq 0..999999

Msgs == Producers \X (1..NMsgs)

VARIABLES
    queue,      \* queue->head
    isShutdown, \* queue->is_shutdown
    sent,       \* sent[p]: messages producer p has passed to enqueue
    pc,         \* consumer: "idle", "blocked", "woken" (inside cond_wait)
    tmo,        \* timeout of the dequeue a consumer is inside
    got         \* messages consumers have received

vars == <<queue, isShutdown, sent, pc, tmo, got>>

Init ==
    /\ queue = <<>>
    /\ isShutdown = FALSE
    /\ sent = [p \in Producers |-> 0]
    /\ pc = [c \in Consumers |-> "idle"]
    /\ tmo = [c \in Consumers |-> 0]
    /\ got = {}

(* pgstrom_cond_wait: abstime.tv_nsec = (tv_usec + (timeout % 1000) * 1000) *)
(* * 1000.  pthread_cond_timedwait rejects a tv_nsec of 10^9 or more with   *)
(* EINVAL without waiting; the Assert on rc is compiled out and the call    *)
(* returns false, as on a timeout.                                          *)
AbsNsec(usec, t) == (usec + (t % 1000) * 1000) * 1000
TimedWaitRejected(usec, t) == t > 0 /\ AbsNsec(usec, t) >= 1000000000

Blocked == {c \in Consumers : pc[c] = "blocked"}

(* Faulty variant: the enqueue does not signal.                           *)
SignalNone == UNCHANGED pc

(* pthread_cond_signal wakes one blocked waiter, if there is one.          *)
Signal ==
    IF Blocked = {} THEN UNCHANGED pc
    ELSE \E w \in Blocked : pc' = [pc EXCEPT ![w] = "woken"]

(* pgstrom_queue_enqueue: push unless shut down, signal in either case.    *)
Enqueue(p) ==
    /\ sent[p] < NMsgs
    /\ sent' = [sent EXCEPT ![p] = @ + 1]
    /\ queue' = IF isShutdown THEN queue ELSE Append(queue, <<p, sent[p] + 1>>)
    /\ Signal
    /\ UNCHANGED <<isShutdown, tmo, got>>

(* pgstrom_queue_shutdown: set the flag; nothing is signalled.             *)
Shutdown ==
    /\ ~isShutdown
    /\ isShutdown' = TRUE
    /\ UNCHANGED <<queue, sent, pc, tmo, got>>

(* pgstrom_queue_try_dequeue *)
TryDequeue(c) ==
    /\ pc[c] = "idle"
    /\ queue # <<>>
    /\ got' = got \cup {Head(queue)}
    /\ queue' = Tail(queue)
    /\ UNCHANGED <<isShutdown, sent, pc, tmo>>

(* Faulty variant: the timeout is kept in microseconds.                   *)
DequeueMicros(c, t, u) ==
    /\ pc[c] = "idle"
    /\ IF queue # <<>>
          THEN /\ got' = got \cup {Head(queue)}
               /\ queue' = Tail(queue)
               /\ UNCHANGED <<pc, tmo>>
          ELSE /\ UNCHANGED <<got, queue>>
               /\ IF TimedWaitRejected(u, t)
                     THEN UNCHANGED <<pc, tmo>>
                     ELSE /\ pc' = [pc EXCEPT ![c] = "blocked"]
                          /\ tmo' = [tmo EXCEPT ![c] = t * 1000]
    /\ UNCHANGED <<isShutdown, sent>>

(* pgstrom_queue_dequeue(queue, t), up to the condition wait: pop the head *)
(* if there is one; else wait, or return NULL at once when the timed wait  *)
(* is rejected.                                                             *)
Dequeue(c, t, u) ==
    /\ pc[c] = "idle"
    /\ IF queue # <<>>
          THEN /\ got' = got \cup {Head(queue)}
               /\ queue' = Tail(queue)
               /\ UNCHANGED <<pc, tmo>>
          ELSE /\ UNCHANGED <<got, queue>>
               /\ IF TimedWaitRejected(u, t)
                     THEN UNCHANGED <<pc, tmo>>
                     ELSE /\ pc' = [pc EXCEPT ![c] = "blocked"]
                          /\ tmo' = [tmo EXCEPT ![c] = t]
    /\ UNCHANGED <<isShutdown, sent>>

(* The waiter returns from pthread_cond_wait without a signal.             *)
Spurious(c) ==
    /\ pc[c] = "blocked"
    /\ pc' = [pc EXCEPT ![c] = "woken"]
    /\ UNCHANGED <<queue, isShutdown, sent, tmo, got>>

(* pthread_cond_timedwait returns ETIMEDOUT: dequeue returns NULL.         *)
TimeOut(c) ==
    /\ pc[c] = "blocked"
    /\ tmo[c] > 0
    /\ pc' = [pc EXCEPT ![c] = "idle"]
    /\ UNCHANGED <<queue, isShutdown, sent, tmo, got>>

(* The wait returned 0 and the mutex is held again: pop if not empty.      *)
Resume(c) ==
    /\ pc[c] = "woken"
    /\ pc' = [pc EXCEPT ![c] = "idle"]
    /\ IF queue # <<>>
          THEN got' = got \cup {Head(queue)} /\ queue' = Tail(queue)
          ELSE UNCHANGED <<got, queue>>
    /\ UNCHANGED <<isShutdown, sent, tmo>>

Next ==
    \/ \E p \in Producers : Enqueue(p)
    \/ Shutdown
    \/ \E c \in Consumers :
          \/ TryDequeue(c)
          \/ \E t \in Timeouts, u \in USecs : Dequeue(c, t, u)
          \/ Spurious(c) \/ TimeOut(c) \/ Resume(c)

(* Producers run to completion; consumers keep calling dequeue; a woken    *)
(* waiter reacquires the mutex; a timer that is armed expires.  Spurious   *)
(* wakeups and shutdown are possible, never assured.                       *)
Fairness ==
    /\ \A p \in Producers : WF_vars(Enqueue(p))
    /\ \A c \in Consumers :
          /\ WF_vars(\E t \in Timeouts, u \in USecs : Dequeue(c, t, u))
          /\ WF_vars(Resume(c))
          /\ WF_vars(TimeOut(c))

Spec == Init /\ [][Next]_vars /\ Fairness

-----------------------------------------------------------------------------
TypeOK ==
    /\ queue \in Seq(Msgs)
    /\ isShutdown \in BOOLEAN
    /\ sent \in [Producers -> 0..NMsgs]
    /\ pc \in [Consumers -> {"idle", "blocked", "woken"}]
    /\ tmo \in [Consumers -> Timeouts]
    /\ got \subseteq Msgs

(* No wakeup is lost: a message that pgstrom_queue_enqueue accepted is     *)
(* eventually taken off the queue by some consumer, even when every        *)
(* consumer is blocked in a wait without timeout when it arrives.          *)
EveryMessageDelivered ==
    \A m \in Msgs : (m \in ToSet(queue)) ~> (m \in got)

(* Once the queue is shut down, a consumer blocked in                      *)
(* pgstrom_queue_dequeue is released.                                       *)
ShutdownReleasesWaiters ==
    \A c \in Consumers : (isShutdown /\ pc[c] = "blocked") ~> (pc[c] # "blocked")

=============================================================================

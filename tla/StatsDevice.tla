----------------------------- MODULE StatsDevice -----------------------------
(***************************************************************************)
(* The statistics device of xdma_base.c: the file the GUI opens, the timer *)
(* routine poll_stats, which adds a sample to the ring of every engine, and*)
(* the ioctl IGET_DMA_STATISTICS, which empties the rings in turn into the *)
(* array of the GUI.  The ring's number of samples is tested before        *)
(* DmaStatsLock is taken.                                                  *)
(*                                                                         *)
(* The SW statistics have rings of their own, filled by poll_stats under   *)
(* the same lock and read by an ioctl that is the same line by line: the   *)
(* module speaks for one kind of ring.                                     *)
(***************************************************************************)
EXTENDS StatsRing, FiniteSets

CONSTANTS
    MAX_DMA_ENGINES,
    engineMask,     \* the engines there are
    Guis,           \* threads that open the device
    Counts          \* lengths of the arrays they pass

Engines == 0 .. MAX_DMA_ENGINES - 1

VARIABLES
    ring,       \* DStats, dstatsNum, dstatsRead, dstatsWrite of each engine
    pollAt,     \* the engine poll_stats looks at next
    UserOpen,
    pc,         \* where each GUI is
    call,       \* the locals of its ioctl, with Count and two histories
    from        \* the sample it took last: its engine and the sample

vars == <<ring, pollAt, UserOpen, pc, call, from>>

\* taken counts the samples reported of each engine, dry is the set of
\* engines that were found empty: neither is in the code.
NewCall(count) == [Count |-> count, i |-> 0, j |-> 0, len |-> 0,
                   taken |-> [e \in Engines |-> 0], dry |-> {}]

NoCall == NewCall(0)

Init ==
    /\ ring = [e \in Engines |-> EmptyRing]
    /\ pollAt = 0
    /\ UserOpen = 0
    /\ pc = [g \in Guis |-> "closed"]
    /\ call = [g \in Guis |-> NoCall]
    /\ from = [g \in Guis |-> <<>>]

-----------------------------------------------------------------------------
\* One turn of the loop of poll_stats, under DmaStatsLock.
poll_stats ==
    /\ pollAt' = (pollAt + 1) % MAX_DMA_ENGINES
    /\ \E s \in Samples :
          ring' = IF pollAt \in engineMask
                  THEN [ring EXCEPT ![pollAt] = PutSample(@, s)] ELSE ring
    /\ UNCHANGED <<UserOpen, pc, call, from>>

-----------------------------------------------------------------------------
(* xdma_dev_open and xdma_dev_release.                                     *)

\* No lock: another GUI is refused.
OpenTest(g) ==
    /\ pc[g] = "closed"
    /\ UserOpen = 0
    /\ pc' = [pc EXCEPT ![g] = "opening"]
    /\ UNCHANGED <<ring, pollAt, UserOpen, call, from>>

Open(g) ==
    /\ pc[g] = "opening"
    /\ UserOpen' = UserOpen + 1
    /\ pc' = [pc EXCEPT ![g] = "open"]
    /\ UNCHANGED <<ring, pollAt, call, from>>

Release(g) ==
    /\ pc[g] = "open"
    /\ UserOpen # 0
    /\ UserOpen' = UserOpen - 1
    /\ pc' = [pc EXCEPT ![g] = "closed"]
    /\ UNCHANGED <<ring, pollAt, call, from>>

-----------------------------------------------------------------------------
(* IGET_DMA_STATISTICS.                                                    *)

Call(g) ==
    /\ pc[g] = "open"
    /\ \E count \in Counts : call' = [call EXCEPT ![g] = NewCall(count)]
    /\ pc' = [pc EXCEPT ![g] = "test"]
    /\ UNCHANGED <<ring, pollAt, UserOpen, from>>

Return(g) ==
    /\ pc' = [pc EXCEPT ![g] = "open"]
    /\ call' = [call EXCEPT ![g] = NoCall]

\* The end of the inner loop counts a turn of the outer loop.
NextEngine(g, c) ==
    IF c.j + 1 < MAX_DMA_ENGINES
    THEN /\ pc' = [pc EXCEPT ![g] = "test"]
         /\ call' = [call EXCEPT ![g] = [c EXCEPT !.j = c.j + 1]]
    ELSE IF c.i + 1 < c.Count
         THEN /\ pc' = [pc EXCEPT ![g] = "test"]
              /\ call' = [call EXCEPT ![g] = [c EXCEPT !.i = c.i + 1, !.j = 0]]
         ELSE Return(g)

\* No lock.
NumTest(g) ==
    LET c == call[g]
    IN  /\ pc[g] = "test"
        /\ IF ring[c.j].num = 0
           THEN NextEngine(g, [c EXCEPT !.dry = @ \cup {c.j}])
           ELSE /\ pc' = [pc EXCEPT ![g] = "take"]
                /\ UNCHANGED call
        /\ UNCHANGED <<ring, pollAt, UserOpen, from>>

\* DmaStatsLock.
Take(g) ==
    LET j == call[g].j
    IN  /\ pc[g] = "take"
        /\ from' = [from EXCEPT ![g] = <<j, ring[j].slots[ring[j].read]>>]
        /\ ring' = [ring EXCEPT ![j] = TakeSample(@)]
        /\ pc' = [pc EXCEPT ![g] = "copy"]
        /\ UNCHANGED <<pollAt, UserOpen, call>>

\* Mutant: the inner loop does not stop at Count.
Copy_NoBreak(g) ==
    LET c == [call[g] EXCEPT !.len = @ + 1, !.i = @ + 1,
                             !.taken[call[g].j] = @ + 1]
    IN  /\ pc[g] = "copy"
        /\ \/ Return(g)
           \/ NextEngine(g, c)
        /\ UNCHANGED <<ring, pollAt, UserOpen, from>>

\* copy_to_user, which may fail: the sample is lost then.
Copy(g) ==
    LET c == [call[g] EXCEPT !.len = @ + 1, !.i = @ + 1,
                             !.taken[call[g].j] = @ + 1]
    IN  /\ pc[g] = "copy"
        /\ \/ Return(g)
           \/ c.i < c.Count /\ NextEngine(g, c)
        /\ UNCHANGED <<ring, pollAt, UserOpen, from>>

-----------------------------------------------------------------------------
Ioctl(g) == NumTest(g) \/ Take(g) \/ Copy(g)

Next ==
    \/ poll_stats
    \/ \E g \in Guis :
          OpenTest(g) \/ Open(g) \/ Release(g) \/ Call(g) \/ Ioctl(g)

\* A system call goes on until it returns.
Fairness == \A g \in Guis : WF_vars(Ioctl(g))

Spec == Init /\ [][Next]_vars /\ Fairness

-----------------------------------------------------------------------------
TypeOK ==
    /\ ring \in [Engines -> StatsRings]
    /\ pollAt \in Engines
    /\ UserOpen \in 0 .. Cardinality(Guis)
    /\ pc \in [Guis -> {"closed", "opening", "open", "test", "take", "copy"}]
    /\ \A g \in Guis :
          /\ call[g].j \in Engines
          /\ call[g].len <= call[g].i
          /\ from[g] = <<>> \/ from[g] \in Engines \X Samples

\* The array of the GUI has room for every sample copied to it, although both
\* loops of the ioctl count with i.
NeverOverruns == \A g \in Guis : pc[g] = "copy" => call[g].len < call[g].Count

\* "Must copy in a round-robin manner so that reporting is fair": in one call
\* no engine is two samples ahead of one that still has some.
FairReport ==
    \A g \in Guis : \A e, f \in engineMask :
        call[g].taken[e] > call[g].taken[f] + 1 => f \in call[g].dry

\* What every call of the statistics ioctl keeps.
Inv == TypeOK /\ NeverOverruns /\ FairReport

\* Every call returns, with the rings empty too.
CallsReturn == \A g \in Guis : pc[g] = "test" ~> pc[g] = "open"

\* "To prevent more than one GUI" (xdma_dev_open).  The code does not keep it;
\* see the README.
OneGui == UserOpen <= 1

\* The rings of the engines are queues that lose their oldest samples: the GUI
\* gets the samples in order and none twice, though their number is tested
\* without the lock.
Queues == INSTANCE LossyQueue
    WITH queue <- [e \in Engines |-> Queued(ring[e])], got <- from,
         Readers <- Guis, Capacity <- MAX_STATS
ImplementsLossyQueue == Queues!Spec
=============================================================================

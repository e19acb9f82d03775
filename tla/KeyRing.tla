------------------------------- MODULE KeyRing -------------------------------
(***************************************************************************)
(* The driver of the 8 keys (key/button.c): the interrupt handler looks    *)
(* for the key and appends it to a ring; readers take from the ring, or    *)
(* wait for a flag that the handler sets.                                  *)
(***************************************************************************)
EXTENDS Naturals, FiniteSets

CONSTANTS
    MAX_BUTTON_BUF, \* a power of two
    Readers

IrqLines == 1 .. 4
NOKEY == 0

VARIABLES
    buf, head, tail,    \* the ring
    flag,               \* an event came; readers wait for it
    buttonStatus,
    unread,             \* events put and not taken; what the ring is to hold
    irqs,               \* interrupts the driver has
    others,             \* interrupts another driver has
    file,               \* opened
    reader              \* of a reader: "idle", "sleep", "woken", "retry"

vars == <<buf, head, tail, flag, buttonStatus, unread, irqs, others, file, reader>>

Init ==
    /\ buf = [i \in 0 .. MAX_BUTTON_BUF - 1 |-> NOKEY] /\ head = 0 /\ tail = 0
    /\ flag = FALSE /\ buttonStatus = NOKEY /\ unread = 0
    /\ irqs = {} /\ others \in {{}, {3}} /\ file = FALSE
    /\ reader = [r \in Readers |-> "idle"]

INCBUF(x) == (x + 1) % MAX_BUTTON_BUF

\* "GPFDAT & (1<<0)==0" is GPFDAT & 0: neither test of the handler ever succeeds.
Status(irq) == buttonStatus

\* isr_button with buttonEvent_1: the key is put at the head, the readers woken.
isr_button(irq) ==
    /\ irq \in irqs /\ file
    /\ buttonStatus' = Status(irq)
    /\ buf' = [buf EXCEPT ![head] = buttonStatus']
    /\ head' = INCBUF(head)
    /\ flag' = TRUE
    /\ unread' = IF head' = tail THEN 0 ELSE unread + 1
    /\ UNCHANGED <<tail, irqs, others, file, reader>>

\* button_open: the ring is emptied first, also by an open that fails; the lines
\* got before the one that is taken stay.
button_open ==
    /\ head' = 0 /\ tail' = 0 /\ unread' = 0
    /\ IF irqs \cup others = {} THEN irqs' = IrqLines /\ file' = TRUE
       ELSE /\ irqs' = irqs \cup {i \in IrqLines : \A o \in irqs \cup others : i < o}
            /\ UNCHANGED file
    /\ UNCHANGED <<buf, flag, buttonStatus, others, reader>>

OtherGone ==
    /\ others # {} /\ irqs = {} /\ others' = {}
    /\ UNCHANGED <<buf, head, tail, flag, buttonStatus, unread, irqs, file, reader>>

button_release ==
    /\ file /\ \A r \in Readers : reader[r] = "idle"
    /\ file' = FALSE /\ irqs' = {}
    /\ UNCHANGED <<buf, head, tail, flag, buttonStatus, unread, others, reader>>

\* Mutant: the tail runs up to the end only.
NextTail_Last(x) == IF x = MAX_BUTTON_BUF - 1 THEN x ELSE x + 1

NextTail(x) == INCBUF(x)

\* button_read with something in the ring.
buttonRead(r) ==
    /\ file /\ reader[r] \in {"idle", "retry"} /\ head # tail
    /\ tail' = NextTail(tail) /\ unread' = unread - 1
    /\ reader' = [reader EXCEPT ![r] = "idle"]
    /\ UNCHANGED <<buf, head, flag, buttonStatus, irqs, others, file>>

Sleep(r) ==
    /\ file /\ reader[r] \in {"idle", "retry"} /\ head = tail
    /\ reader' = [reader EXCEPT ![r] = "sleep"]
    /\ UNCHANGED <<buf, head, tail, flag, buttonStatus, unread, irqs, others, file>>

\* wait_event_interruptible returns because of the flag.
Wake(r) ==
    /\ reader[r] = "sleep" /\ flag
    /\ reader' = [reader EXCEPT ![r] = "woken"]
    /\ UNCHANGED <<buf, head, tail, flag, buttonStatus, unread, irqs, others, file>>

Again == "retry"

\* The flag is cleared, also what an event since then has set, and the ring is
\* looked at again.
Retry(r) ==
    /\ reader[r] = "woken"
    /\ flag' = FALSE /\ reader' = [reader EXCEPT ![r] = Again]
    /\ UNCHANGED <<buf, head, tail, buttonStatus, unread, irqs, others, file>>

\* -ERESTARTSYS; the flag is cleared as well.
Signalled(r) ==
    /\ reader[r] = "sleep"
    /\ flag' = FALSE /\ reader' = [reader EXCEPT ![r] = "idle"]
    /\ UNCHANGED <<buf, head, tail, buttonStatus, unread, irqs, others, file>>

Next ==
    \/ \E i \in IrqLines : isr_button(i)
    \/ button_open \/ OtherGone \/ button_release
    \/ \E r \in Readers : buttonRead(r) \/ Sleep(r) \/ Wake(r) \/ Retry(r) \/ Signalled(r)

Read(r) == Sleep(r) \/ buttonRead(r)

\* A reader that can go on does.
Fairness == \A r \in Readers : WF_vars(Wake(r)) /\ WF_vars(Retry(r)) /\ WF_vars(Read(r))

Spec == Init /\ [][Next]_vars /\ Fairness

-----------------------------------------------------------------------------
TypeOK ==
    /\ head \in DOMAIN buf /\ tail \in DOMAIN buf /\ unread \in 0 .. MAX_BUTTON_BUF - 1
    /\ irqs \subseteq IrqLines /\ buttonStatus \in 0 .. 8

\* The ring holds what was put and not taken, round its end; a full round is
\* taken for an empty ring, and all of it is lost.
RingMatches == (head - tail) % MAX_BUTTON_BUF = unread

\* Both.
Inv == TypeOK /\ RingMatches

\* The only reader of a ring does not sleep on an event: a flag that it cleared is
\* made good by another look at the ring.
ReaderSeesEvent ==
    \A r \in Readers : Cardinality(Readers) = 1 /\ reader[r] = "sleep" /\ head # tail
        ~> reader[r] # "sleep" \/ head = tail
=============================================================================

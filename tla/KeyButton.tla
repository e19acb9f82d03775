------------------------------ MODULE KeyButton ------------------------------
(***************************************************************************)
(* The driver of the 4 x 4 keypad (keybutton/button.c).  A key that goes   *)
(* down pulls its row's interrupt; the handler remembers the row and       *)
(* starts a timer against bouncing; when it expires the columns become     *)
(* inputs, the key is looked up by row and column, and the one reader that *)
(* may wait is woken.                                                      *)
(***************************************************************************)
EXTENDS Integers, FiniteSets

CONSTANTS
    Rows, Cols,     \* of the keypad, numbered from 1
    MaxDown,        \* keys held down at the same time
    Readers

Keys == Rows \X Cols

\* The number of the key at a row and a column, as the cases of delay_timer_fn
\* give it: 10 11 12 16, 7 8 9 15, 4 5 6 14, 1 2 3 13.
KeyNo(r, c) == IF c = 4 THEN 17 - r ELSE (4 - r) * 3 + c

VARIABLES
    down,       \* keys held down
    cur_irq,    \* the row of the last interrupt; 0 is none
    timer,      \* delay_timer is pending
    key_value,
    irqs,       \* rows whose interrupt the driver has
    owned,      \* rows that other drivers have
    st,         \* the driver: "absent", "loaded", "open"
    sem,        \* the reader that holds the semaphore, or "free"
    reader,     \* of a reader: "idle", "waiting", "woken"
    got,        \* the last value that was read: -1 if none, or after a signal
    since       \* keys that were down at some time since the last interrupt

vars == <<down, cur_irq, timer, key_value, irqs, owned, st, sem, reader, got, since>>

Init ==
    /\ down = {} /\ cur_irq = 0 /\ timer = FALSE /\ key_value = 0
    /\ irqs = {} /\ owned \in {{}} \cup {{r} : r \in Rows}
    /\ st = "absent" /\ sem = "free"
    /\ reader = [r \in Readers |-> "idle"] /\ got = -1 /\ since = {}

-----------------------------------------------------------------------------
(* The keypad (external).                                                  *)

\* button_irq_handler: the row is remembered and the timer starts again.
button_irq_handler(r, held) == cur_irq' = r /\ timer' = TRUE /\ since' = held

Press(k) ==
    /\ k \notin down /\ Cardinality(down) < MaxDown
    /\ down' = down \cup {k}
    /\ IF k[1] \in irqs /\ ~(\E h \in down : h[1] = k[1])
       THEN button_irq_handler(k[1], down')
       ELSE UNCHANGED <<cur_irq, timer>> /\ since' = since \cup {k}
    /\ UNCHANGED <<key_value, irqs, owned, st, sem, reader, got>>

Release(k) ==
    /\ k \in down /\ down' = down \ {k}
    /\ UNCHANGED <<cur_irq, timer, key_value, irqs, owned, st, sem, reader, got, since>>

-----------------------------------------------------------------------------
\* A column, while it is an input, shows a key that is down in it, of any row.
Shows(c) == \E k \in down : k[2] = c

\* The columns are looked at in order.
Found == CHOOSE c \in Cols : Shows(c) /\ \A d \in Cols : Shows(d) => c <= d

\* delay_timer_fn; gpio_init_input and gpio_init_output around it.
delay_timer_fn ==
    /\ timer /\ st # "absent"
    /\ timer' = FALSE
    /\ key_value' = IF cur_irq # 0 /\ \E c \in Cols : Shows(c) THEN KeyNo(cur_irq, Found)
                    ELSE key_value
    /\ UNCHANGED <<down, cur_irq, irqs, owned, st, sem, reader, got, since>>

-----------------------------------------------------------------------------
(* The file.                                                               *)

\* keybutton_open: the rows in order; one that is taken ends it, and those that
\* were got before stay.
keybutton_open ==
    /\ st = "loaded"
    /\ IF irqs \cup owned = {} THEN irqs' = Rows /\ st' = "open"
       ELSE /\ irqs' = irqs \cup {r \in Rows : \A o \in irqs \cup owned : r < o}
            /\ UNCHANGED st
    /\ UNCHANGED <<down, cur_irq, timer, key_value, owned, sem, reader, got, since>>

\* Another driver lets its interrupt go.
OtherGone ==
    /\ owned # {} /\ owned' = {}
    /\ UNCHANGED <<down, cur_irq, timer, key_value, irqs, st, sem, reader, got, since>>

\* Mutant: the semaphore lets everybody in.
MayRead_Always == TRUE

\* down_interruptible(&pkb->sem).
MayRead == sem = "free"

\* keybutton_read: a key from before is thrown away.
keybutton_read(r) ==
    /\ st = "open" /\ reader[r] = "idle" /\ MayRead
    /\ sem' = r /\ key_value' = 0 /\ reader' = [reader EXCEPT ![r] = "waiting"]
    /\ UNCHANGED <<down, cur_irq, timer, irqs, owned, st, got, since>>

\* wait_event_interruptible returns.
Woken(r) ==
    /\ reader[r] = "waiting" /\ key_value # 0
    /\ reader' = [reader EXCEPT ![r] = "woken"]
    /\ UNCHANGED <<down, cur_irq, timer, key_value, irqs, owned, st, sem, got, since>>

\* The value is copied from the device, whatever it is by then.
ReadEnds(r) ==
    /\ reader[r] = "woken"
    /\ got' = key_value /\ sem' = "free"
    /\ reader' = [reader EXCEPT ![r] = "idle"]
    /\ UNCHANGED <<down, cur_irq, timer, key_value, irqs, owned, st, since>>

\* A signal: the value, which may be none, is copied all the same.
ReadSignalled(r) ==
    /\ reader[r] = "waiting"
    /\ got' = -1 /\ sem' = "free"
    /\ reader' = [reader EXCEPT ![r] = "idle"]
    /\ UNCHANGED <<down, cur_irq, timer, key_value, irqs, owned, st, since>>

keybutton_close ==
    /\ st = "open" /\ \A r \in Readers : reader[r] = "idle"
    /\ st' = "loaded" /\ irqs' = {}
    /\ UNCHANGED <<down, cur_irq, timer, key_value, owned, sem, reader, got, since>>

\* button_init starts the timer, with no row to look at.
button_init ==
    /\ st = "absent"
    /\ st' = "loaded" /\ timer' = TRUE /\ cur_irq' = 0 /\ key_value' = 0
    /\ UNCHANGED <<down, irqs, owned, sem, reader, got, since>>

\* button_exit: the timer goes with the device.  An interrupt that a failed open
\* has left would find it freed; that there is none is an assumption.
button_exit ==
    /\ st = "loaded" /\ irqs = {}
    /\ st' = "absent" /\ timer' = FALSE
    /\ UNCHANGED <<down, cur_irq, key_value, irqs, owned, sem, reader, got, since>>

Next ==
    \/ \E k \in Keys : Press(k) \/ Release(k)
    \/ delay_timer_fn
    \/ keybutton_open \/ OtherGone \/ keybutton_close \/ button_init \/ button_exit
    \/ \E r \in Readers : keybutton_read(r) \/ Woken(r) \/ ReadEnds(r) \/ ReadSignalled(r)

GoesOn(r) == Woken(r) \/ ReadEnds(r)

\* The timer expires (the keys pause for HZ/6), and a reader that is woken runs.
Fairness ==
    /\ WF_vars(delay_timer_fn)
    /\ \A r \in Readers : WF_vars(GoesOn(r))

Spec == Init /\ [][Next]_vars /\ Fairness

-----------------------------------------------------------------------------
TypeOK ==
    /\ down \subseteq Keys /\ cur_irq \in Rows \cup {0} /\ key_value \in 0 .. 16
    /\ irqs \subseteq Rows /\ st \in {"absent", "loaded", "open"}

\* A read that no signal ended gives a key, though a later one may have replaced
\* the key that woke the reader.
ReadsAKey == got # 0

\* The key that would be found is down, unless keys of two rows were down since the
\* interrupt: then the row and the column may be of different keys.
KeyWasDown ==
    timer /\ cur_irq # 0 /\ (\E c \in Cols : Shows(c)) /\ (\A j, k \in since : j[1] = k[1])
        => <<cur_irq, Found>> \in down

\* All of them.
Inv == TypeOK /\ ReadsAKey /\ KeyWasDown

\* A reader that waits when a key's timer runs is woken, if a key is still down.
KeyIsRead ==
    \A r \in Readers : reader[r] = "waiting" /\ timer /\ cur_irq # 0 /\ down # {}
                           ~> reader[r] = "idle" \/ down = {}
=============================================================================

------------------------------- MODULE UsbSkel -------------------------------
(***************************************************************************)
(* The USB driver (usb/usb-skeleton.c): files that are opened, read,       *)
(* written and closed while the device is unplugged.  A reference counter  *)
(* keeps the device's state, io_mutex keeps I/O from starting after the    *)
(* disconnect, limit_sem bounds the writes in flight, the big kernel lock  *)
(* is to keep opening and disconnecting apart.                             *)
(*                                                                         *)
(* External: the USB core ends the URBs of an interface before it calls    *)
(* skel_disconnect, and refuses new ones from then on.                     *)
(***************************************************************************)
EXTENDS Naturals, FiniteSets

CONSTANTS
    Files,
    WRITES_IN_FLIGHT,
    AutopmSleeps    \* usb_autopm_get_interface sleeps: the kernel lock is let go

NOBODY == "nobody"

VARIABLES
    dev,        \* struct usb_skel: [st, kref, interface, sem]
    intf,       \* the interface: [data, minor, plugged, pm]
    file,       \* of a file: where its process is
    mutex,      \* io_mutex
    bkl,        \* the kernel lock
    inflight,   \* URBs submitted
    disc,       \* where skel_disconnect is
    bad         \* freed memory was used

vars == <<dev, intf, file, mutex, bkl, inflight, disc, bad>>

Init ==
    /\ dev = [st |-> "none", kref |-> 0, interface |-> FALSE, sem |-> 0]
    /\ intf = [data |-> FALSE, minor |-> FALSE, plugged |-> FALSE, pm |-> 0]
    /\ file = [f \in Files |-> "closed"]
    /\ mutex = NOBODY /\ bkl = NOBODY /\ inflight = 0 /\ disc = "idle" /\ bad = FALSE

Used == bad' = (bad \/ dev.st # "live")
Go(f, from, to) == file[f] = from /\ file' = [file EXCEPT ![f] = to]

\* kref_put, with skel_delete.
Put(d) == [d EXCEPT !.kref = @ - 1, !.st = IF d.kref = 1 THEN "freed" ELSE @]

-----------------------------------------------------------------------------
\* skel_probe: what fails before usb_register_dev drops the only reference.
skel_probe ==
    /\ dev.st # "live" /\ disc = "idle" /\ ~intf.plugged
    /\ \A f \in Files : file[f] = "closed"
    /\ \/ /\ dev' = [st |-> "live", kref |-> 1, interface |-> TRUE, sem |-> WRITES_IN_FLIGHT]
          /\ intf' = [data |-> TRUE, minor |-> TRUE, plugged |-> TRUE, pm |-> 0]
       \/ /\ dev' = Put([st |-> "live", kref |-> 1, interface |-> TRUE, sem |-> WRITES_IN_FLIGHT])
          /\ UNCHANGED intf
    /\ UNCHANGED <<file, mutex, bkl, inflight, disc, bad>>

\* skel_open finds the interface and its data, with the kernel lock that the core took.
skel_open(f) ==
    /\ intf.minor /\ intf.data /\ bkl = NOBODY
    /\ Go(f, "closed", "opening")
    /\ bkl' = IF AutopmSleeps THEN bkl ELSE f
    /\ UNCHANGED <<dev, intf, mutex, inflight, disc, bad>>

\* Mutant: the file does not count.
Get_Not(d) == d

\* kref_get.
Get(d) == [d EXCEPT !.kref = @ + 1]

\* usb_autopm_get_interface has returned.
Opened(f) ==
    /\ bkl' = IF AutopmSleeps THEN bkl ELSE NOBODY
    /\ \/ /\ Go(f, "opening", "open") /\ Used
          /\ dev' = Get(dev) /\ intf' = [intf EXCEPT !.pm = @ + 1]
       \/ /\ Go(f, "opening", "closed")
          /\ UNCHANGED <<dev, intf, bad>>
    /\ UNCHANGED <<mutex, inflight, disc>>

-----------------------------------------------------------------------------
\* skel_release.
skel_release(f) ==
    /\ Go(f, "open", "closing") /\ mutex = NOBODY /\ Used
    /\ intf' = IF dev.interface THEN [intf EXCEPT !.pm = @ - 1] ELSE intf
    /\ UNCHANGED <<dev, mutex, bkl, inflight, disc>>

Released(f) ==
    /\ Go(f, "closing", "closed") /\ Used
    /\ dev' = Put(dev)
    /\ UNCHANGED <<intf, mutex, bkl, inflight, disc>>

\* skel_read holds the mutex while it waits for the device.
skel_read(f) ==
    /\ file[f] = "open" /\ mutex = NOBODY /\ Used
    /\ IF dev.interface THEN Go(f, "open", "reading") /\ mutex' = f ELSE UNCHANGED <<file, mutex>>
    /\ UNCHANGED <<dev, intf, bkl, inflight, disc>>

ReadEnds(f) ==
    /\ Go(f, "reading", "open") /\ Used
    /\ mutex' = NOBODY
    /\ UNCHANGED <<dev, intf, bkl, inflight, disc>>

\* skel_write: the semaphore first (a signal ends the wait), then the mutex.
skel_write(f) ==
    /\ dev.sem > 0 /\ Go(f, "open", "limited") /\ Used
    /\ dev' = [dev EXCEPT !.sem = @ - 1]
    /\ UNCHANGED <<intf, mutex, bkl, inflight, disc>>

Interfaced(f) ==
    /\ Go(f, "limited", "building") /\ mutex = NOBODY /\ Used
    /\ mutex' = f
    /\ UNCHANGED <<dev, intf, bkl, inflight, disc>>

Submit(f) ==
    /\ Go(f, "building", "open") /\ dev.interface /\ intf.plugged /\ Used
    /\ inflight' = inflight + 1 /\ mutex' = NOBODY
    /\ UNCHANGED <<dev, intf, bkl, disc>>

\* up (&dev->limit_sem).
Given(d) == [d EXCEPT !.sem = @ + 1]

\* error: no interface any more, no memory, a bad buffer, or a refused URB.
WriteFails(f) ==
    /\ Go(f, "building", "open") /\ Used
    /\ mutex' = NOBODY /\ dev' = Given(dev)
    /\ UNCHANGED <<intf, bkl, inflight, disc>>

skel_write_bulk_callback ==
    /\ inflight > 0 /\ Used
    /\ inflight' = inflight - 1 /\ dev' = [dev EXCEPT !.sem = @ + 1]
    /\ UNCHANGED <<intf, file, mutex, bkl, disc>>

-----------------------------------------------------------------------------
\* The core, before skel_disconnect.
Unplug ==
    /\ intf.plugged /\ intf.minor
    /\ intf' = [intf EXCEPT !.plugged = FALSE]
    /\ UNCHANGED <<dev, file, mutex, bkl, inflight, disc, bad>>

\* skel_disconnect until it waits for the mutex, which lets the kernel lock go.
skel_disconnect ==
    /\ disc = "idle" /\ intf.minor /\ ~intf.plugged /\ inflight = 0 /\ bkl = NOBODY
    /\ intf' = [intf EXCEPT !.data = FALSE, !.minor = FALSE]
    /\ disc' = "mutex"
    /\ UNCHANGED <<dev, file, mutex, bkl, inflight, bad>>

Quiet == mutex = NOBODY

NoInterface ==
    /\ disc = "mutex" /\ Quiet /\ Used
    /\ dev' = [dev EXCEPT !.interface = FALSE] /\ disc' = "put"
    /\ UNCHANGED <<intf, file, mutex, bkl, inflight>>

Disconnected ==
    /\ disc = "put" /\ Used
    /\ dev' = Put(dev) /\ disc' = "idle"
    /\ UNCHANGED <<intf, file, mutex, bkl, inflight>>

Next ==
    \/ skel_probe \/ Unplug \/ skel_disconnect \/ NoInterface \/ Disconnected
    \/ skel_write_bulk_callback
    \/ \E f \in Files :
         \/ skel_open(f) \/ Opened(f) \/ skel_release(f) \/ Released(f)
         \/ skel_read(f) \/ ReadEnds(f)
         \/ skel_write(f) \/ Interfaced(f) \/ Submit(f) \/ WriteFails(f)

GoesOn(f) == Opened(f) \/ Released(f) \/ ReadEnds(f) \/ Submit(f) \/ WriteFails(f)

\* What has begun goes on, URBs end, and whoever wants the mutex gets it.
Fairness ==
    /\ WF_vars(skel_write_bulk_callback) /\ WF_vars(skel_disconnect) /\ WF_vars(Disconnected)
    /\ SF_vars(NoInterface)
    /\ \A f \in Files : WF_vars(GoesOn(f)) /\ SF_vars(Interfaced(f))

Spec == Init /\ [][Next]_vars /\ Fairness

-----------------------------------------------------------------------------
TypeOK ==
    /\ dev.st \in {"none", "live", "freed"} /\ dev.kref \in 0 .. Cardinality(Files) + 1
    /\ dev.sem \in 0 .. WRITES_IN_FLIGHT /\ inflight \in 0 .. WRITES_IN_FLIGHT

Holding(f) == file[f] \in {"open", "closing", "reading", "limited", "building"}

\* The state is freed by the last that has it, and nobody uses it afterwards: not
\* a file, not the callback of a write, not an open that races the disconnect.
NoUseAfterFree ==
    /\ ~bad
    /\ dev.st = "live" => dev.kref =
         Cardinality({f \in Files : Holding(f)}) + (IF intf.minor \/ disc # "idle" THEN 1 ELSE 0)

\* Every place of limit_sem is with a write that has begun or is in flight.
PlacesAccounted ==
    dev.st = "live" => dev.sem + inflight
        + Cardinality({f \in Files : file[f] \in {"limited", "building"}}) = WRITES_IN_FLIGHT

\* No I/O after the disconnect, and the power reference is given back exactly once.
NoIoAfterDisconnect ==
    /\ dev.st = "live" /\ ~dev.interface => inflight = 0 /\ \A f \in Files : file[f] # "reading"
    /\ dev.st = "live" /\ dev.interface =>
         intf.pm = Cardinality({f \in Files : Holding(f) /\ file[f] # "closing"})

\* All of them.
Inv == TypeOK /\ NoUseAfterFree /\ PlacesAccounted /\ NoIoAfterDisconnect

\* A disconnect that was begun ends, whoever is reading or writing.
DisconnectEnds == disc # "idle" ~> disc = "idle"
=============================================================================

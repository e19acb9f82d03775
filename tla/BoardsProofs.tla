----------------------------- MODULE BoardsProofs -----------------------------
(***************************************************************************)
(* The drivers of the board keep their invariants, whatever the sizes, the *)
(* files, the keys and the readers are.  A section for each: its inductive *)
(* invariant, the steps, and what they come to at the end.                 *)
(***************************************************************************)
EXTENDS Sequences, MCBoards, Integers, NatLemmas, FiniteSetTheorems, TLAPS

-----------------------------------------------------------------------------
(* The MMC host.  A request is in its data phase, in its stop phase or has  *)
(* no data; what is left of an earlier one moves nothing any more.          *)
USE MciAssumption

HostType ==
    [mrq : Mci!Requests \cup {Mci!NoReq}, cmd_is_stop : BOOLEAN,
     complete_what : {"none", "CMDSENT", "RSPFIN", "XFERFINISH", "XFERFINISH_RSPFIN", "FINALIZE"},
     pio_active : {"none", "read", "write"},
     pio_words : Int, pio_sgptr : Int, pio_count : Int,
     cmd_err : BOOLEAN, data_err : BOOLEAN, prescaler : Int]

HwType ==
    [csta : SUBSET {"CMDSENT", "RSPFIN", "CMDTIMEOUT"}, dsta : SUBSET {"XFERFINISH", "fault"},
     fifo : Int, imsk : SUBSET {"cmd", "data", "rx", "tx"},
     cmd : {"none", "start", "wait", "over", "dead"}, data : {"none", "read", "write"},
     bus : Int, pre : Int, cut : BOOLEAN]

MciTypes ==
    /\ host \in HostType /\ hw \in HwType
    /\ tasklet \in [sched : BOOLEAN, pc : {"idle", "rx", "tx", "check"},
                    mask : SUBSET {"cmd", "data", "rx", "tx"}]
    /\ core \in [busy : BOOLEAN, ok : BOOLEAN, whole : BOOLEAN, fault : BOOLEAN]
    /\ oops \in BOOLEAN

\* The words of the segments that have not been begun.
Ahead(h) == (Segments - h.pio_sgptr) * SegWords

InBounds(h) ==
    /\ h.pio_words \in 0 .. SegWords /\ h.pio_sgptr \in 0 .. Segments
    /\ h.pio_count \in 0 .. Mci!Total
    /\ h.pio_active # "none" => h.pio_count + h.pio_words + Ahead(h) = Mci!Total

Bounds ==
    /\ InBounds(host)
    /\ hw.fifo \in 0 .. FIFO /\ hw.bus \in 0 .. Mci!Total
    /\ "XFERFINISH" \in hw.dsta => hw.bus = Mci!Total

Busy ==
    /\ ~core.busy => irq_off = 1 /\ host.complete_what = "none"
    /\ core.busy => /\ irq_off = 0 /\ host.complete_what # "none"
                    /\ host.mrq.data \in {"none", "read", "write"}
                    /\ "added" \in taken
    /\ taken # {} => "added" \in taken

HasData(h) == h.mrq.data \in {"read", "write"}

\* Nothing to move: no request, or one without data.
Leftover ==
    ~core.busy \/ ~HasData(host) =>
        /\ hw.fifo = 0 /\ hw.data = "none"
        /\ host.pio_active = "write" => host.pio_count = Mci!Total
        /\ host.pio_active = "read" => host.pio_words > 0

\* Every word is in a segment, in the FIFO or has been on the bus.
Flow ==
    core.busy /\ HasData(host) =>
        /\ host.pio_active \in {"none", host.mrq.data} /\ hw.data \in {"none", host.mrq.data}
        /\ host.mrq.data = "read" => hw.bus = hw.fifo + host.pio_count
        /\ host.mrq.data = "write" => host.pio_count = hw.fifo + hw.bus

DataPhase ==
    core.busy /\ HasData(host) /\ ~host.cmd_is_stop =>
        /\ host.complete_what # "CMDSENT"
        /\ host.complete_what = "RSPFIN" => hw.bus = Mci!Total
        /\ host.complete_what = "FINALIZE" =>
             hw.bus = Mci!Total \/ (host.pio_active = "none" /\ (host.data_err \/ host.cmd_err))
        /\ host.pio_active = "none" =>
             \/ host.pio_count = Mci!Total
             \/ host.complete_what = "FINALIZE" /\ (host.data_err \/ host.cmd_err)

StopPhase ==
    core.busy /\ HasData(host) /\ host.cmd_is_stop =>
        /\ hw.data = "none"
        /\ host.pio_active # "none" => hw.bus = Mci!Total
        /\ host.data_err \/ (/\ host.pio_active = "none"
                             /\ host.pio_count = Mci!Total /\ hw.bus = Mci!Total)

\* Who has read something in its turn has not filled the segment.
Turn == tasklet.pc # "idle" /\ host.pio_active = "read" => host.pio_words > 0

Outcome ==
    /\ core.ok => core.whole
    /\ hw.pre # host.prescaler => core.busy /\ host.mrq.data = "read"

MciIInv ==
    /\ MciTypes /\ Bounds /\ Busy /\ Leftover /\ Flow /\ DataPhase /\ StopPhase
    /\ Turn /\ Outcome

LEMMA Sizes ==
    /\ Segments \in Nat /\ Segments > 0 /\ SegWords \in Nat /\ SegWords > 0
    /\ FIFO \in Nat /\ FIFO > 0 /\ MaxPsc \in Nat
    /\ Mci!Total \in Nat
<1>1. Segments * SegWords \in Nat
  OBVIOUS
<1> QED BY <1>1 DEF Mci!Total

LEMMA TotalIs == Mci!Total = Segments * SegWords
BY DEF Mci!Total

\* Words rest still to come: how many segments are begun.
LEMMA SegmentsLeft ==
    ASSUME NEW k \in Nat, k <= Mci!Total
    PROVE  /\ Segments - k \div SegWords \in 0 .. Segments
           /\ k % SegWords \in 0 .. SegWords - 1
           /\ (Segments - (Segments - k \div SegWords)) * SegWords + (k % SegWords) = k
<1> DEFINE q == k \div SegWords
           r == k % SegWords
<1>1. q \in Int /\ r \in 0 .. SegWords - 1 /\ k = SegWords * q + r
  BY Sizes, DivMod
<1> HIDE DEF q, r
<1>2. q >= 0
  <2>1. CASE q <= -1
    <3>1. SegWords * q <= -SegWords
      BY <1>1, <2>1, Sizes
    <3> QED BY <1>1, <3>1, Sizes
  <2> QED BY <1>1, <2>1
<1>3. q <= Segments
  <2>1. CASE q >= Segments + 1
    <3>1. SegWords * q >= SegWords * (Segments + 1)
      BY <1>1, <2>1, Sizes
    <3>2. SegWords * (Segments + 1) = Mci!Total + SegWords
      BY Sizes, TotalIs
    <3> QED BY <1>1, <3>1, <3>2, Sizes
  <2> QED BY <1>1, <2>1, Sizes
<1>4. Segments - (Segments - q) = q
  BY <1>1, Sizes
<1>5. q * SegWords = SegWords * q
  BY <1>1, Sizes
<1>6. Segments - q \in 0 .. Segments
  BY <1>1, <1>2, <1>3, Sizes
<1>7. (Segments - (Segments - q)) * SegWords + r = k
  BY <1>1, <1>4, <1>5, Sizes
<1> QED BY <1>1, <1>6, <1>7 DEF q, r

\* What get_data_buffer can still give, and what do_pio_read and do_pio_write
\* leave alone.
LEMMA BuffersLeft ==
    ASSUME NEW h \in HostType, InBounds(h)
    PROVE  /\ Ahead(h) \in Nat
           /\ Mci!Buffers(h) \in {0, Ahead(h)}
           /\ h.pio_active # "none" /\ HasData(h) => Mci!Buffers(h) = Ahead(h)
           /\ h.pio_active # "none" => h.pio_words + Mci!Buffers(h) \in 0 .. Mci!Total
<1>1. Segments - h.pio_sgptr \in Nat
  BY Sizes DEF InBounds, HostType
<1>2. Ahead(h) \in Nat
  BY <1>1, Sizes DEF Ahead
<1>3. Mci!Buffers(h) = IF h.pio_active = "none" \/ ~HasData(h) THEN 0 ELSE Ahead(h)
  BY DEF Mci!Buffers, Mci!NONE, Ahead, HasData
<1> QED BY <1>2, <1>3, Sizes DEF InBounds

SameButPio(g, h) ==
    /\ g \in HostType
    /\ g.mrq = h.mrq /\ g.cmd_is_stop = h.cmd_is_stop /\ g.cmd_err = h.cmd_err
    /\ g.data_err = h.data_err /\ g.prescaler = h.prescaler

\* n words have been moved and some are left.
Partly(g, h, n) ==
    /\ SameButPio(g, h) /\ InBounds(g)
    /\ g.pio_active = h.pio_active /\ g.complete_what = h.complete_what
    /\ g.pio_count = h.pio_count + n
    /\ h.pio_active = "read" => g.pio_words > 0

\* All that was left has been moved.
Wholly(g, h, n) ==
    /\ SameButPio(g, h) /\ InBounds(g)
    /\ g.pio_active = "none"
    /\ g.complete_what = IF h.pio_active = "read" THEN "FINALIZE" ELSE h.complete_what
    /\ g.pio_count = h.pio_count + h.pio_words + Mci!Buffers(h)
    /\ n >= h.pio_words + Mci!Buffers(h)
    /\ HasData(h) => g.pio_count = Mci!Total

LEMMA TakenIs ==
    ASSUME NEW h \in HostType, NEW n \in Int
    PROVE  /\ SameButPio(Mci!Taken(h, n), h)
           /\ Mci!Taken(h, n).pio_active = h.pio_active
           /\ Mci!Taken(h, n).complete_what = h.complete_what
           /\ Mci!Taken(h, n).pio_count = h.pio_count + n
           /\ Mci!Taken(h, n).pio_sgptr = h.pio_sgptr
           /\ Mci!Taken(h, n).pio_words = h.pio_words
<1> DEFINE c == h.pio_count + n
<1>1. c \in Int
  BY DEF HostType
<1>2. Mci!Taken(h, n) = [h EXCEPT !.pio_count = c]
  BY DEF Mci!Taken
<1> HIDE DEF c
<1>3. /\ SameButPio(Mci!Taken(h, n), h)
      /\ Mci!Taken(h, n).pio_active = h.pio_active
      /\ Mci!Taken(h, n).complete_what = h.complete_what
      /\ Mci!Taken(h, n).pio_count = c
      /\ Mci!Taken(h, n).pio_sgptr = h.pio_sgptr
      /\ Mci!Taken(h, n).pio_words = h.pio_words
  BY <1>1, <1>2 DEF SameButPio, HostType
<1> QED BY <1>3 DEF c

LEMMA PioRead ==
    ASSUME NEW h \in HostType, InBounds(h), h.pio_active = "read", NEW n \in Nat
    PROVE  \/ /\ n < h.pio_words + Mci!Buffers(h)
              /\ Partly(Mci!do_pio_read(h, n), h, n)
           \/ Wholly(Mci!do_pio_read(h, n), h, n)
<1> DEFINE B == Mci!Buffers(h)
           rest == h.pio_words + B - n
           g == Mci!do_pio_read(h, n)
<1>t. /\ h.pio_words \in Int /\ h.pio_sgptr \in Int /\ h.pio_count \in Int
      /\ B \in {0, Ahead(h)} /\ Ahead(h) \in Nat /\ h.pio_words + B \in 0 .. Mci!Total
      /\ HasData(h) => B = Ahead(h)
      /\ h.pio_count + h.pio_words + Ahead(h) = Mci!Total
      /\ B \in Nat /\ h.pio_words >= 0 /\ h.pio_count >= 0
  BY BuffersLeft, Sizes DEF HostType, InBounds
<1>r. rest \in Int
  BY <1>t
<1>1. CASE rest <= 0
  <2> DEFINE T == Mci!Taken(h, n + rest)
  <2>1. g = [T EXCEPT !.pio_active = "none", !.complete_what = "FINALIZE", !.pio_words = 0,
                      !.pio_sgptr = Segments]
    BY <1>1 DEF Mci!do_pio_read, Mci!NONE
  <2>2. n + rest = h.pio_words + B /\ n >= h.pio_words + B /\ n + rest \in Int
    BY <1>1, <1>t
  <2>t. SameButPio(T, h) /\ T.pio_count = h.pio_count + (n + rest)
    BY <2>2, TakenIs
  <2> HIDE DEF B, g, T, rest
  <2>3. /\ SameButPio(g, h) /\ g.pio_active = "none" /\ g.complete_what = "FINALIZE"
        /\ g.pio_words = 0 /\ g.pio_sgptr = Segments
        /\ g.pio_count = h.pio_count + (h.pio_words + B)
    <3> DEFINE none == "none"
               zero == 0
               over == "FINALIZE"
    <3>1. /\ T \in HostType /\ zero \in Int /\ none \in {"none", "read", "write"}
          /\ over \in {"none", "CMDSENT", "RSPFIN", "XFERFINISH", "XFERFINISH_RSPFIN", "FINALIZE"}
      BY <2>t DEF SameButPio
    <3>2. Segments \in Int
      BY Sizes
    <3>3. g = [T EXCEPT !.pio_active = none, !.complete_what = over, !.pio_words = zero, !.pio_sgptr = Segments]
      BY <2>1
    <3> HIDE DEF none, zero, over
    <3>4. g \in HostType
      BY <3>1, <3>2, <3>3 DEF HostType
    <3>5. /\ g.mrq = T.mrq /\ g.cmd_is_stop = T.cmd_is_stop /\ g.cmd_err = T.cmd_err
          /\ g.data_err = T.data_err /\ g.prescaler = T.prescaler
      BY <3>1, <3>3 DEF HostType
    <3>6. /\ g.pio_active = none /\ g.complete_what = over
          /\ g.pio_words = zero /\ g.pio_sgptr = Segments /\ g.pio_count = T.pio_count
      BY <3>1, <3>3 DEF HostType
    <3> QED BY <2>2, <2>t, <3>4, <3>5, <3>6 DEF SameButPio, none, zero, over
  <2>4. InBounds(g) /\ (HasData(h) => g.pio_count = Mci!Total)
    BY <1>t, <2>3, Sizes DEF InBounds
  <2> QED BY <1>t, <2>2, <2>3, <2>4 DEF Wholly, B, g
<1>2. CASE rest > 0
  <2> DEFINE T == Mci!Taken(h, n)
             w == IF B = 0 THEN rest ELSE ((rest - 1) % SegWords) + 1
             s == IF B = 0 THEN T.pio_sgptr ELSE Segments - (rest - 1) \div SegWords
  <2>1. g = [T EXCEPT !.pio_words = w, !.pio_sgptr = IF B = 0 THEN @ ELSE Segments - (rest - 1) \div SegWords]
    <3>1. ~(rest <= 0)
      BY <1>2, <1>r
    <3> QED BY <3>1 DEF Mci!do_pio_read
  <2>x. g = [T EXCEPT !.pio_words = w, !.pio_sgptr = s]
    BY <2>1
  <2>t. /\ SameButPio(T, h) /\ T.pio_active = h.pio_active /\ T.complete_what = h.complete_what
        /\ T.pio_count = h.pio_count + n /\ T.pio_sgptr = h.pio_sgptr
    BY <1>t, TakenIs
  <2>2. rest - 1 \in Nat /\ rest - 1 <= Mci!Total /\ n < h.pio_words + B
    BY <1>2, <1>t, Sizes
  <2>b. rest = h.pio_words + B - n
    OBVIOUS
  <2>3. /\ s \in 0 .. Segments /\ w \in 1 .. SegWords
        /\ (Segments - s) * SegWords + w = Ahead(h) + h.pio_words - n
    <3>1. CASE B = 0
      <4>1. w = rest /\ s = h.pio_sgptr
        BY <2>t, <3>1
      <4>2. (Segments - s) * SegWords = Ahead(h)
        BY <4>1 DEF Ahead
      <4> HIDE DEF w, s, T, B
      <4> QED BY <1>2, <1>t, <2>b, <3>1, <4>1, <4>2, Sizes DEF InBounds
    <3>2. CASE B # 0
      <4>1. w = ((rest - 1) % SegWords) + 1 /\ s = Segments - (rest - 1) \div SegWords
        BY <3>2
      <4>r. rest = Ahead(h) + h.pio_words - n
        BY <1>t, <2>b, <3>2
      <4> HIDE DEF w, s, T, B, rest
      <4>2. /\ s \in 0 .. Segments /\ (rest - 1) % SegWords \in 0 .. SegWords - 1
            /\ (Segments - s) * SegWords + ((rest - 1) % SegWords) = rest - 1
        BY <2>2, <4>1, SegmentsLeft
      <4> DEFINE m == (rest - 1) % SegWords
                 a == (Segments - s) * SegWords
      <4>3. m \in 0 .. SegWords - 1 /\ a + m = rest - 1 /\ a \in Int /\ w = m + 1
        <5>1. Segments - s \in Int
          BY <4>2, Sizes
        <5> QED BY <4>1, <4>2, <5>1, Sizes
      <4> HIDE DEF m, a
      <4>4. m + 1 \in 1 .. SegWords /\ a + (m + 1) = rest
        BY <1>r, <4>3, Sizes
      <4> QED BY <4>2, <4>3, <4>4, <4>r DEF a
    <3> QED BY <3>1, <3>2
  <2> HIDE DEF T, w, s, B, g, rest
  <2>4. /\ SameButPio(g, h) /\ g.pio_active = "read" /\ g.complete_what = h.complete_what
        /\ g.pio_words = w /\ g.pio_sgptr = s
        /\ g.pio_count = h.pio_count + n
    <3>1. w \in Int /\ s \in Int
      BY <2>3, Sizes
    <3> QED BY <2>x, <2>3, <2>t, <3>1 DEF SameButPio, HostType
  <2>5. Ahead(g) + w = Ahead(h) + h.pio_words - n /\ Ahead(g) \in Int
    <3>1. Segments - s \in Int
      BY <2>3, Sizes
    <3> QED BY <2>3, <2>4, <3>1, Sizes DEF Ahead
  <2>6. InBounds(g)
    <3>1. h.pio_count + n + w + Ahead(g) = Mci!Total
      <4>1. w \in Int
        BY <2>3, Sizes
      <4> QED BY <1>t, <2>5, <4>1, Sizes
    <3>2. h.pio_count + n \in 0 .. Mci!Total
      BY <1>2, <1>t, <1>r, <2>b, <2>2, Sizes
    <3> QED BY <2>3, <2>4, <3>1, <3>2, Sizes DEF InBounds
  <2> QED BY <2>2, <2>3, <2>4, <2>6 DEF Partly, B, g
<1> QED BY <1>1, <1>2, <1>r
LEMMA PioWrite ==
    ASSUME NEW h \in HostType, InBounds(h), h.pio_active = "write", NEW n \in Nat
    PROVE  \/ /\ n <= h.pio_words + Mci!Buffers(h)
              /\ Partly(Mci!do_pio_write(h, n), h, n)
           \/ Wholly(Mci!do_pio_write(h, n), h, n)
<1> DEFINE B == Mci!Buffers(h)
           rest == h.pio_words + B - n
           g == Mci!do_pio_write(h, n)
<1>t. /\ h.pio_words \in Int /\ h.pio_sgptr \in Int /\ h.pio_count \in Int
      /\ B \in {0, Ahead(h)} /\ Ahead(h) \in Nat /\ h.pio_words + B \in 0 .. Mci!Total
      /\ HasData(h) => B = Ahead(h)
      /\ h.pio_count + h.pio_words + Ahead(h) = Mci!Total
      /\ B \in Nat /\ h.pio_words >= 0 /\ h.pio_count >= 0
  BY BuffersLeft, Sizes DEF HostType, InBounds
<1>r. rest \in Int
  BY <1>t
<1>1. CASE rest < 0
  <2> DEFINE T == Mci!Taken(h, n + rest)
  <2>1. g = [T EXCEPT !.pio_active = "none", !.pio_words = 0, !.pio_sgptr = Segments]
    BY <1>1 DEF Mci!do_pio_write, Mci!NONE
  <2>2. n + rest = h.pio_words + B /\ n >= h.pio_words + B /\ n + rest \in Int
    BY <1>1, <1>t
  <2>t. SameButPio(T, h) /\ T.complete_what = h.complete_what /\ T.pio_count = h.pio_count + (n + rest)
    BY <2>2, TakenIs
  <2> HIDE DEF B, g, T, rest
  <2>3. /\ SameButPio(g, h) /\ g.pio_active = "none" /\ g.complete_what = h.complete_what
        /\ g.pio_words = 0 /\ g.pio_sgptr = Segments
        /\ g.pio_count = h.pio_count + (h.pio_words + B)
    <3> DEFINE none == "none"
               zero == 0
    <3>1. /\ T \in HostType /\ zero \in Int /\ none \in {"none", "read", "write"}
      BY <2>t DEF SameButPio
    <3>2. Segments \in Int
      BY Sizes
    <3>3. g = [T EXCEPT !.pio_active = none, !.pio_words = zero, !.pio_sgptr = Segments]
      BY <2>1
    <3> HIDE DEF none, zero
    <3>4. g \in HostType
      BY <3>1, <3>2, <3>3 DEF HostType
    <3>5. /\ g.mrq = T.mrq /\ g.cmd_is_stop = T.cmd_is_stop /\ g.cmd_err = T.cmd_err
          /\ g.data_err = T.data_err /\ g.prescaler = T.prescaler
      BY <3>1, <3>3 DEF HostType
    <3>6. /\ g.pio_active = none /\ g.complete_what = T.complete_what
          /\ g.pio_words = zero /\ g.pio_sgptr = Segments /\ g.pio_count = T.pio_count
      BY <3>1, <3>3 DEF HostType
    <3> QED BY <2>2, <2>t, <3>4, <3>5, <3>6 DEF SameButPio, none, zero
  <2>4. InBounds(g) /\ (HasData(h) => g.pio_count = Mci!Total)
    BY <1>t, <2>3, Sizes DEF InBounds
  <2> QED BY <1>t, <2>2, <2>3, <2>4 DEF Wholly, B, g
<1>2. CASE rest >= 0
  <2> DEFINE T == Mci!Taken(h, n)
             w == IF B = 0 THEN rest ELSE rest % SegWords
             s == IF B = 0 THEN T.pio_sgptr ELSE Segments - rest \div SegWords
  <2>1. g = [T EXCEPT !.pio_words = w, !.pio_sgptr = IF B = 0 THEN @ ELSE Segments - rest \div SegWords]
    <3>1. ~(rest < 0)
      BY <1>2, <1>r
    <3> QED BY <3>1 DEF Mci!do_pio_write
  <2>x. g = [T EXCEPT !.pio_words = w, !.pio_sgptr = s]
    BY <2>1
  <2>t. /\ SameButPio(T, h) /\ T.pio_active = h.pio_active /\ T.complete_what = h.complete_what
        /\ T.pio_count = h.pio_count + n /\ T.pio_sgptr = h.pio_sgptr
    BY <1>t, TakenIs
  <2>2. rest \in Nat /\ rest <= Mci!Total /\ n <= h.pio_words + B
    BY <1>2, <1>t, Sizes
  <2>b. rest = h.pio_words + B - n
    OBVIOUS
  <2>3. /\ s \in 0 .. Segments /\ w \in 0 .. SegWords
        /\ (Segments - s) * SegWords + w = Ahead(h) + h.pio_words - n
    <3>1. CASE B = 0
      <4>1. w = rest /\ s = h.pio_sgptr
        BY <2>t, <3>1
      <4>2. (Segments - s) * SegWords = Ahead(h)
        BY <4>1 DEF Ahead
      <4> HIDE DEF w, s, T, B
      <4> QED BY <1>2, <1>t, <2>b, <3>1, <4>1, <4>2, Sizes DEF InBounds
    <3>2. CASE B # 0
      <4>1. w = rest % SegWords /\ s = Segments - rest \div SegWords
        BY <3>2
      <4>r. rest = Ahead(h) + h.pio_words - n
        BY <1>t, <2>b, <3>2
      <4> HIDE DEF w, s, T, B, rest
      <4>2. /\ s \in 0 .. Segments /\ rest % SegWords \in 0 .. SegWords - 1
            /\ (Segments - s) * SegWords + (rest % SegWords) = rest
        BY <2>2, <4>1, SegmentsLeft
      <4> DEFINE m == rest % SegWords
                 a == (Segments - s) * SegWords
      <4>3. m \in 0 .. SegWords - 1 /\ a + m = rest /\ a \in Int /\ w = m
        <5>1. Segments - s \in Int
          BY <4>2, Sizes
        <5> QED BY <4>1, <4>2, <5>1, Sizes
      <4> HIDE DEF m, a
      <4> QED BY <4>2, <4>3, <4>r, Sizes DEF a
    <3> QED BY <3>1, <3>2
  <2> HIDE DEF T, w, s, B, g, rest
  <2>4. /\ SameButPio(g, h) /\ g.pio_active = "write" /\ g.complete_what = h.complete_what
        /\ g.pio_words = w /\ g.pio_sgptr = s
        /\ g.pio_count = h.pio_count + n
    <3>1. w \in Int /\ s \in Int
      BY <2>3, Sizes
    <3> QED BY <2>x, <2>3, <2>t, <3>1 DEF SameButPio, HostType
  <2>5. Ahead(g) + w = Ahead(h) + h.pio_words - n /\ Ahead(g) \in Int
    <3>1. Segments - s \in Int
      BY <2>3, Sizes
    <3> QED BY <2>3, <2>4, <3>1, Sizes DEF Ahead
  <2>6. InBounds(g)
    <3>1. h.pio_count + n + w + Ahead(g) = Mci!Total
      <4>1. w \in Int
        BY <2>3, Sizes
      <4> QED BY <1>t, <2>5, <4>1, Sizes
    <3>2. h.pio_count + n \in 0 .. Mci!Total
      BY <1>2, <1>t, <1>r, <2>b, <2>2, Sizes
    <3> QED BY <2>3, <2>4, <3>1, <3>2, Sizes DEF InBounds
  <2> QED BY <2>2, <2>3, <2>4, <2>6 DEF Partly, B, g
<1> QED BY <1>1, <1>2, <1>r

-----------------------------------------------------------------------------
LEMMA ReqIs ==
    \A r \in Mci!Requests : r.data \in {"none", "read", "write", "switch"} /\ r.stop \in BOOLEAN
BY DEF Mci!Requests, Mci!NONE

LEMMA PrescalerIs == \A c : Mci!Prescaler(c) \in Int
<1> SUFFICES ASSUME NEW c PROVE Mci!Prescaler(c) \in Int
  OBVIOUS
<1> DEFINE slow == {p \in 0 .. MaxPsc - 1 : clk_rate \div (2 * (p + 1)) <= c}
<1>1. CASE slow = {}
  BY <1>1, Sizes DEF Mci!Prescaler
<1>2. CASE slow # {}
  <2>1. slow \subseteq Nat
    <3>1. slow \subseteq 0 .. MaxPsc - 1 /\ 0 .. MaxPsc - 1 \subseteq Nat
      OBVIOUS
    <3> QED BY <3>1
  <2>2. Mci!Prescaler(c) = Mci!Min(slow)
    BY <1>2 DEF Mci!Prescaler
  <2> HIDE DEF slow
  <2>3. \E x \in slow : \A y \in slow : x <= y
    BY <1>2, <2>1, LeastExists
  <2>4. Mci!Min(slow) \in slow
    BY <2>3 DEF Mci!Min
  <2>5. Mci!Min(slow) \in Nat
    BY <2>1, <2>4
  <2> QED BY <2>2, <2>5
<1> QED BY <1>1, <1>2

LEMMA MciInit == Mci!Init => MciIInv
<1> SUFFICES ASSUME Mci!Init PROVE MciIInv
  OBVIOUS
<1>1. /\ host = [mrq |-> Mci!NoReq, cmd_is_stop |-> FALSE, complete_what |-> "none",
                 pio_active |-> "none", pio_words |-> 0, pio_sgptr |-> 0, pio_count |-> 0,
                 cmd_err |-> FALSE, data_err |-> FALSE, prescaler |-> 0]
      /\ hw = [csta |-> {}, dsta |-> {}, fifo |-> 0, imsk |-> {}, cmd |-> "none",
               data |-> "none", bus |-> 0, pre |-> 0, cut |-> FALSE]
      /\ irq_off = 1 /\ tasklet = [sched |-> FALSE, pc |-> "idle", mask |-> {}]
      /\ core = [busy |-> FALSE, ok |-> TRUE, whole |-> TRUE, fault |-> FALSE]
      /\ taken = {} /\ oops = FALSE
  BY DEF Mci!Init, Mci!Host0, Mci!NONE
<1>2. host \in HostType
  BY <1>1 DEF HostType
<1>3. hw \in HwType
  BY <1>1 DEF HwType
<1>4. MciTypes
  BY <1>1, <1>2, <1>3 DEF MciTypes
<1>5. Bounds
  BY <1>1, Sizes DEF Bounds, InBounds
<1>6. Busy /\ Leftover /\ Flow /\ DataPhase /\ StopPhase /\ Turn /\ Outcome
  BY <1>1 DEF Busy, Leftover, Flow, DataPhase, StopPhase, Turn, Outcome
<1> QED BY <1>4, <1>5, <1>6 DEF MciIInv

LEMMA MciSafe == MciIInv => Mci!Inv
<1> SUFFICES ASSUME MciIInv PROVE Mci!Inv
  OBVIOUS
<1>1. Mci!TypeOK
  BY DEF MciIInv, Bounds, InBounds, Busy, MciTypes, Mci!TypeOK
<1>2. Mci!SuccessIsWhole /\ Mci!ClockRestored
  BY DEF MciIInv, Outcome, Mci!SuccessIsWhole, Mci!ClockRestored
<1>3. Mci!IrqBalanced
  BY DEF MciIInv, Busy, Mci!IrqBalanced, Mci!NoReq, Mci!NONE
<1>4. Mci!ProbeCleansUp
  BY DEF MciIInv, Busy, Mci!ProbeCleansUp
<1> QED BY <1>1, <1>2, <1>3, <1>4 DEF Mci!Inv

\* A step that moves no word.
HwKept ==
    /\ hw' \in HwType /\ hw'.fifo = hw.fifo /\ hw'.bus = hw.bus /\ hw'.pre = hw.pre
    /\ hw'.data \in {hw.data, "none"}
    /\ "XFERFINISH" \in hw'.dsta => hw'.bus = Mci!Total

TaskletType == [sched : BOOLEAN, pc : {"idle", "rx", "tx", "check"},
                mask : SUBSET {"cmd", "data", "rx", "tx"}]
CoreType == [busy : BOOLEAN, ok : BOOLEAN, whole : BOOLEAN, fault : BOOLEAN]

CoreKept == core' \in CoreType /\ core'.busy = core.busy /\ core'.ok = core.ok
                /\ core'.whole = core.whole

LEMMA NothingMoves ==
    ASSUME MciIInv, HwKept, CoreKept, host' = host, UNCHANGED irq_off, UNCHANGED taken,
           tasklet' \in TaskletType, oops' \in BOOLEAN,
           tasklet'.pc = "idle" \/ tasklet.pc # "idle" \/ host.pio_active # "read"
    PROVE  MciIInv'
<1>t. MciTypes /\ Bounds /\ Busy /\ Leftover /\ Flow /\ DataPhase /\ StopPhase /\ Turn /\ Outcome
  BY DEF MciIInv
<1>1. MciTypes'
  BY <1>t DEF MciTypes, HwKept, CoreKept, TaskletType, CoreType
<1>2. Bounds'
  BY <1>t DEF Bounds, InBounds, Ahead, HwKept
<1>3. Busy' /\ Turn' /\ Outcome'
  BY <1>t DEF Busy, Turn, Outcome, HwKept, CoreKept
<1>4. Leftover' /\ Flow'
  BY <1>t DEF Leftover, Flow, HasData, HwKept, CoreKept
<1>5. DataPhase' /\ StopPhase'
  BY <1>t DEF DataPhase, StopPhase, HasData, HwKept, CoreKept
<1> QED BY <1>1, <1>2, <1>3, <1>4, <1>5 DEF MciIInv

\* The steps that move nothing.
LEMMA QuietStep ==
    ASSUME MciIInv,
           \/ Mci!IrqNothing \/ Mci!TaskletNoPio \/ Mci!TaskletMask \/ Mci!TaskletEnd
           \/ Mci!FinalizeNull \/ Mci!HwCmd \/ Mci!HwTimeout \/ Mci!HwFault
    PROVE  MciIInv'
<1>t. /\ host \in HostType /\ hw \in HwType /\ tasklet \in TaskletType /\ core \in CoreType
      /\ oops \in BOOLEAN
      /\ "XFERFINISH" \in hw.dsta => hw.bus = Mci!Total
  BY DEF MciIInv, MciTypes, Bounds, TaskletType, CoreType
<1>0. /\ UNCHANGED hw => HwKept
      /\ UNCHANGED core => CoreKept
      /\ UNCHANGED oops => oops' \in BOOLEAN
      /\ UNCHANGED tasklet => tasklet' \in TaskletType
  BY <1>t DEF HwKept, CoreKept
<1>1. CASE Mci!IrqNothing
  <2>1. HwKept
    BY <1>1, <1>t DEF Mci!IrqNothing, HwKept, HwType
  <2>2. UNCHANGED <<host, tasklet, irq_off, core, taken, oops>>
    BY <1>1 DEF Mci!IrqNothing, Mci!Irq
  <2> QED BY <1>0, <2>1, <2>2, NothingMoves
<1>2. CASE Mci!TaskletNoPio
  <2>1. tasklet' = [sched |-> FALSE, pc |-> "check", mask |-> hw.imsk]
    BY <1>2 DEF Mci!TaskletNoPio, Mci!At
  <2>2. tasklet' \in TaskletType
    BY <1>t, <2>1 DEF TaskletType, HwType
  <2>3. UNCHANGED <<host, hw, irq_off, core, taken, oops>> /\ host.pio_active # "read"
    BY <1>2 DEF Mci!TaskletNoPio, Mci!NONE
  <2> QED BY <1>0, <2>2, <2>3, NothingMoves
<1>3. CASE Mci!TaskletMask
  <2>1. /\ hw' = [hw EXCEPT !.imsk = tasklet.mask \cup {tasklet.pc}] /\ tasklet.pc \in {"rx", "tx"}
        /\ tasklet' = [tasklet EXCEPT !.pc = "check"]
        /\ UNCHANGED <<host, irq_off, core, taken, oops>>
    BY <1>3 DEF Mci!TaskletMask, Mci!enable_imask
  <2>2. HwKept
    BY <1>t, <2>1 DEF HwKept, HwType, TaskletType
  <2>3. tasklet' \in TaskletType
    BY <1>t, <2>1 DEF TaskletType
  <2> QED BY <1>0, <2>1, <2>2, <2>3, NothingMoves
<1>4. CASE Mci!TaskletEnd
  <2>1. /\ tasklet' = [tasklet EXCEPT !.pc = "idle"]
        /\ UNCHANGED <<host, hw, irq_off, core, taken, oops>>
    BY <1>4 DEF Mci!TaskletEnd
  <2>2. tasklet' \in TaskletType /\ tasklet'.pc = "idle"
    BY <1>t, <2>1 DEF TaskletType
  <2> QED BY <1>0, <2>1, <2>2, NothingMoves
<1>5. CASE Mci!FinalizeNull
  <2>1. oops' \in BOOLEAN /\ UNCHANGED <<host, hw, irq_off, tasklet, core, taken>>
    BY <1>5 DEF Mci!FinalizeNull
  <2>2. tasklet.pc # "idle"
    BY <1>5 DEF Mci!FinalizeNull
  <2> QED BY <1>0, <2>1, <2>2, NothingMoves
<1>6. CASE Mci!HwCmd \/ Mci!HwTimeout \/ Mci!HwFault
  <2>1. UNCHANGED <<host, irq_off, tasklet, taken, oops>>
    BY <1>6 DEF Mci!HwCmd, Mci!HwTimeout, Mci!HwFault, Mci!Hardware
  <2>2. HwKept
    <3>1. CASE Mci!HwCmd
      <4>1. CASE hw.cmd = "start" /\ Mci!Cmd.rsp
        BY <1>t, <3>1, <4>1 DEF HwKept, HwType, Mci!HwCmd
      <4>2. CASE hw.cmd = "start" /\ ~Mci!Cmd.rsp
        BY <1>t, <3>1, <4>2 DEF HwKept, HwType, Mci!HwCmd, Mci!NONE
      <4>3. CASE hw.cmd # "start"
        BY <1>t, <3>1, <4>3 DEF HwKept, HwType, Mci!HwCmd
      <4> QED BY <4>1, <4>2, <4>3
    <3>2. CASE Mci!HwTimeout
      BY <1>t, <3>2 DEF HwKept, HwType, Mci!HwTimeout
    <3>3. CASE Mci!HwFault
      BY <1>t, <3>3 DEF HwKept, HwType, Mci!HwFault, Mci!NONE
    <3> QED BY <1>6, <3>1, <3>2, <3>3
  <2>3. core' = core \/ core' = [core EXCEPT !.fault = TRUE]
    BY <1>6 DEF Mci!HwCmd, Mci!HwTimeout, Mci!HwFault
  <2>4. CoreKept
    BY <1>t, <2>3 DEF CoreKept, CoreType
  <2>5. tasklet'.pc = "idle" \/ tasklet.pc # "idle"
    BY <2>1
  <2> QED BY <1>0, <2>1, <2>2, <2>4, <2>5, NothingMoves
<1> QED BY <1>1, <1>2, <1>3, <1>4, <1>5, <1>6

\* The card or the controller takes part in the transfer.
LEMMA HwDataStep ==
    ASSUME MciIInv, Mci!HwData
    PROVE  MciIInv'
<1>t. /\ host \in HostType /\ hw \in HwType /\ tasklet \in TaskletType /\ core \in CoreType
      /\ oops \in BOOLEAN
  BY DEF MciIInv, MciTypes, TaskletType, CoreType
<1>i. MciTypes /\ Bounds /\ Busy /\ Leftover /\ Flow /\ DataPhase /\ StopPhase /\ Turn /\ Outcome
  BY DEF MciIInv
<1>0. UNCHANGED <<host, irq_off, tasklet, taken, oops, core>>
  BY DEF Mci!HwData, Mci!Hardware
<1>1. CASE hw.data # "none" /\ hw.bus = Mci!Total
             /\ hw' = [hw EXCEPT !.dsta = @ \cup {"XFERFINISH"}, !.data = "none"]
  <2>1. HwKept /\ CoreKept
    BY <1>0, <1>1, <1>t DEF HwKept, CoreKept, HwType
  <2>2. tasklet' \in TaskletType /\ oops' \in BOOLEAN /\ (tasklet'.pc = "idle" \/ tasklet.pc # "idle")
    BY <1>0, <1>t
  <2> QED BY <1>0, <2>1, <2>2, NothingMoves
<1>2. CASE \/ /\ hw.data = "read" /\ hw.fifo < FIFO /\ hw.bus < Mci!Total
              /\ hw' = [hw EXCEPT !.fifo = @ + 1, !.bus = @ + 1]
           \/ /\ hw.data = "write" /\ hw.fifo > 0 /\ hw.bus < Mci!Total
              /\ hw' = [hw EXCEPT !.fifo = @ - 1, !.bus = @ + 1]
  <2>1. /\ hw.data \in {"read", "write"} /\ hw.bus < Mci!Total /\ hw.bus \in Int /\ hw.fifo \in Int
        /\ hw.data = "read" => hw.fifo < FIFO
        /\ hw.data = "write" => hw.fifo > 0
    BY <1>2, <1>t DEF HwType
  <2>2. /\ hw' \in HwType
        /\ hw'.fifo = IF hw.data = "read" THEN hw.fifo + 1 ELSE hw.fifo - 1
        /\ hw'.bus = hw.bus + 1
        /\ hw'.pre = hw.pre /\ hw'.data = hw.data /\ hw'.dsta = hw.dsta
    <3>n. hw.fifo + 1 \in Int /\ hw.fifo - 1 \in Int /\ hw.bus + 1 \in Int
      BY <2>1
    <3>1. CASE hw.data = "read" /\ hw' = [hw EXCEPT !.fifo = @ + 1, !.bus = @ + 1]
      BY <1>t, <3>n, <3>1 DEF HwType
    <3>2. CASE hw.data = "write" /\ hw' = [hw EXCEPT !.fifo = @ - 1, !.bus = @ + 1]
      BY <1>t, <3>n, <3>2 DEF HwType
    <3> QED BY <1>2, <3>1, <3>2
  <2>3. core.busy /\ HasData(host) /\ ~host.cmd_is_stop
    BY <1>i, <1>t, <2>1 DEF Leftover, StopPhase, CoreType, HostType
  <2>4. hw.data = host.mrq.data
    BY <1>i, <2>1, <2>3 DEF Flow
  <2>5. MciTypes'
    BY <1>0, <1>i, <2>2 DEF MciTypes
  <2>6. Bounds'
    <3>1. InBounds(host)'
      BY <1>0, <1>i DEF Bounds, InBounds, Ahead
    <3>2. hw'.fifo \in 0 .. FIFO /\ hw'.bus \in 0 .. Mci!Total
      BY <1>i, <2>1, <2>2, Sizes DEF Bounds
    <3>3. "XFERFINISH" \notin hw'.dsta
      BY <1>i, <2>1, <2>2, Sizes DEF Bounds
    <3> QED BY <3>1, <3>2, <3>3 DEF Bounds
  <2>7. Busy' /\ Turn' /\ Outcome'
    BY <1>0, <1>i, <2>2 DEF Busy, Turn, Outcome
  <2>8. Leftover' /\ StopPhase'
    BY <1>0, <2>3 DEF Leftover, StopPhase, HasData
  <2>9. Flow'
    <3>1. host.pio_count \in Int
      BY <1>t DEF HostType
    <3> QED BY <1>0, <1>i, <2>1, <2>2, <2>3, <2>4, <3>1 DEF Flow, HasData
  <2>10. DataPhase'
    <3>1. hw.bus # Mci!Total
      BY <2>1, Sizes
    <3> QED BY <1>0, <1>i, <2>3, <3>1 DEF DataPhase, HasData
  <2> QED BY <2>5, <2>6, <2>7, <2>8, <2>9, <2>10 DEF MciIInv
<1> QED BY <1>1, <1>2 DEF Mci!HwData, Mci!NONE

\* What an interrupt may change: what is awaited, the errors, and the FIFO's turn.
HostNoted(g, h) ==
    /\ g \in HostType /\ g.mrq = h.mrq /\ g.cmd_is_stop = h.cmd_is_stop
    /\ g.pio_words = h.pio_words /\ g.pio_sgptr = h.pio_sgptr /\ g.pio_count = h.pio_count
    /\ g.prescaler = h.prescaler

LEMMA IrqContext ==
    ASSUME MciIInv, Mci!Irq
    PROVE  /\ core.busy /\ UNCHANGED <<irq_off, core, taken, oops>>
           /\ host \in HostType /\ hw \in HwType /\ tasklet \in TaskletType /\ core \in CoreType
           /\ oops \in BOOLEAN
<1>1. host \in HostType /\ hw \in HwType /\ tasklet \in TaskletType /\ core \in CoreType
      /\ oops \in BOOLEAN
  BY DEF MciIInv, MciTypes, TaskletType, CoreType
<1>2. UNCHANGED <<irq_off, core, taken, oops>> /\ irq_off = 0
  BY DEF Mci!Irq
<1>3. core.busy
  BY <1>1, <1>2 DEF MciIInv, Busy, CoreType
<1> QED BY <1>1, <1>2, <1>3

\* An interrupt that ends the transfer, or notes what has come in.
LEMMA IrqStep ==
    ASSUME MciIInv, Mci!IrqFail \/ Mci!IrqClose \/ Mci!IrqNote
    PROVE  MciIInv'
<1>i. MciTypes /\ Bounds /\ Busy /\ Leftover /\ Flow /\ DataPhase /\ StopPhase /\ Turn /\ Outcome
  BY DEF MciIInv
<1>x. Mci!Irq /\ Mci!Expected
  BY DEF Mci!IrqFail, Mci!IrqClose, Mci!IrqNote
<1>t. /\ core.busy /\ UNCHANGED <<irq_off, core, taken, oops>>
      /\ host \in HostType /\ hw \in HwType /\ tasklet \in TaskletType /\ core \in CoreType
      /\ oops \in BOOLEAN
  BY <1>x, IrqContext
<1>e. host.complete_what \notin {"none", "FINALIZE"}
  BY <1>x DEF Mci!Expected, Mci!NONE
<1>r. host.mrq.data \in {"none", "read", "write"}
  BY <1>i, <1>t DEF Busy
<1>1. /\ tasklet' \in TaskletType /\ tasklet'.pc = tasklet.pc
  <2>1. tasklet' = [tasklet EXCEPT !.sched = TRUE] \/ tasklet' = [tasklet EXCEPT !.sched = @ \/ Mci!Pio]
    BY DEF Mci!IrqFail, Mci!IrqClose, Mci!IrqNote, Mci!Scheduled
  <2>2. Mci!Pio \in BOOLEAN
    BY DEF Mci!Pio
  <2> QED BY <1>t, <2>1, <2>2 DEF TaskletType
<1>2. HwKept
  <2>1. CASE hw' = [hw EXCEPT !.imsk = {}]
    BY <1>i, <1>t, <2>1 DEF HwKept, HwType, Bounds
  <2>2. CASE Mci!IrqNote
    <3> DEFINE m == hw.imsk \ (IF ~Mci!Pio THEN {}
                               ELSE IF host.pio_active = "write" THEN {"tx"} ELSE {"rx"})
               c == hw.csta \ {"CMDSENT", "RSPFIN"}
               d == IF Mci!Cmd.data # "none" THEN hw.dsta \ {"XFERFINISH"} ELSE hw.dsta
    <3>1. hw' = [hw EXCEPT !.imsk = m, !.csta = c, !.dsta = d]
      BY <2>2 DEF Mci!IrqNote, Mci!NONE
    <3>2. /\ m \in SUBSET {"cmd", "data", "rx", "tx"}
          /\ c \in SUBSET {"CMDSENT", "RSPFIN", "CMDTIMEOUT"}
          /\ d \in SUBSET {"XFERFINISH", "fault"} /\ d \subseteq hw.dsta
      BY <1>t DEF HwType
    <3> HIDE DEF m, c, d
    <3> QED BY <1>i, <1>t, <3>1, <3>2 DEF HwKept, HwType, Bounds
  <2> QED BY <2>1, <2>2 DEF Mci!IrqFail, Mci!IrqClose, Mci!IrqNote
<1>3. ASSUME HostNoted(host', host), host'.pio_active \in {host.pio_active, "none"},
             host'.complete_what # "none",
             DataPhase', StopPhase'
      PROVE  MciIInv'
  <2>1. MciTypes'
    BY <1>1, <1>2, <1>3, <1>t DEF MciTypes, HostNoted, HwKept, TaskletType, CoreType
  <2>2. Bounds'
    BY <1>2, <1>3, <1>i DEF Bounds, InBounds, Ahead, HwKept, HostNoted
  <2>3. Busy' /\ Turn' /\ Outcome'
    BY <1>1, <1>2, <1>3, <1>i, <1>t DEF Busy, Turn, Outcome, HwKept, HostNoted
  <2>4. Leftover' /\ Flow'
    BY <1>2, <1>3, <1>i, <1>t DEF Leftover, Flow, HasData, HwKept, HostNoted
  <2> QED BY <1>3, <2>1, <2>2, <2>3, <2>4 DEF MciIInv
<1>4. CASE Mci!IrqFail
  <2> DEFINE e == host.cmd_err \/ Mci!Timeout
             d == host.data_err \/ (~Mci!Timeout /\ Mci!DataFault)
  <2>1. host' = [host EXCEPT !.cmd_err = e, !.data_err = d, !.pio_active = "none",
                            !.complete_what = "FINALIZE"]
    BY <1>4 DEF Mci!IrqFail, Mci!NONE
  <2>2. e \in BOOLEAN /\ d \in BOOLEAN /\ (e \/ d) /\ (host.data_err => d)
    <3> DEFINE tmo == Mci!Timeout
               flt == Mci!DataFault
    <3>1. tmo \in BOOLEAN /\ flt \in BOOLEAN
      BY DEF Mci!Timeout, Mci!DataFault
    <3>2. tmo \/ flt
      BY <1>4 DEF Mci!IrqFail
    <3>3. host.cmd_err \in BOOLEAN /\ host.data_err \in BOOLEAN
      BY <1>t DEF HostType
    <3> HIDE DEF tmo, flt
    <3>4. /\ (host.cmd_err \/ tmo) \in BOOLEAN /\ (host.data_err \/ (~tmo /\ flt)) \in BOOLEAN
          /\ (host.cmd_err \/ tmo) \/ (host.data_err \/ (~tmo /\ flt))
      BY <3>1, <3>2, <3>3
    <3> QED BY <3>4 DEF tmo, flt
  <2> HIDE DEF e, d
  <2>3. /\ HostNoted(host', host) /\ host'.pio_active = "none" /\ host'.complete_what = "FINALIZE"
        /\ host'.cmd_err = e /\ host'.data_err = d
    <3> DEFINE none == "none"
               over == "FINALIZE"
    <3>1. /\ none \in {"none", "read", "write"}
          /\ over \in {"none", "CMDSENT", "RSPFIN", "XFERFINISH", "XFERFINISH_RSPFIN", "FINALIZE"}
      OBVIOUS
    <3>2. host' = [host EXCEPT !.cmd_err = e, !.data_err = d, !.pio_active = none,
                              !.complete_what = over]
      BY <2>1
    <3> HIDE DEF none, over
    <3>3. host' \in HostType
      <4>1. e \in BOOLEAN /\ d \in BOOLEAN /\ host \in HostType
        BY <1>t, <2>2
      <4> QED BY ONLY <3>1, <3>2, <4>1 DEF HostType
    <3>4. /\ host'.mrq = host.mrq /\ host'.cmd_is_stop = host.cmd_is_stop
          /\ host'.pio_words = host.pio_words /\ host'.pio_sgptr = host.pio_sgptr
          /\ host'.pio_count = host.pio_count /\ host'.prescaler = host.prescaler
      BY <1>t, <3>2 DEF HostType
    <3>5. /\ host'.pio_active = none /\ host'.complete_what = over
          /\ host'.cmd_err = e /\ host'.data_err = d
      BY <1>t, <3>2 DEF HostType
    <3> QED BY <3>3, <3>4, <3>5 DEF HostNoted, none, over
  <2>4. DataPhase' /\ StopPhase'
    BY <1>2, <1>i, <1>t, <2>2, <2>3 DEF DataPhase, StopPhase, HasData, HwKept, HostNoted
  <2> QED BY <1>3, <2>3, <2>4
<1>5. CASE Mci!IrqClose
  <2>1. host' = [host EXCEPT !.complete_what = "FINALIZE"]
    BY <1>5 DEF Mci!IrqClose
  <2>2. /\ HostNoted(host', host) /\ host'.pio_active = host.pio_active
        /\ host'.complete_what = "FINALIZE"
        /\ host'.cmd_err = host.cmd_err /\ host'.data_err = host.data_err
    BY <1>t, <2>1 DEF HostNoted, HostType
  <2>3. HasData(host) /\ ~host.cmd_is_stop => hw.bus = Mci!Total
    <3>1. CASE Mci!CmdOver
      BY <1>i, <1>t, <3>1 DEF Mci!CmdOver, DataPhase
    <3>2. CASE Mci!DataOver
      BY <1>i, <3>2 DEF Mci!DataOver, Bounds
    <3> QED BY <1>5, <3>1, <3>2 DEF Mci!IrqClose
  <2>4. DataPhase' /\ StopPhase'
    BY <1>2, <1>e, <1>i, <1>t, <2>2, <2>3 DEF DataPhase, StopPhase, HasData, HwKept, HostNoted
  <2> QED BY <1>3, <2>2, <2>4
<1>6. CASE Mci!IrqNote
  <2> DEFINE w == Mci!StillAwaited
  <2>1. host' = [host EXCEPT !.complete_what = w]
    BY <1>6 DEF Mci!IrqNote
  <2>2. /\ w \in {"CMDSENT", "RSPFIN", "XFERFINISH", "XFERFINISH_RSPFIN"}
        /\ w = "CMDSENT" => host.complete_what = "CMDSENT"
        /\ w = "RSPFIN" => host.complete_what = "RSPFIN" \/ "XFERFINISH" \in hw.dsta
    BY <1>e, <1>t DEF Mci!StillAwaited, Mci!Noted, HostType
  <2> HIDE DEF w
  <2>3. /\ HostNoted(host', host) /\ host'.pio_active = host.pio_active
        /\ host'.complete_what = w
        /\ host'.cmd_err = host.cmd_err /\ host'.data_err = host.data_err
    BY <1>t, <2>1, <2>2 DEF HostNoted, HostType
  <2>4. DataPhase'
    BY <1>2, <1>e, <1>i, <1>t, <2>2, <2>3 DEF DataPhase, HasData, HwKept, HostNoted, Bounds
  <2>5. StopPhase'
    BY <1>2, <1>i, <1>t, <2>3 DEF StopPhase, HasData, HwKept, HostNoted
  <2> QED BY <1>3, <2>2, <2>3, <2>4, <2>5
<1> QED BY <1>4, <1>5, <1>6
\* What s3cmci_send_request leaves of the host and of the registers.
LEMMA SendIs ==
    ASSUME NEW g \in HostType, NEW w \in HwType, NEW c, Mci!SendCommand(g, w, c)
    PROVE  /\ host' \in HostType /\ host'.mrq = g.mrq /\ host'.cmd_is_stop = g.cmd_is_stop
           /\ host'.pio_active = g.pio_active /\ host'.pio_words = g.pio_words
           /\ host'.pio_sgptr = g.pio_sgptr /\ host'.pio_count = g.pio_count
           /\ host'.cmd_err = g.cmd_err /\ host'.data_err = g.data_err
           /\ host'.prescaler = g.prescaler
           /\ host'.complete_what # "none" /\ host'.complete_what # "FINALIZE"
           /\ c.data # "none" => host'.complete_what = "XFERFINISH_RSPFIN"
           /\ hw' \in HwType /\ hw'.fifo = w.fifo /\ hw'.bus = w.bus /\ hw'.pre = w.pre
           /\ hw'.data = w.data /\ hw'.dsta = {}
           /\ irq_off' = irq_off - 1
<1> DEFINE a == Mci!Awaited(c)
           m == w.imsk \cup {"cmd"}
<1>1. /\ a \in {"none", "CMDSENT", "RSPFIN", "XFERFINISH", "XFERFINISH_RSPFIN", "FINALIZE"}
      /\ a # "none" /\ a # "FINALIZE" /\ (c.data # "none" => a = "XFERFINISH_RSPFIN")
      /\ m \in SUBSET {"cmd", "data", "rx", "tx"}
  BY DEF Mci!Awaited, Mci!NONE, HwType
<1>2. /\ host' = [g EXCEPT !.complete_what = a]
      /\ hw' = [w EXCEPT !.csta = {}, !.dsta = {}, !.imsk = m, !.cmd = "start"]
      /\ irq_off' = irq_off - 1
  BY DEF Mci!SendCommand
<1> HIDE DEF a, m
<1>3. /\ host' \in HostType /\ host'.mrq = g.mrq /\ host'.cmd_is_stop = g.cmd_is_stop
      /\ host'.pio_active = g.pio_active /\ host'.pio_words = g.pio_words
      /\ host'.pio_sgptr = g.pio_sgptr /\ host'.pio_count = g.pio_count
      /\ host'.cmd_err = g.cmd_err /\ host'.data_err = g.data_err
      /\ host'.prescaler = g.prescaler /\ host'.complete_what = a
  BY <1>1, <1>2 DEF HostType
<1>4. /\ hw' \in HwType /\ hw'.fifo = w.fifo /\ hw'.bus = w.bus /\ hw'.pre = w.pre
      /\ hw'.data = w.data /\ hw'.dsta = {}
  <2> DEFINE no == {}
             go == "start"
  <2>1. /\ no \in SUBSET {"CMDSENT", "RSPFIN", "CMDTIMEOUT"} /\ no \in SUBSET {"XFERFINISH", "fault"}
        /\ go \in {"none", "start", "wait", "over", "dead"}
    OBVIOUS
  <2>2. hw' = [w EXCEPT !.csta = no, !.dsta = no, !.imsk = m, !.cmd = go]
    BY <1>2
  <2> HIDE DEF no, go
  <2>3. hw' \in HwType
    BY <1>1, <2>1, <2>2 DEF HwType
  <2>4. /\ hw'.fifo = w.fifo /\ hw'.bus = w.bus /\ hw'.pre = w.pre
        /\ hw'.data = w.data /\ hw'.dsta = no
    BY <2>2 DEF HwType
  <2> QED BY <2>3, <2>4 DEF no
<1> QED BY <1>1, <1>2, <1>3, <1>4

\* The request the core hands over, before anything is prepared.
LEMMA AskedIs ==
    ASSUME MciIInv, NEW r \in Mci!Requests
    PROVE  LET A == [Mci!Asked EXCEPT !.mrq = r]
           IN  /\ A \in HostType /\ A.mrq = r /\ ~A.cmd_is_stop
               /\ A.complete_what = host.complete_what /\ A.pio_active = host.pio_active
               /\ A.pio_words = host.pio_words /\ A.pio_sgptr = host.pio_sgptr
               /\ A.pio_count = host.pio_count /\ A.prescaler = host.prescaler
<1>1. host \in HostType
  BY DEF MciIInv, MciTypes
<1> DEFINE no == FALSE
           B == [host EXCEPT !.cmd_is_stop = no, !.cmd_err = no, !.data_err = no]
           A == [B EXCEPT !.mrq = r]
<1>2. [Mci!Asked EXCEPT !.mrq = r] = A
  BY DEF Mci!Asked
<1>3. no \in BOOLEAN /\ ~no
  OBVIOUS
<1> HIDE DEF no
<1>4. /\ B \in HostType /\ B.cmd_is_stop = no
      /\ B.complete_what = host.complete_what /\ B.pio_active = host.pio_active
      /\ B.pio_words = host.pio_words /\ B.pio_sgptr = host.pio_sgptr
      /\ B.pio_count = host.pio_count /\ B.prescaler = host.prescaler
  BY <1>1, <1>3 DEF HostType
<1>5. r \in Mci!Requests \cup {Mci!NoReq}
  OBVIOUS
<1> HIDE DEF B
<1>6. A \in HostType
  BY <1>4, <1>5 DEF HostType
<1>7. /\ A.mrq = r /\ A.cmd_is_stop = no
      /\ A.complete_what = host.complete_what /\ A.pio_active = host.pio_active
      /\ A.pio_words = host.pio_words /\ A.pio_sgptr = host.pio_sgptr
      /\ A.pio_count = host.pio_count /\ A.prescaler = host.prescaler
  BY <1>4 DEF HostType
<1> HIDE DEF A
<1>8. /\ A \in HostType /\ A.mrq = r /\ ~A.cmd_is_stop
      /\ A.complete_what = host.complete_what /\ A.pio_active = host.pio_active
      /\ A.pio_words = host.pio_words /\ A.pio_sgptr = host.pio_sgptr
      /\ A.pio_count = host.pio_count /\ A.prescaler = host.prescaler
  BY <1>3, <1>6, <1>7
<1> QED BY <1>2, <1>8
\* A request that is accepted begins with nothing in the FIFO.
LEMMA RequestStep ==
    ASSUME MciIInv, NEW r \in Mci!Requests, Mci!s3cmci_request(r)
    PROVE  MciIInv'
<1>i. MciTypes /\ Bounds /\ Busy /\ Leftover /\ Flow /\ DataPhase /\ StopPhase /\ Turn /\ Outcome
  BY DEF MciIInv
<1>t. /\ host \in HostType /\ hw \in HwType /\ tasklet \in TaskletType /\ core \in CoreType
      /\ oops \in BOOLEAN /\ hw.fifo \in Int /\ hw.bus \in Int
      /\ "XFERFINISH" \in hw.dsta => hw.bus = Mci!Total
  BY <1>i DEF MciTypes, TaskletType, CoreType, Bounds, HwType
<1>0. /\ UNCHANGED <<tasklet, taken, oops>> /\ ~core.busy /\ tasklet.pc = "idle"
      /\ "added" \in taken /\ core' = [core EXCEPT !.busy = TRUE, !.fault = FALSE]
  BY DEF Mci!s3cmci_request, Mci!Up
<1>c. core' \in CoreType /\ core'.busy /\ core'.ok = core.ok /\ core'.whole = core.whole
  BY <1>0, <1>t DEF CoreType
<1>f. hw.fifo = 0 /\ hw.data = "none" /\ irq_off = 1 /\ host.complete_what = "none"
      /\ hw.pre = host.prescaler
  BY <1>0, <1>i DEF Leftover, Busy, Outcome
<1> DEFINE A == [Mci!Asked EXCEPT !.mrq = r]
<1>a. /\ A \in HostType /\ A.mrq = r /\ ~A.cmd_is_stop
      /\ A.complete_what = host.complete_what /\ A.pio_active = host.pio_active
      /\ A.pio_words = host.pio_words /\ A.pio_sgptr = host.pio_sgptr
      /\ A.pio_count = host.pio_count /\ A.prescaler = host.prescaler
  BY AskedIs
<1>1. CASE r.data = "none"
  <2>1. Mci!SendCommand(A, hw, r)
    BY <1>1 DEF Mci!s3cmci_request, Mci!NONE
  <2> HIDE DEF A
  <2>2. /\ host' \in HostType /\ host'.mrq = A.mrq /\ host'.cmd_is_stop = A.cmd_is_stop
        /\ host'.pio_active = A.pio_active /\ host'.pio_words = A.pio_words
        /\ host'.pio_sgptr = A.pio_sgptr /\ host'.pio_count = A.pio_count
        /\ host'.prescaler = A.prescaler /\ host'.complete_what # "none"
        /\ hw' \in HwType /\ hw'.fifo = hw.fifo /\ hw'.bus = hw.bus /\ hw'.pre = hw.pre
        /\ hw'.data = hw.data /\ hw'.dsta = {} /\ irq_off' = irq_off - 1
    BY <1>a, <1>t, <2>1, SendIs
  <2>3. MciTypes'
    BY <1>0, <1>c, <1>t, <2>2 DEF MciTypes, TaskletType, CoreType
  <2>4. Bounds'
    BY <1>a, <1>i, <2>2 DEF Bounds, InBounds, Ahead
  <2>5. Busy' /\ Turn' /\ Outcome'
    BY <1>0, <1>1, <1>a, <1>c, <1>f, <1>i, <2>2 DEF Busy, Turn, Outcome
  <2>6. Leftover' /\ Flow' /\ DataPhase' /\ StopPhase'
    BY <1>0, <1>1, <1>a, <1>c, <1>i, <2>2 DEF Leftover, Flow, DataPhase, StopPhase, HasData
  <2> QED BY <2>3, <2>4, <2>5, <2>6 DEF MciIInv
<1>2. CASE r.data \in {"read", "write"}
  <2>0. Mci!SendData(A, r)
    BY <1>2 DEF Mci!s3cmci_request, Mci!NONE
  <2> DEFINE d == r.data
             z == 0
             ready == [A EXCEPT !.pio_sgptr = z, !.pio_words = z, !.pio_count = z, !.pio_active = d]
             m == hw.imsk \cup {"data", IF d = "read" THEN "rx" ELSE "tx"}
             no == FALSE
             started == [hw EXCEPT !.data = d, !.bus = z, !.cut = no, !.imsk = m]
             slow == [started EXCEPT !.pre = MaxPsc]
             filled == Mci!do_pio_write(ready, FIFO - hw.fifo)
             f == started.fifo + filled.pio_count
             full == [started EXCEPT !.fifo = f]
  <2>1. /\ d = "read" => Mci!SendCommand(ready, slow, r)
        /\ d # "read" => Mci!SendCommand(filled, full, r)
    BY <2>0 DEF Mci!SendData
  <2>z. z = 0 /\ ~no /\ no \in BOOLEAN /\ z \in Int /\ d = r.data /\ d \in {"none", "read", "write"}
        /\ m \in SUBSET {"cmd", "data", "rx", "tx"}
    BY <1>2, <1>t DEF HwType
  <2>u. FIFO - hw.fifo = FIFO
    BY <1>f, Sizes
  <2>v. filled = Mci!do_pio_write(ready, FIFO)
    BY <2>u
  <2>w. f = started.fifo + filled.pio_count
    OBVIOUS
  <2> HIDE DEF A, z, m, no, d, filled, f
  <2>2. /\ ready \in HostType
        /\ ready.mrq = A.mrq /\ ready.cmd_is_stop = A.cmd_is_stop
        /\ ready.complete_what = A.complete_what /\ ready.prescaler = A.prescaler
        /\ ready.pio_sgptr = z /\ ready.pio_words = z /\ ready.pio_count = z /\ ready.pio_active = d
    <3>1. ready \in HostType
      BY <1>a, <2>z DEF HostType
    <3>2. /\ ready.mrq = A.mrq /\ ready.cmd_is_stop = A.cmd_is_stop
          /\ ready.complete_what = A.complete_what /\ ready.prescaler = A.prescaler
      BY <1>a DEF HostType
    <3>3. ready.pio_sgptr = z /\ ready.pio_words = z /\ ready.pio_count = z /\ ready.pio_active = d
      BY <1>a DEF HostType
    <3> QED BY <3>1, <3>2, <3>3
  <2>3. /\ started \in HwType /\ started.data = d /\ started.bus = z /\ started.fifo = hw.fifo
        /\ started.pre = hw.pre
    <3>1. started \in HwType
      BY <1>t, <2>z DEF HwType
    <3>2. started.data = d /\ started.bus = z /\ started.fifo = hw.fifo /\ started.pre = hw.pre
      BY <1>t DEF HwType
    <3> QED BY <3>1, <3>2
  <2> HIDE DEF ready, started
  <2>i. InBounds(ready) /\ Ahead(ready) = Mci!Total /\ HasData(ready)
    <3>1. Segments - 0 = Segments
      BY Sizes
    <3>2. Ahead(ready) = Mci!Total
      BY <2>2, <2>z, <3>1, TotalIs DEF Ahead
    <3>3. HasData(ready)
      BY <1>2, <1>a, <2>2 DEF HasData
    <3> QED BY <2>2, <2>z, <3>2, <3>3, Sizes DEF InBounds
  <2>b. Mci!Buffers(ready) = Mci!Total
    BY <1>2, <2>2, <2>i, <2>z, BuffersLeft
  <2>4. CASE d = "read"
    <3>1. slow \in HwType /\ slow.data = d /\ slow.bus = z /\ slow.fifo = hw.fifo
      BY <2>3, Sizes DEF HwType
    <3>2. Mci!SendCommand(ready, slow, r)
      BY <2>1, <2>4
    <3> HIDE DEF slow
    <3>3. /\ host' \in HostType /\ host'.mrq = r /\ ~host'.cmd_is_stop
          /\ host'.pio_active = "read" /\ host'.pio_words = 0
          /\ host'.pio_sgptr = 0 /\ host'.pio_count = 0
          /\ host'.complete_what = "XFERFINISH_RSPFIN"
          /\ hw' \in HwType /\ hw'.fifo = 0 /\ hw'.bus = 0
          /\ hw'.data = "read" /\ hw'.dsta = {} /\ irq_off' = irq_off - 1
      <4>1. /\ host' \in HostType /\ host'.mrq = ready.mrq /\ host'.cmd_is_stop = ready.cmd_is_stop
            /\ host'.pio_active = ready.pio_active /\ host'.pio_words = ready.pio_words
            /\ host'.pio_sgptr = ready.pio_sgptr /\ host'.pio_count = ready.pio_count
            /\ r.data # "none" => host'.complete_what = "XFERFINISH_RSPFIN"
            /\ hw' \in HwType /\ hw'.fifo = slow.fifo /\ hw'.bus = slow.bus
            /\ hw'.data = slow.data /\ hw'.dsta = {} /\ irq_off' = irq_off - 1
        BY <2>2, <3>1, <3>2, SendIs
      <4> QED BY <1>2, <1>a, <1>f, <2>2, <2>4, <2>z, <3>1, <4>1
    <3>4. MciTypes'
      BY <1>0, <1>c, <1>t, <3>3 DEF MciTypes, TaskletType, CoreType
    <3>5. Bounds'
      <4>1. InBounds(host)'
        BY <2>2, <2>i, <2>z, <3>3 DEF InBounds, Ahead
      <4> QED BY <3>3, <4>1, Sizes DEF Bounds
    <3>6. Busy' /\ Turn' /\ Outcome'
      BY <1>0, <1>2, <1>c, <1>f, <1>i, <2>4, <2>z, <3>3 DEF Busy, Turn, Outcome
    <3>7. Leftover' /\ Flow' /\ DataPhase' /\ StopPhase'
      BY <1>0, <1>2, <1>c, <2>4, <2>z, <3>3, Sizes DEF Leftover, Flow, DataPhase, StopPhase, HasData
    <3> QED BY <3>4, <3>5, <3>6, <3>7 DEF MciIInv
  <2>5. CASE d # "read"
    <3>w. d = "write"
      BY <1>2, <2>5, <2>z
    <3>n. FIFO \in Nat
      BY Sizes
    <3>p. \/ FIFO <= ready.pio_words + Mci!Buffers(ready) /\ Partly(filled, ready, FIFO)
          \/ Wholly(filled, ready, FIFO)
      BY <2>2, <2>i, <2>v, <3>n, <3>w, PioWrite
    <3>1. /\ filled \in HostType /\ filled.mrq = r /\ ~filled.cmd_is_stop
          /\ filled.prescaler = host.prescaler
          /\ InBounds(filled) /\ filled.pio_active \in {"none", "write"}
          /\ filled.pio_active = "none" => filled.pio_count = Mci!Total
          /\ filled.pio_count \in 0 .. FIFO
      <4>1. CASE FIFO <= ready.pio_words + Mci!Buffers(ready) /\ Partly(filled, ready, FIFO)
        BY <1>a, <2>2, <2>z, <3>w, <4>1, Sizes DEF Partly, SameButPio
      <4>2. CASE Wholly(filled, ready, FIFO)
        <5>1. filled.pio_count = 0 + 0 + Mci!Total /\ FIFO >= 0 + Mci!Total
          BY <2>2, <2>b, <2>z, <4>2 DEF Wholly
        <5>2. filled.pio_count = Mci!Total /\ FIFO >= Mci!Total
          BY <5>1, Sizes
        <5> QED BY <1>a, <2>2, <2>z, <4>2, <5>2, Sizes DEF Wholly, SameButPio
      <4> QED BY <3>p, <4>1, <4>2
    <3>2. f = filled.pio_count /\ f \in Int
      BY <1>f, <2>3, <2>w, <3>1 DEF HostType
    <3>3. full \in HwType /\ full.data = d /\ full.bus = z /\ full.fifo = f /\ full.pre = hw.pre
      BY <2>3, <3>2 DEF HwType
    <3>4. Mci!SendCommand(filled, full, r)
      BY <2>1, <2>5
    <3> HIDE DEF full
    <3>5. /\ host' \in HostType /\ host'.mrq = r /\ ~host'.cmd_is_stop
          /\ host'.pio_active = filled.pio_active /\ host'.pio_words = filled.pio_words
          /\ host'.pio_sgptr = filled.pio_sgptr /\ host'.pio_count = filled.pio_count
          /\ host'.complete_what = "XFERFINISH_RSPFIN" /\ host'.prescaler = host.prescaler
          /\ hw' \in HwType /\ hw'.fifo = filled.pio_count /\ hw'.bus = 0 /\ hw'.pre = hw.pre
          /\ hw'.data = "write" /\ hw'.dsta = {} /\ irq_off' = irq_off - 1
      <4>1. /\ host' \in HostType /\ host'.mrq = filled.mrq /\ host'.cmd_is_stop = filled.cmd_is_stop
            /\ host'.pio_active = filled.pio_active /\ host'.pio_words = filled.pio_words
            /\ host'.pio_sgptr = filled.pio_sgptr /\ host'.pio_count = filled.pio_count
            /\ host'.prescaler = filled.prescaler
            /\ r.data # "none" => host'.complete_what = "XFERFINISH_RSPFIN"
            /\ hw' \in HwType /\ hw'.fifo = full.fifo /\ hw'.bus = full.bus /\ hw'.pre = full.pre
            /\ hw'.data = full.data /\ hw'.dsta = {} /\ irq_off' = irq_off - 1
        BY <3>1, <3>3, <3>4, SendIs
      <4> QED BY <1>2, <2>z, <3>1, <3>2, <3>3, <3>w, <4>1
    <3>6. MciTypes'
      BY <1>0, <1>c, <1>t, <3>5 DEF MciTypes, TaskletType, CoreType
    <3>7. Bounds'
      <4>1. InBounds(host)'
        BY <3>1, <3>5 DEF InBounds, Ahead
      <4> QED BY <3>1, <3>5, <4>1, Sizes DEF Bounds
    <3>8. Busy' /\ Turn' /\ Outcome'
      BY <1>0, <1>2, <1>c, <1>f, <1>i, <3>5 DEF Busy, Turn, Outcome
    <3>9. Leftover' /\ Flow' /\ DataPhase' /\ StopPhase'
      BY <1>0, <1>2, <1>c, <2>z, <3>1, <3>5, <3>w, Sizes
         DEF Leftover, Flow, DataPhase, StopPhase, HasData
    <3> QED BY <3>6, <3>7, <3>8, <3>9 DEF MciIInv
  <2> QED BY <2>4, <2>5
<1> QED BY <1>1, <1>2 DEF Mci!s3cmci_request, Mci!NONE, Mci!Requests
\* A step between two requests: nothing is under way and nothing is moved.
LEMMA IdleStep ==
    ASSUME MciIInv, ~core.busy, ~core'.busy, core' \in CoreType, core'.ok => core'.whole,
           host' \in HostType, hw' \in HwType, host'.complete_what = "none",
           host'.pio_active = host.pio_active, host'.pio_words = host.pio_words,
           host'.pio_sgptr = host.pio_sgptr, host'.pio_count = host.pio_count,
           hw'.fifo = 0, hw'.data = "none", hw'.bus = hw.bus, hw'.dsta \subseteq hw.dsta,
           hw'.pre = host'.prescaler,
           UNCHANGED <<irq_off, tasklet, taken, oops>>
    PROVE  MciIInv'
<1>i. MciTypes /\ Bounds /\ Busy /\ Leftover /\ Flow /\ DataPhase /\ StopPhase /\ Turn /\ Outcome
  BY DEF MciIInv
<1>1. MciTypes'
  BY <1>i DEF MciTypes, CoreType
<1>2. Bounds'
  BY <1>i, Sizes DEF Bounds, InBounds, Ahead
<1>3. Busy' /\ Turn' /\ Outcome'
  BY <1>i DEF Busy, Turn, Outcome
<1>4. Leftover' /\ Flow' /\ DataPhase' /\ StopPhase'
  BY <1>i DEF Leftover, Flow, DataPhase, StopPhase
<1> QED BY <1>1, <1>2, <1>3, <1>4 DEF MciIInv

\* A request that is over at once, and a new clock.
LEMMA OverStep ==
    ASSUME MciIInv, NEW r \in Mci!Requests, Mci!RequestOver(r)
    PROVE  MciIInv'
<1>i. MciTypes /\ Busy /\ Leftover /\ Outcome
  BY DEF MciIInv
<1>t. host \in HostType /\ hw \in HwType /\ core \in CoreType
  BY <1>i DEF MciTypes, CoreType
<1>0. UNCHANGED <<irq_off, tasklet, taken, oops>> /\ ~core.busy
  BY DEF Mci!RequestOver
<1>f. /\ hw.fifo = 0 /\ hw.data = "none" /\ hw.pre = host.prescaler
      /\ host.complete_what = "none"
  BY <1>0, <1>i DEF Leftover, Busy, Outcome
<1> DEFINE b == r.data # "switch"
           A == [Mci!Asked EXCEPT !.mrq = r]
<1>1. host' = [A EXCEPT !.data_err = b, !.cmd_err = b]
  <2>1. host' = [Mci!Asked EXCEPT !.mrq = r, !.data_err = b, !.cmd_err = b]
    BY DEF Mci!RequestOver
  <2> HIDE DEF b
  <2> QED BY <2>1
<1>2. b \in BOOLEAN
  OBVIOUS
<1>a. /\ A \in HostType
      /\ A.complete_what = host.complete_what /\ A.pio_active = host.pio_active
      /\ A.pio_words = host.pio_words /\ A.pio_sgptr = host.pio_sgptr
      /\ A.pio_count = host.pio_count /\ A.prescaler = host.prescaler
  BY AskedIs
<1>3. core' \in CoreType /\ ~core'.busy /\ (core'.ok => core'.whole)
  <2> DEFINE c == r.data = "switch"
  <2>1. core' = [core EXCEPT !.ok = c, !.whole = c, !.fault = b]
    BY DEF Mci!RequestOver
  <2>2. c \in BOOLEAN
    OBVIOUS
  <2> HIDE DEF c, b
  <2>3. core' \in CoreType
    BY <1>2, <1>t, <2>1, <2>2 DEF CoreType
  <2>4. core'.busy = core.busy /\ core'.ok = c /\ core'.whole = c
    BY <1>t, <2>1 DEF CoreType
  <2> QED BY <1>0, <2>3, <2>4
<1>4. /\ hw' \in HwType /\ hw'.fifo = 0 /\ hw'.data = "none" /\ hw'.bus = hw.bus
      /\ hw'.pre = hw.pre /\ hw'.dsta \subseteq hw.dsta
  <2>1. CASE hw' = hw
    BY <1>f, <1>t, <2>1
  <2>2. CASE hw' = [hw EXCEPT !.csta = {}, !.dsta = {}, !.data = "none"]
    <3> DEFINE none == "none"
               no == {}
    <3>1. /\ none \in {"none", "read", "write"} /\ none = "none" /\ no \subseteq hw.dsta
          /\ no \in SUBSET {"CMDSENT", "RSPFIN", "CMDTIMEOUT"} /\ no \in SUBSET {"XFERFINISH", "fault"}
      OBVIOUS
    <3>2. hw' = [hw EXCEPT !.csta = no, !.dsta = no, !.data = none]
      BY <2>2
    <3> HIDE DEF none, no
    <3>3. hw' \in HwType
      BY <1>t, <3>1, <3>2 DEF HwType
    <3>4. hw'.fifo = hw.fifo /\ hw'.data = none /\ hw'.bus = hw.bus /\ hw'.pre = hw.pre /\ hw'.dsta = no
      BY <1>t, <3>2 DEF HwType
    <3> QED BY <1>f, <3>1, <3>3, <3>4
  <2> QED BY <2>1, <2>2 DEF Mci!RequestOver, Mci!NONE
<1> HIDE DEF A, b
<1>5. host' \in HostType
  BY <1>1, <1>2, <1>a DEF HostType
<1>6. /\ host'.complete_what = A.complete_what /\ host'.pio_active = A.pio_active
      /\ host'.pio_words = A.pio_words /\ host'.pio_sgptr = A.pio_sgptr
      /\ host'.pio_count = A.pio_count /\ host'.prescaler = A.prescaler
  BY <1>1, <1>a DEF HostType
<1>7. /\ host'.complete_what = "none" /\ host'.pio_active = host.pio_active
      /\ host'.pio_words = host.pio_words /\ host'.pio_sgptr = host.pio_sgptr
      /\ host'.pio_count = host.pio_count /\ hw'.pre = host'.prescaler
  BY <1>4, <1>6, <1>a, <1>f
<1> QED BY <1>0, <1>3, <1>4, <1>5, <1>7, IdleStep

LEMMA IosStep ==
    ASSUME MciIInv, NEW c, Mci!s3cmci_set_ios(c)
    PROVE  MciIInv'
<1>i. MciTypes /\ Busy /\ Leftover /\ Outcome
  BY DEF MciIInv
<1>t. host \in HostType /\ hw \in HwType /\ core \in CoreType
  BY <1>i DEF MciTypes, CoreType
<1>0. UNCHANGED <<irq_off, tasklet, taken, oops, core>> /\ ~core.busy
  BY DEF Mci!s3cmci_set_ios
<1>f. hw.fifo = 0 /\ hw.data = "none" /\ host.complete_what = "none"
  BY <1>0, <1>i DEF Leftover, Busy
<1> DEFINE p == Mci!Prescaler(c)
           f == IF c = 0 THEN 0 ELSE hw.fifo
<1>1. host' = [host EXCEPT !.prescaler = p] /\ hw' = [hw EXCEPT !.pre = p, !.fifo = f]
  BY DEF Mci!s3cmci_set_ios
<1>2. p \in Int /\ f = 0 /\ f \in Int
  BY <1>f, PrescalerIs
<1> HIDE DEF p, f
<1>3. /\ host' \in HostType /\ host'.complete_what = "none" /\ host'.prescaler = p
      /\ host'.pio_active = host.pio_active /\ host'.pio_words = host.pio_words
      /\ host'.pio_sgptr = host.pio_sgptr /\ host'.pio_count = host.pio_count
  BY <1>1, <1>2, <1>f, <1>t DEF HostType
<1>4. /\ hw' \in HwType /\ hw'.fifo = f /\ hw'.data = hw.data /\ hw'.bus = hw.bus
      /\ hw'.pre = p /\ hw'.dsta = hw.dsta
  BY <1>1, <1>2, <1>t DEF HwType
<1>5. core' \in CoreType /\ ~core'.busy /\ (core'.ok => core'.whole)
  BY <1>0, <1>i, <1>t DEF Outcome
<1>6. /\ hw'.fifo = 0 /\ hw'.data = "none" /\ hw'.dsta \subseteq hw.dsta /\ hw'.pre = host'.prescaler
  BY <1>2, <1>3, <1>4, <1>f
<1> QED BY <1>0, <1>3, <1>4, <1>5, <1>6, IdleStep
\* The tasklet's turn at the FIFO: words change their place, none is lost.
LEMMA MovedStep ==
    ASSUME MciIInv, host.pio_active # "none",
           SameButPio(host', host), InBounds(host'),
           hw' \in HwType, hw'.fifo \in 0 .. FIFO, hw'.bus = hw.bus, hw'.data = hw.data,
           hw'.dsta = hw.dsta, hw'.pre \in {hw.pre, host.prescaler},
           tasklet' \in TaskletType, UNCHANGED <<irq_off, core, taken, oops>>,
           host.pio_active = "read" => hw'.fifo + host'.pio_count = hw.fifo + host.pio_count,
           host.pio_active = "write" => host'.pio_count - hw'.fifo = host.pio_count - hw.fifo,
           \/ /\ host'.pio_active = host.pio_active
              /\ host'.complete_what = host.complete_what
              /\ host.pio_active = "read" => host'.pio_words > 0
           \/ /\ host'.pio_active = "none"
              /\ HasData(host) => host'.pio_count = Mci!Total
              /\ \/ host'.complete_what = host.complete_what
                 \/ core.busy /\ HasData(host) /\ hw.bus = Mci!Total /\ host'.complete_what = "FINALIZE",
           ~core.busy \/ ~HasData(host) =>
             hw'.fifo = 0 /\ (host.pio_active = "write" => host'.pio_count = Mci!Total)
    PROVE  MciIInv'
<1>i. MciTypes /\ Bounds /\ Busy /\ Leftover /\ Flow /\ DataPhase /\ StopPhase /\ Turn /\ Outcome
  BY DEF MciIInv
<1>s. /\ host' \in HostType /\ host'.mrq = host.mrq /\ host'.cmd_is_stop = host.cmd_is_stop
      /\ host'.cmd_err = host.cmd_err /\ host'.data_err = host.data_err
      /\ host'.prescaler = host.prescaler
  BY DEF SameButPio
<1>n. /\ hw.fifo \in Int /\ hw.bus \in Int /\ hw'.fifo \in Int /\ host.pio_count \in Int
      /\ host'.pio_count \in Int /\ host.pio_active \in {"none", "read", "write"}
  BY <1>i, <1>s DEF MciTypes, HwType, HostType
<1>1. MciTypes'
  BY <1>i, <1>s DEF MciTypes, TaskletType
<1>2. Bounds'
  <2>1. InBounds(host)'
    BY DEF InBounds, Ahead
  <2> QED BY <1>i, <2>1 DEF Bounds
<1>3. Busy' /\ Turn' /\ Outcome'
  BY <1>i, <1>s DEF Busy, Turn, Outcome
<1>4. Leftover' /\ Flow'
  BY <1>i, <1>n, <1>s DEF Leftover, Flow, HasData
<1>5. DataPhase' /\ StopPhase'
  BY <1>i, <1>s DEF DataPhase, StopPhase, HasData
<1> QED BY <1>1, <1>2, <1>3, <1>4, <1>5 DEF MciIInv

\* do_pio_read and do_pio_write, in the tasklet.
LEMMA TaskletPioStep ==
    ASSUME MciIInv, Mci!TaskletRead \/ Mci!TaskletWrite
    PROVE  MciIInv'
<1>i. MciTypes /\ Bounds /\ Busy /\ Leftover /\ Flow /\ DataPhase /\ StopPhase /\ Turn /\ Outcome
  BY DEF MciIInv
<1>t. host \in HostType /\ hw \in HwType /\ tasklet \in TaskletType /\ InBounds(host)
      /\ hw.fifo \in 0 .. FIFO
  BY <1>i DEF MciTypes, TaskletType, Bounds
<1>0. UNCHANGED <<irq_off, core, taken, oops>>
  BY DEF Mci!TaskletRead, Mci!TaskletWrite
<1>b. /\ Ahead(host) \in Nat /\ Mci!Buffers(host) \in {0, Ahead(host)}
      /\ host.pio_active # "none" /\ HasData(host) => Mci!Buffers(host) = Ahead(host)
  BY <1>t, BuffersLeft
<1>n. /\ host.pio_count \in Int /\ host.pio_words \in Int /\ hw.fifo \in Int /\ hw.bus \in Int
      /\ host.pio_words >= 0 /\ Mci!Buffers(host) \in Nat
      /\ host.pio_active # "none" => host.pio_count + host.pio_words + Ahead(host) = Mci!Total
      /\ hw.bus <= Mci!Total
  BY <1>b, <1>i, <1>t, Sizes DEF HostType, HwType, InBounds, Bounds
<1>1. CASE Mci!TaskletRead
  <2> DEFINE h == Mci!do_pio_read(host, hw.fifo)
             f == hw.fifo - (h.pio_count - host.pio_count)
             p == host.prescaler
  <2>1. /\ host.pio_active = "read" /\ host' = h /\ hw' = [hw EXCEPT !.fifo = f, !.pre = p]
        /\ tasklet' = [sched |-> FALSE, pc |-> IF h.pio_active = "none" THEN "check" ELSE "rx",
                       mask |-> hw.imsk]
    BY <1>1 DEF Mci!TaskletRead, Mci!At, Mci!NONE
  <2>2. hw.fifo \in Nat
    BY <1>t, Sizes
  <2>3. \/ hw.fifo < host.pio_words + Mci!Buffers(host) /\ Partly(h, host, hw.fifo)
        \/ Wholly(h, host, hw.fifo)
    BY <1>t, <2>1, <2>2, PioRead
  <2>f. f = hw.fifo - (h.pio_count - host.pio_count)
    OBVIOUS
  <2> HIDE DEF h, f, p
  <2>4. SameButPio(h, host) /\ InBounds(h) /\ h.pio_count \in Int
    BY <2>3 DEF Partly, Wholly, SameButPio, HostType
  <2>5. tasklet' \in TaskletType
    BY <1>t, <2>1 DEF TaskletType, HwType
  <2>6. f \in Int /\ p \in Int
    BY <1>n, <1>t, <2>4, <2>f DEF p, HostType
  <2>7. /\ hw' \in HwType /\ hw'.fifo = f /\ hw'.bus = hw.bus /\ hw'.data = hw.data
        /\ hw'.dsta = hw.dsta /\ hw'.pre = p
    BY <1>t, <2>1, <2>6 DEF HwType
  <2>8. f + h.pio_count = hw.fifo + host.pio_count
    BY <1>n, <2>4, <2>f
  <2>9. CASE Partly(h, host, hw.fifo)
    <3>1. /\ h.pio_active = host.pio_active /\ h.complete_what = host.complete_what
          /\ h.pio_words > 0 /\ h.pio_count = host.pio_count + hw.fifo
      BY <2>1, <2>9 DEF Partly
    <3>2. f = 0 /\ 0 \in 0 .. FIFO
      BY <1>n, <2>f, <3>1, Sizes
    <3> QED BY <1>0, <2>1, <2>4, <2>5, <2>7, <2>8, <3>1, <3>2, MovedStep DEF p
  <2>10. CASE Wholly(h, host, hw.fifo)
    <3>1. /\ h.pio_active = "none" /\ h.complete_what = "FINALIZE"
          /\ h.pio_count = host.pio_count + host.pio_words + Mci!Buffers(host)
          /\ hw.fifo >= host.pio_words + Mci!Buffers(host)
          /\ HasData(host) => h.pio_count = Mci!Total
      BY <2>1, <2>10 DEF Wholly
    <3>2. core.busy /\ HasData(host)
      <4>1. CASE ~core.busy \/ ~HasData(host)
        <5>1. hw.fifo = 0 /\ host.pio_words > 0
          BY <1>i, <2>1, <4>1 DEF Leftover
        <5> QED BY <1>n, <3>1, <5>1
      <4> QED BY <4>1
    <3>3. host.mrq.data = "read" /\ hw.bus = hw.fifo + host.pio_count
      BY <1>i, <2>1, <3>2 DEF Flow
    <3>4. f = hw.fifo - (host.pio_words + Mci!Buffers(host)) /\ hw.bus = f + Mci!Total
      BY <1>n, <2>4, <2>8, <2>f, <3>1, <3>2, <3>3
    <3>5. f = 0 /\ hw.bus = Mci!Total /\ 0 \in 0 .. FIFO
      BY <1>n, <2>6, <3>1, <3>4, Sizes
    <3> QED BY <1>0, <2>1, <2>4, <2>5, <2>7, <2>8, <3>1, <3>2, <3>5, MovedStep DEF p
  <2> QED BY <2>3, <2>9, <2>10
<1>2. CASE Mci!TaskletWrite
  <2> DEFINE n == FIFO - hw.fifo
             h == Mci!do_pio_write(host, n)
             f == hw.fifo + (h.pio_count - host.pio_count)
  <2>1. /\ host.pio_active = "write" /\ host' = h /\ hw' = [hw EXCEPT !.fifo = f]
        /\ tasklet' = [sched |-> FALSE, pc |-> IF h.pio_active = "none" THEN "check" ELSE "tx",
                       mask |-> hw.imsk]
    BY <1>2 DEF Mci!TaskletWrite, Mci!At, Mci!NONE
  <2>2. n \in Nat /\ hw.fifo + n = FIFO
    BY <1>t, Sizes
  <2> HIDE DEF n
  <2>3. \/ n <= host.pio_words + Mci!Buffers(host) /\ Partly(h, host, n)
        \/ Wholly(h, host, n)
    BY <1>t, <2>1, <2>2, PioWrite
  <2>f. f = hw.fifo + (h.pio_count - host.pio_count)
    OBVIOUS
  <2> HIDE DEF h, f
  <2>4. SameButPio(h, host) /\ InBounds(h) /\ h.pio_count \in Int
    BY <2>3 DEF Partly, Wholly, SameButPio, HostType
  <2>5. tasklet' \in TaskletType
    BY <1>t, <2>1 DEF TaskletType, HwType
  <2>6. f \in Int
    BY <1>n, <2>4, <2>f
  <2>7. /\ hw' \in HwType /\ hw'.fifo = f /\ hw'.bus = hw.bus /\ hw'.data = hw.data
        /\ hw'.dsta = hw.dsta /\ hw'.pre = hw.pre
    BY <1>t, <2>1, <2>6 DEF HwType
  <2>8. h.pio_count - f = host.pio_count - hw.fifo
    BY <1>n, <2>4, <2>f
  <2>9. CASE n <= host.pio_words + Mci!Buffers(host) /\ Partly(h, host, n)
    <3>1. /\ h.pio_active = host.pio_active /\ h.complete_what = host.complete_what
          /\ h.pio_count = host.pio_count + n
      BY <2>9 DEF Partly
    <3>2. f = FIFO /\ FIFO \in 0 .. FIFO
      BY <1>n, <2>2, <2>f, <3>1, Sizes
    <3>3. core.busy /\ HasData(host)
      <4>1. CASE ~core.busy \/ ~HasData(host)
        <5>1. hw.fifo = 0 /\ host.pio_count = Mci!Total
          BY <1>i, <2>1, <4>1 DEF Leftover
        <5>2. host.pio_words = 0 /\ Ahead(host) = 0
          BY <1>b, <1>n, <2>1, <5>1, Sizes
        <5>3. n = FIFO /\ n <= 0
          BY <1>b, <1>n, <2>2, <2>9, <5>1, <5>2, Sizes
        <5> QED BY <5>3, Sizes
      <4> QED BY <4>1
    <3> QED BY <1>0, <2>1, <2>4, <2>5, <2>7, <2>8, <3>1, <3>2, <3>3, MovedStep
  <2>10. CASE Wholly(h, host, n)
    <3>1. /\ h.pio_active = "none" /\ h.complete_what = host.complete_what
          /\ h.pio_count = host.pio_count + host.pio_words + Mci!Buffers(host)
          /\ n >= host.pio_words + Mci!Buffers(host)
          /\ HasData(host) => h.pio_count = Mci!Total
      BY <2>1, <2>10 DEF Wholly
    <3>2. f \in 0 .. FIFO
      BY <1>n, <1>t, <2>2, <2>4, <2>f, <3>1, Sizes
    <3>3. ~core.busy \/ ~HasData(host) => f = 0 /\ h.pio_count = Mci!Total
      <4> SUFFICES ASSUME ~core.busy \/ ~HasData(host)
                   PROVE  f = 0 /\ h.pio_count = Mci!Total
        OBVIOUS
      <4>1. hw.fifo = 0 /\ host.pio_count = Mci!Total
        BY <1>i, <2>1 DEF Leftover
      <4>2. host.pio_words = 0 /\ Ahead(host) = 0
        BY <1>b, <1>n, <2>1, <4>1, Sizes
      <4> QED BY <1>b, <1>n, <2>4, <2>f, <3>1, <4>1, <4>2, Sizes
    <3> QED BY <1>0, <2>1, <2>4, <2>5, <2>7, <2>8, <3>1, <3>2, <3>3, MovedStep
  <2> QED BY <2>3, <2>9, <2>10
<1> QED BY <1>1, <1>2
\* finalize_request: to the stop command, or back to the core.
LEMMA FinalizeStep ==
    ASSUME MciIInv, Mci!Finalize
    PROVE  MciIInv'
<1>i. MciTypes /\ Bounds /\ Busy /\ Leftover /\ Flow /\ DataPhase /\ StopPhase /\ Turn /\ Outcome
  BY DEF MciIInv
<1>t. /\ host \in HostType /\ hw \in HwType /\ tasklet \in TaskletType /\ core \in CoreType
      /\ oops \in BOOLEAN /\ hw.fifo \in Int /\ hw.bus \in Int /\ host.pio_count \in Int
      /\ host.pio_active \in {"none", "read", "write"} /\ host.data_err \in BOOLEAN
      /\ host.cmd_err \in BOOLEAN /\ irq_off \in Int
  BY <1>i DEF MciTypes, TaskletType, CoreType, HostType, HwType, Busy
<1>0. /\ tasklet.pc = "check" /\ host.complete_what = "FINALIZE"
      /\ ~(host.pio_active # "none" /\ host.mrq.data \notin {"read", "write"})
      /\ tasklet' = [tasklet EXCEPT !.pc = "idle"] /\ UNCHANGED <<taken, oops>>
  BY DEF Mci!Finalize, Mci!Unfinished, Mci!NONE
<1>b. core.busy /\ irq_off = 0 /\ host.mrq.data \in {"none", "read", "write"} /\ "added" \in taken
  BY <1>0, <1>i, <1>t DEF Busy, CoreType
<1>1. tasklet' \in TaskletType /\ tasklet'.pc = "idle"
  BY <1>0, <1>t DEF TaskletType
<1> DEFINE data == Mci!Cmd.data # "none"
           e == host.data_err \/ Mci!Unfinished \/ (data /\ host.cmd_err)
           h == [host EXCEPT !.data_err = e]
           has_data == host.mrq.data # "none"
           W == Mci!Cleaned(hw)
<1>2. /\ data = (~host.cmd_is_stop /\ has_data)
      /\ e \in BOOLEAN
      /\ host.data_err => e
      /\ host.pio_active # "none" => e
      /\ data /\ host.cmd_err => e
      /\ has_data = HasData(host) /\ has_data \in BOOLEAN
  <2>1. host.cmd_is_stop \in BOOLEAN
    BY <1>t DEF HostType
  <2>2. data = (~host.cmd_is_stop /\ has_data)
    BY <2>1 DEF Mci!Cmd, Mci!StopCmd, Mci!NONE
  <2>3. Mci!Unfinished = (host.pio_active # "none")
    BY DEF Mci!Unfinished, Mci!NONE
  <2>4. has_data = HasData(host)
    BY <1>b DEF HasData
  <2> DEFINE u == Mci!Unfinished
             k == data
  <2>5. u \in BOOLEAN /\ k \in BOOLEAN
    BY <2>3
  <2> HIDE DEF u, k
  <2>6. e = (host.data_err \/ u \/ (k /\ host.cmd_err))
    BY DEF u, k
  <2>7. /\ e \in BOOLEAN /\ (host.data_err => e) /\ (u => e) /\ (k /\ host.cmd_err => e)
    BY <1>t, <2>5, <2>6
  <2> QED BY <2>2, <2>3, <2>4, <2>7 DEF u, k
<1>3. CASE data /\ host.mrq.stop
  <2>0. /\ host' = [h EXCEPT !.cmd_is_stop = TRUE, !.complete_what = "RSPFIN", !.cmd_err = FALSE]
        /\ hw' = [W EXCEPT !.csta = {}, !.dsta = {}, !.imsk = {"cmd"}, !.cmd = "start"]
        /\ UNCHANGED <<irq_off, core>>
    BY <1>3 DEF Mci!Finalize, Mci!NONE
  <2>d. HasData(host) /\ ~host.cmd_is_stop
    BY <1>2, <1>3
  <2> DEFINE yes == TRUE
             no == FALSE
             next == "RSPFIN"
  <2>1. host' = [host EXCEPT !.data_err = e, !.cmd_is_stop = yes, !.complete_what = next, !.cmd_err = no]
    BY <2>0
  <2>2. /\ yes \in BOOLEAN /\ yes /\ no \in BOOLEAN
        /\ next \in {"none", "CMDSENT", "RSPFIN", "XFERFINISH", "XFERFINISH_RSPFIN", "FINALIZE"}
    OBVIOUS
  <2> DEFINE none == "none"
             pr == host.prescaler
             cu == hw.cut \/ hw.data # "none"
             mt == {}
             cm == {"cmd"}
             go == "start"
  <2>3. hw' = [hw EXCEPT !.data = none, !.pre = pr, !.cut = cu,
                         !.csta = mt, !.dsta = mt, !.imsk = cm, !.cmd = go]
    <3>1. W = [hw EXCEPT !.imsk = {}, !.cmd = "none", !.data = "none", !.pre = host.prescaler,
                         !.cut = hw.cut \/ hw.data # "none"]
      BY DEF Mci!Cleaned, Mci!NONE
    <3> HIDE DEF W, cu
    <3>2. W = [hw EXCEPT !.imsk = {}, !.cmd = "none", !.data = "none", !.pre = host.prescaler,
                         !.cut = cu]
      BY <3>1 DEF cu
    <3> QED BY <2>0, <3>2
  <2>4. /\ none \in {"none", "read", "write"} /\ pr \in Int /\ cu \in BOOLEAN
        /\ mt \in SUBSET {"CMDSENT", "RSPFIN", "CMDTIMEOUT"} /\ mt \in SUBSET {"XFERFINISH", "fault"}
        /\ cm \in SUBSET {"cmd", "data", "rx", "tx"} /\ go \in {"none", "start", "wait", "over", "dead"}
    BY <1>t DEF HostType, HwType
  <2> HIDE DEF yes, no, next, none, pr, cu, mt, cm, go, e, data, has_data
  <2>5. host' \in HostType
    BY <1>2, <1>t, <2>1, <2>2 DEF HostType
  <2>6. /\ host'.mrq = host.mrq /\ host'.pio_active = host.pio_active
        /\ host'.pio_words = host.pio_words /\ host'.pio_sgptr = host.pio_sgptr
        /\ host'.pio_count = host.pio_count /\ host'.prescaler = host.prescaler
    BY <1>t, <2>1 DEF HostType
  <2>7. host'.data_err = e /\ host'.cmd_is_stop = yes /\ host'.complete_what = next
    BY <1>t, <2>1 DEF HostType
  <2>8. hw' \in HwType
    BY <1>t, <2>3, <2>4 DEF HwType
  <2>9. hw'.fifo = hw.fifo /\ hw'.bus = hw.bus /\ hw'.pre = pr /\ hw'.data = none /\ hw'.dsta = mt
    BY <1>t, <2>3 DEF HwType
  <2>10. host'.cmd_is_stop /\ host'.complete_what = "RSPFIN" /\ hw'.data = "none"
         /\ hw'.dsta = {} /\ hw'.pre = host'.prescaler
    BY <2>2, <2>6, <2>7, <2>9 DEF none, mt, next, pr
  <2>11. MciTypes'
    BY <1>0, <1>1, <1>t, <2>0, <2>5, <2>8 DEF MciTypes, TaskletType, CoreType
  <2>12. Bounds'
    BY <1>i, <2>6, <2>9, <2>10 DEF Bounds, InBounds, Ahead
  <2>13. Busy' /\ Turn' /\ Outcome'
    BY <1>0, <1>1, <1>i, <2>0, <2>6, <2>10 DEF Busy, Turn, Outcome
  <2>14. Leftover' /\ Flow'
    BY <1>b, <1>i, <2>0, <2>6, <2>9, <2>10, <2>d DEF Leftover, Flow, HasData
  <2>15. DataPhase'
    BY <2>10 DEF DataPhase
  <2>16. StopPhase'
    <3>1. host.pio_active # "none" => hw.bus = Mci!Total
      BY <1>0, <1>b, <1>i, <2>d DEF DataPhase
    <3>2. e \/ (host.pio_active = "none" /\ host.pio_count = Mci!Total /\ hw.bus = Mci!Total)
      BY <1>0, <1>2, <1>3, <1>b, <1>i, <2>d DEF DataPhase
    <3> QED BY <2>6, <2>7, <2>9, <2>10, <3>1, <3>2 DEF StopPhase
  <2> QED BY <2>11, <2>12, <2>13, <2>14, <2>15, <2>16 DEF MciIInv
<1>4. CASE ~(data /\ host.mrq.stop)
  <2> DEFINE null == Mci!NoReq
             none == "none"
             f == IF has_data /\ h.data_err THEN 0 ELSE hw.fifo
             ok == ~h.data_err /\ ~h.cmd_err
             wh == has_data => h.data_err \/ (h.pio_count = Mci!Total /\ hw.bus = Mci!Total)
             no == FALSE
  <2>0. /\ host' = [h EXCEPT !.complete_what = none, !.mrq = null]
        /\ hw' = [W EXCEPT !.fifo = IF has_data /\ h.data_err THEN 0 ELSE @]
        /\ irq_off' = irq_off + 1
        /\ core' = [core EXCEPT !.busy = no, !.ok = ok, !.whole = wh]
    BY <1>4 DEF Mci!Finalize, Mci!NONE, Mci!Finished
  <2>h. /\ h.data_err = e /\ h.cmd_err = host.cmd_err /\ h.pio_count = host.pio_count
    BY <1>t DEF HostType
  <2>1. host' = [host EXCEPT !.data_err = e, !.complete_what = none, !.mrq = null]
    BY <2>0
  <2>2. /\ none \in {"none", "CMDSENT", "RSPFIN", "XFERFINISH", "XFERFINISH_RSPFIN", "FINALIZE"}
        /\ null \in Mci!Requests \cup {Mci!NoReq}
    OBVIOUS
  <2> DEFINE quiet == "none"
             pr == host.prescaler
             cu == hw.cut \/ hw.data # "none"
             mt == {}
             idle == "none"
  <2>3. hw' = [hw EXCEPT !.imsk = mt, !.cmd = idle, !.data = quiet, !.pre = pr, !.cut = cu, !.fifo = f]
    <3>1. W = [hw EXCEPT !.imsk = {}, !.cmd = "none", !.data = "none", !.pre = host.prescaler,
                         !.cut = hw.cut \/ hw.data # "none"]
      BY DEF Mci!Cleaned, Mci!NONE
    <3>2. W.fifo = hw.fifo
      BY <1>t, <3>1 DEF HwType
    <3>3. hw' = [W EXCEPT !.fifo = f]
      <4> HIDE DEF W, e, has_data
      <4> QED BY <2>0, <3>2
    <3> HIDE DEF W, cu, f
    <3>4. W = [hw EXCEPT !.imsk = {}, !.cmd = "none", !.data = "none", !.pre = host.prescaler,
                         !.cut = cu]
      BY <3>1 DEF cu
    <3> QED BY <3>3, <3>4
  <2>4. /\ quiet \in {"none", "read", "write"} /\ pr \in Int /\ cu \in BOOLEAN
        /\ mt \in SUBSET {"cmd", "data", "rx", "tx"} /\ idle \in {"none", "start", "wait", "over", "dead"}
        /\ f \in Int
    BY <1>t DEF HostType, HwType
  <2>5. /\ ok \in BOOLEAN /\ wh \in BOOLEAN /\ no \in BOOLEAN /\ ~no
        /\ ok => ~e /\ ~host.cmd_err
        /\ ~e /\ wh => (has_data => host.pio_count = Mci!Total /\ hw.bus = Mci!Total)
        /\ ~e /\ (has_data => host.pio_count = Mci!Total /\ hw.bus = Mci!Total) => wh
        /\ f = (IF has_data /\ e THEN 0 ELSE hw.fifo)
    BY <2>h
  <2>6. \* What ends without an error has moved everything.
        has_data /\ ~e =>
          /\ host.pio_active = "none"
          /\ hw.fifo = 0
          /\ host.pio_count = Mci!Total /\ hw.bus = Mci!Total
    <3> HIDE DEF e, data, has_data
    <3> SUFFICES ASSUME has_data, ~e
                 PROVE  /\ host.pio_active = "none"
                        /\ hw.fifo = 0
                        /\ host.pio_count = Mci!Total /\ hw.bus = Mci!Total
      OBVIOUS
    <3>1. host.pio_active = "none" /\ ~host.data_err /\ HasData(host)
      BY <1>2
    <3>2. host.pio_count = Mci!Total /\ hw.bus = Mci!Total
      <4>1. CASE host.cmd_is_stop
        BY <1>b, <1>i, <3>1, <4>1 DEF StopPhase
      <4>2. CASE ~host.cmd_is_stop
        <5>1. ~host.cmd_err
          BY <1>2, <4>2
        <5> QED BY <1>0, <1>b, <1>i, <3>1, <4>2, <5>1 DEF DataPhase
      <4> QED BY <4>1, <4>2
    <3>3. hw.fifo = 0
      <4>1. \/ hw.bus = hw.fifo + host.pio_count
            \/ host.pio_count = hw.fifo + hw.bus
        BY <1>b, <1>i, <3>1 DEF Flow, HasData
      <4> QED BY <1>t, <3>2, <4>1
    <3> QED BY <3>1, <3>2, <3>3
  <2> HIDE DEF null, none, f, ok, wh, no, quiet, pr, cu, mt, idle, e, data, has_data
  <2>7. host' \in HostType
    BY <1>2, <1>t, <2>1, <2>2 DEF HostType
  <2>8. /\ host'.cmd_is_stop = host.cmd_is_stop /\ host'.pio_active = host.pio_active
        /\ host'.pio_words = host.pio_words /\ host'.pio_sgptr = host.pio_sgptr
        /\ host'.pio_count = host.pio_count /\ host'.prescaler = host.prescaler
    BY <1>t, <2>1 DEF HostType
  <2>9. host'.complete_what = none
    BY <1>t, <2>1 DEF HostType
  <2>10. hw' \in HwType
    BY <1>t, <2>3, <2>4 DEF HwType
  <2>11. hw'.fifo = f /\ hw'.bus = hw.bus /\ hw'.pre = pr /\ hw'.data = quiet /\ hw'.dsta = hw.dsta
    BY <1>t, <2>3 DEF HwType
  <2>12. core' \in CoreType
    BY <1>t, <2>0, <2>5 DEF CoreType
  <2>13. core'.busy = no /\ core'.ok = ok /\ core'.whole = wh
    BY <1>t, <2>0 DEF CoreType
  <2>14. ~core'.busy /\ (core'.ok => core'.whole)
    <3>1. ok => wh
      BY <2>5, <2>6
    <3> QED BY <2>5, <2>13, <3>1
  <2>15. host'.complete_what = "none" /\ hw'.data = "none" /\ hw'.pre = host'.prescaler
    BY <2>8, <2>9, <2>11 DEF none, quiet, pr
  <2>16. irq_off' = 1
    BY <1>b, <2>0
  <2>17. MciTypes'
    BY <1>0, <1>1, <1>t, <2>7, <2>10, <2>12 DEF MciTypes, TaskletType, CoreType
  <2>18. f = 0
    <3>1. CASE ~has_data
      <4>1. f = hw.fifo /\ ~HasData(host)
        BY <1>2, <2>5, <3>1
      <4> QED BY <1>i, <4>1 DEF Leftover
    <3>2. CASE has_data /\ e
      BY <2>5, <3>2
    <3>3. CASE has_data /\ ~e
      BY <2>5, <2>6, <3>3
    <3> QED BY <1>2, <3>1, <3>2, <3>3
  <2>19. Bounds'
    BY <1>i, <2>8, <2>11, <2>18, Sizes DEF Bounds, InBounds, Ahead
  <2>20. Busy' /\ Turn' /\ Outcome'
    BY <1>0, <1>1, <1>i, <2>14, <2>15, <2>16 DEF Busy, Turn, Outcome
  <2>21. Leftover'
    <3>1. host.pio_active = "read" => host.pio_words > 0
      BY <1>0, <1>i DEF Turn
    <3>2. host.pio_active = "write" => host.pio_count = Mci!Total
      <4> SUFFICES ASSUME host.pio_active = "write"
                   PROVE  host.pio_count = Mci!Total
        OBVIOUS
      <4>1. HasData(host)
        BY <1>0 DEF HasData
      <4>2. host.mrq.data = "write" /\ host.pio_count = hw.fifo + hw.bus
        BY <1>b, <1>i, <4>1 DEF Flow
      <4>3. hw.bus = Mci!Total
        BY <1>0, <1>b, <1>i, <4>1 DEF DataPhase, StopPhase
      <4>4. hw.fifo >= 0 /\ host.pio_count <= Mci!Total
        BY <1>i, Sizes DEF Bounds, InBounds
      <4> QED BY <1>t, <4>2, <4>3, <4>4, Sizes
    <3> QED BY <2>8, <2>11, <2>15, <2>18, <3>1, <3>2 DEF Leftover
  <2>22. Flow' /\ DataPhase' /\ StopPhase'
    BY <2>14 DEF Flow, DataPhase, StopPhase
  <2> QED BY <2>17, <2>19, <2>20, <2>21, <2>22 DEF MciIInv
<1> QED BY <1>3, <1>4

\* A probe that fails unwinds what it has taken, whichever step it fails in.
LEMMA ProbeStep ==
    ASSUME MciIInv, Mci!s3cmci_probe
    PROVE  MciIInv'
<1>i. MciTypes /\ Bounds /\ Busy /\ Leftover /\ Flow /\ DataPhase /\ StopPhase /\ Turn /\ Outcome
  BY DEF MciIInv
<1>t. host \in HostType /\ hw \in HwType /\ core \in CoreType
  BY <1>i DEF MciTypes, CoreType
<1>0. UNCHANGED <<irq_off, tasklet, core, oops>> /\ taken = {}
  BY DEF Mci!s3cmci_probe
<1>b. ~core.busy
  BY <1>0, <1>i DEF Busy
<1>f. hw.fifo = 0 /\ hw.data = "none"
  BY <1>b, <1>i DEF Leftover
<1>1. CASE /\ taken' = {Mci!Steps[i] : i \in DOMAIN Mci!Steps}
           /\ host' = [Mci!Host0 EXCEPT !.prescaler = Mci!Prescaler(0)]
           /\ hw' = [hw EXCEPT !.pre = Mci!Prescaler(0)]
  <2>1. "added" \in taken'
    <3>1. 9 \in DOMAIN Mci!Steps /\ Mci!Steps[9] = "added"
      BY DEF Mci!Steps
    <3> QED BY <1>1, <3>1
  <2> DEFINE p == Mci!Prescaler(0)
             Z == Mci!Host0
  <2>p. p \in Int
    BY PrescalerIs
  <2>z. /\ Z \in HostType /\ Z.complete_what = "none" /\ Z.pio_active = "none"
        /\ Z.pio_words = 0 /\ Z.pio_sgptr = 0 /\ Z.pio_count = 0
    <3>1. Z = [mrq |-> Mci!NoReq, cmd_is_stop |-> FALSE, complete_what |-> "none",
               pio_active |-> "none", pio_words |-> 0, pio_sgptr |-> 0, pio_count |-> 0,
               cmd_err |-> FALSE, data_err |-> FALSE, prescaler |-> 0]
      BY DEF Mci!Host0, Mci!NONE
    <3>2. Z \in HostType
      BY <3>1 DEF HostType
    <3> QED BY <3>1, <3>2
  <2>e. host' = [Z EXCEPT !.prescaler = p] /\ hw' = [hw EXCEPT !.pre = p]
    BY <1>1
  <2> HIDE DEF p, Z
  <2>2. /\ host' \in HostType /\ host'.complete_what = Z.complete_what
        /\ host'.pio_active = Z.pio_active /\ host'.pio_words = Z.pio_words
        /\ host'.pio_sgptr = Z.pio_sgptr /\ host'.pio_count = Z.pio_count /\ host'.prescaler = p
    BY <2>e, <2>p, <2>z DEF HostType
  <2>3. /\ hw' \in HwType /\ hw'.fifo = hw.fifo /\ hw'.data = hw.data /\ hw'.bus = hw.bus
        /\ hw'.pre = p /\ hw'.dsta = hw.dsta
    BY <1>t, <2>e, <2>p DEF HwType
  <2>4. MciTypes'
    BY <1>0, <1>i, <2>2, <2>3 DEF MciTypes
  <2>5. Bounds'
    BY <1>i, <2>2, <2>3, <2>z, Sizes DEF Bounds, InBounds
  <2>6. Busy' /\ Turn' /\ Outcome'
    BY <1>0, <1>b, <1>i, <2>1, <2>2, <2>3, <2>z DEF Busy, Turn, Outcome
  <2>7. Leftover' /\ Flow' /\ DataPhase' /\ StopPhase'
    BY <1>0, <1>b, <1>f, <2>2, <2>3, <2>z DEF Leftover, Flow, DataPhase, StopPhase
  <2> QED BY <2>4, <2>5, <2>6, <2>7 DEF MciIInv
<1>2. CASE /\ \E i \in DOMAIN Mci!Steps :
                taken' = {Mci!Steps[j] : j \in 1 .. i - 1}
                            \ {Mci!Unwind[j] : j \in Mci!Label[Mci!Steps[i]] .. Len(Mci!Unwind)}
           /\ UNCHANGED <<host, hw>>
  <2>1. PICK i \in DOMAIN Mci!Steps :
                taken' = {Mci!Steps[j] : j \in 1 .. i - 1}
                            \ {Mci!Unwind[j] : j \in Mci!Label[Mci!Steps[i]] .. Len(Mci!Unwind)}
    BY <1>2
  <2>2. i \in 1 .. 9 /\ Len(Mci!Unwind) = 8
    BY <2>1 DEF Mci!Steps, Mci!Unwind
  <2>3. Mci!Label[Mci!Steps[i]] = 10 - i
    <3>1. i \in {1, 2, 3, 4, 5, 6, 7, 8, 9}
      BY <2>2
    <3> QED BY <3>1 DEF Mci!Label, Mci!Steps
  <2>4. \A j \in 1 .. 8 : Mci!Steps[j] = Mci!Unwind[9 - j]
    <3> SUFFICES ASSUME NEW j \in 1 .. 8
                 PROVE  Mci!Steps[j] = Mci!Unwind[9 - j]
      OBVIOUS
    <3>1. j \in {1, 2, 3, 4, 5, 6, 7, 8}
      OBVIOUS
    <3> QED BY <3>1 DEF Mci!Steps, Mci!Unwind
  <2>5. \A j \in 1 .. i - 1 : j \in 1 .. 8 /\ 9 - j \in 10 - i .. 8
    BY <2>2
  <2>6. taken' = {}
    BY <2>1, <2>2, <2>3, <2>4, <2>5
  <2>7. MciTypes' /\ Bounds' /\ Busy'
    BY <1>0, <1>2, <1>b, <1>i, <2>6 DEF MciTypes, Bounds, InBounds, Ahead, Busy
  <2>8. /\ Leftover' /\ Flow' /\ DataPhase' /\ StopPhase' /\ Turn' /\ Outcome'
    BY <1>0, <1>2, <1>i DEF Leftover, Flow, DataPhase, StopPhase, Turn, Outcome, HasData
  <2> QED BY <2>7, <2>8 DEF MciIInv
<1> QED BY <1>1, <1>2 DEF Mci!s3cmci_probe

LEMMA RemoveStep ==
    ASSUME MciIInv, Mci!s3cmci_remove
    PROVE  MciIInv'
<1>i. MciTypes /\ Bounds /\ Busy /\ Leftover /\ Flow /\ DataPhase /\ StopPhase /\ Turn /\ Outcome
  BY DEF MciIInv
<1>0. UNCHANGED <<host, hw, irq_off, tasklet, core, oops>> /\ taken' = {} /\ ~core.busy
  BY DEF Mci!s3cmci_remove
<1>1. MciTypes' /\ Bounds' /\ Busy'
  BY <1>0, <1>i DEF MciTypes, Bounds, InBounds, Ahead, Busy
<1>2. /\ Leftover' /\ Flow' /\ DataPhase' /\ StopPhase' /\ Turn' /\ Outcome'
  BY <1>0, <1>i DEF Leftover, Flow, DataPhase, StopPhase, Turn, Outcome, HasData
<1> QED BY <1>1, <1>2 DEF MciIInv

LEMMA MciStep == MciIInv /\ Mci!Next => MciIInv'
<1> SUFFICES ASSUME MciIInv, Mci!Next PROVE MciIInv'
  OBVIOUS
<1>1. CASE \E r \in Mci!Requests : Mci!s3cmci_request(r) \/ Mci!RequestOver(r)
  BY <1>1, RequestStep, OverStep
<1>2. CASE \E c \in Clocks : Mci!s3cmci_set_ios(c)
  BY <1>2, IosStep
<1>3. CASE Mci!IrqNothing \/ Mci!IrqFail \/ Mci!IrqClose \/ Mci!IrqNote
  BY <1>3, QuietStep, IrqStep
<1>4. CASE Mci!Tasklet
  BY <1>4, TaskletPioStep, QuietStep, FinalizeStep DEF Mci!Tasklet
<1>5. CASE Mci!s3cmci_probe \/ Mci!s3cmci_remove
  BY <1>5, ProbeStep, RemoveStep
<1>6. CASE Mci!HwCmd \/ Mci!HwTimeout \/ Mci!HwData \/ Mci!HwFault
  BY <1>6, QuietStep, HwDataStep
<1> QED BY <1>1, <1>2, <1>3, <1>4, <1>5, <1>6 DEF Mci!Next

HIDE MciAssumption

-----------------------------------------------------------------------------
(* The CS8900.  What process context has left to do says what the registers *)
(* hold, as long as no interrupt moved PP_Address between the halves of an  *)
(* access.                                                                  *)
USE ChipAssumption

ChipTypes ==
    /\ chipDev \in {"absent", "down", "starting", "up", "stopping"}
    /\ queue \in {"awake", "stopped"} /\ txBuf \in {"free", "busy"} /\ txlen \in BOOLEAN
    /\ isq \in Seq(Chip!Events) /\ Len(isq) <= MaxIsq
    /\ line \in [line : BOOLEAN, edge : BOOLEAN, handler : BOOLEAN]
    /\ mode \in BOOLEAN /\ hit \in BOOLEAN

Read(r) == <<r, "read">>
Mode(on) == <<"RxCTL", IF on THEN "on" ELSE "off">>
Config(r) == <<r, "cfg">>
Zero(r) == <<r, "zero">>

\* The accesses that can be left.
Progs ==
    /\ chipDev \in {"absent", "down"} => prog = <<>>
    /\ chipDev = "up" => prog \in {<<>>, <<Mode(mode)>>, <<Read("RxCTL"), Mode(mode)>>}
    /\ chipDev = "starting" =>
         prog \in {<<>>, <<Config("BusCTL")>>, <<Read("BusCTL"), Config("BusCTL")>>,
                   <<Config("RxCTL"), Read("BusCTL"), Config("BusCTL")>>,
                   <<Read("RxCTL"), Config("RxCTL"), Read("BusCTL"), Config("BusCTL")>>}
    /\ chipDev = "stopping" =>
         prog \in {<<>>, <<Zero("RxCTL")>>, <<Zero("BusCTL"), Zero("RxCTL")>>}
    /\ half => prog # <<>> /\ (hit \/ addr = Head(prog)[1])

Off ==
    chipDev \in {"absent", "down", "starting"} => queue = "stopped" /\ ~line.handler /\ ~mode

\* What was read is what the register still holds.
Fresh ==
    /\ prog # <<>> /\ Head(prog) \in {Mode(mode), Config("RxCTL")} => val = regs.RxCTL
    /\ prog # <<>> /\ Head(prog) = Config("BusCTL") => val = regs.BusCTL

Registers ==
    /\ DOMAIN regs = {"RxCTL", "BusCTL"}
    /\ Fresh
    /\ chipDev = "up" =>
         /\ "RxOKA" \in regs.RxCTL /\ "EnableRQ" \in regs.BusCTL
         /\ prog = <<>> => (mode <=> "PromiscuousA" \in regs.RxCTL)
    /\ chipDev \in {"absent", "down", "starting"} => "PromiscuousA" \notin regs.RxCTL
    /\ chipDev = "starting" =>
         /\ Len(prog) <= 2 => "RxOKA" \in regs.RxCTL
         /\ prog = <<>> => "EnableRQ" \in regs.BusCTL
    /\ chipDev = "stopping" /\ prog = <<>> => regs.RxCTL = {}

ChipIInv ==
    /\ ChipTypes /\ Progs /\ Off
    /\ line.line => line.edge
    /\ ~hit => Registers

LEMMA ChipInit == Chip!Init => ChipIInv
<1> SUFFICES ASSUME Chip!Init PROVE ChipIInv
  OBVIOUS
<1>1. /\ chipDev = "absent" /\ prog = <<>> /\ half = FALSE
      /\ regs = [RxCTL |-> {}, BusCTL |-> {}]
      /\ isq = <<>> /\ line = [line |-> FALSE, edge |-> FALSE, handler |-> FALSE]
      /\ queue = "stopped" /\ txBuf = "free" /\ txlen = FALSE
      /\ mode = FALSE /\ hit = FALSE
  BY DEF Chip!Init
<1>2. ChipTypes
  <2>1. isq \in Seq(Chip!Events) /\ Len(isq) <= MaxIsq
    <3>1. isq = <<>> /\ Len(isq) = 0
      BY <1>1
    <3> QED BY <3>1
  <2> QED BY <1>1, <2>1 DEF ChipTypes
<1>4. Progs /\ Off /\ (line.line => line.edge)
  BY <1>1 DEF Progs, Off
<1>3. Registers
  BY <1>1 DEF Registers, Fresh
<1> QED BY <1>2, <1>3, <1>4 DEF ChipIInv

LEMMA ChipSafe == ChipIInv => Chip!Inv
<1> SUFFICES ASSUME ChipIInv PROVE Chip!Inv
  OBVIOUS
<1>1. Chip!TypeOK
  BY DEF ChipIInv, ChipTypes, Chip!TypeOK
<1>2. Chip!ModeIsSet
  BY DEF ChipIInv, Registers, Chip!ModeIsSet
<1>3. Chip!QueueOffWhenDown /\ Chip!NoEventStuck
  BY DEF ChipIInv, Off, Chip!QueueOffWhenDown, Chip!NoEventStuck
<1> QED BY <1>1, <1>2, <1>3 DEF Chip!Inv

\* An edge is kept for a line that goes up.
LEMMA EdgeKept ==
    ASSUME ChipIInv, NEW q, NEW r
    PROVE  /\ Chip!Raised(q, r) \in [line : BOOLEAN, edge : BOOLEAN, handler : BOOLEAN]
           /\ Chip!Raised(q, r).line => Chip!Raised(q, r).edge
           /\ Chip!Raised(q, r).handler = line.handler
<1> DEFINE b == Chip!Line(q, r)
           e == line.edge \/ (b /\ ~line.line)
<1>1. b \in BOOLEAN /\ e \in BOOLEAN
  BY DEF Chip!Line, ChipIInv, ChipTypes
<1>2. Chip!Raised(q, r) = [line EXCEPT !.line = b, !.edge = e]
  BY DEF Chip!Raised
<1>3. b => e
  BY DEF ChipIInv
<1> HIDE DEF b, e
<1> QED BY <1>1, <1>2, <1>3 DEF ChipIInv, ChipTypes

\* Process context's part of the state.
Context == <<prog, half, val, addr, regs, mode, hit>>

LEMMA ContextKept ==
    ASSUME ChipIInv, UNCHANGED Context, UNCHANGED chipDev
    PROVE  Progs' /\ (~hit' => Registers')
<1>1. Progs /\ (~hit => Registers)
  BY DEF ChipIInv
<1>2. Progs'
  BY <1>1 DEF Progs, Context
<1>3. ~hit' => Registers'
  BY <1>1 DEF Registers, Fresh, Context
<1> QED BY <1>2, <1>3

LEMMA Lists ==
    \A a, b, c, d :
        /\ Head(<<a>>) = a /\ Tail(<<a>>) = <<>> /\ <<a>> # <<>>
        /\ Head(<<a, b>>) = a /\ Tail(<<a, b>>) = <<b>> /\ <<a, b>> # <<>>
        /\ Head(<<a, b, c>>) = a /\ Tail(<<a, b, c>>) = <<b, c>>
        /\ Head(<<a, b, c, d>>) = a /\ Tail(<<a, b, c, d>>) = <<b, c, d>>
        /\ Len(<<>>) = 0 /\ Len(<<a>>) = 1 /\ Len(<<a, b>>) = 2 /\ Len(<<a, b, c>>) = 3
OBVIOUS

\* An access that no interrupt disturbed is of the register it was meant for.
LEMMA AccessStep ==
    ASSUME ChipIInv, Chip!Access
    PROVE  Progs' /\ (~hit' => Registers')
<1>t. ChipTypes /\ Progs /\ Off /\ (~hit => Registers)
  BY DEF ChipIInv
<1>1. /\ half /\ prog' = Tail(prog) /\ half' = FALSE /\ prog # <<>>
      /\ UNCHANGED <<chipDev, addr, mode, hit>>
  BY <1>t DEF Chip!Access, Progs
<1>r. ASSUME ~hit, NEW r \in {"RxCTL", "BusCTL"}, Head(prog) = Read(r)
      PROVE  regs' = regs /\ val' = regs[r]
  <2>1. addr = r /\ Head(prog)[2] = "read" /\ addr \in DOMAIN regs
    BY <1>r, <1>1, <1>t DEF Progs, Registers, Read
  <2> QED BY <2>1 DEF Chip!Access
<1>w. ASSUME ~hit, NEW r \in {"RxCTL", "BusCTL"}, NEW op \in {"on", "off", "cfg", "zero"},
             Head(prog) = <<r, op>>
      PROVE  /\ DOMAIN regs' = {"RxCTL", "BusCTL"}
             /\ regs'[r] = Chip!Written(op)
             /\ \A q \in {"RxCTL", "BusCTL"} \ {r} : regs'[q] = regs[q]
  <2>1. addr = r /\ Head(prog)[2] = op /\ op # "read" /\ DOMAIN regs = {"RxCTL", "BusCTL"}
    BY <1>w, <1>1, <1>t DEF Progs, Registers
  <2>2. regs' = [regs EXCEPT ![r] = Chip!Written(op)]
    BY <2>1 DEF Chip!Access
  <2> QED BY <2>1, <2>2
<1>2. CASE chipDev = "up"
  <2>1. CASE prog = <<Mode(mode)>>
    <3>1. Head(prog) = Mode(mode) /\ prog' = <<>>
      BY <1>1, <2>1, Lists
    <3>2. Progs'
      BY <1>1, <1>2, <3>1 DEF Progs
    <3>3. ASSUME ~hit PROVE Registers'
      <4>1. val = regs.RxCTL /\ "RxOKA" \in regs.RxCTL /\ "EnableRQ" \in regs.BusCTL
        BY <1>2, <1>1, <1>t, <3>1, <3>3 DEF Registers, Fresh
      <4>2. /\ DOMAIN regs' = {"RxCTL", "BusCTL"} /\ regs'.BusCTL = regs.BusCTL
            /\ regs'.RxCTL = Chip!Written(IF mode THEN "on" ELSE "off")
        BY <1>w, <3>1, <3>3 DEF Mode
      <4>3. regs'.RxCTL = IF mode THEN val \cup {"PromiscuousA"} ELSE val \ {"PromiscuousA"}
        BY <4>2 DEF Chip!Written
      <4> QED BY <1>1, <1>2, <1>t, <3>1, <4>1, <4>2, <4>3 DEF Registers, Fresh, ChipTypes
    <3> QED BY <1>1, <3>2, <3>3
  <2>2. CASE prog = <<Read("RxCTL"), Mode(mode)>>
    <3>1. Head(prog) = Read("RxCTL") /\ prog' = <<Mode(mode)>> /\ prog' # <<>> /\ Head(prog') = Mode(mode)
      BY <1>1, <2>2, Lists
    <3>2. Progs'
      BY <1>1, <1>2, <3>1 DEF Progs
    <3>3. ASSUME ~hit PROVE Registers'
      <4>1. regs' = regs /\ val' = regs.RxCTL
        BY <1>r, <3>1, <3>3
      <4>2. Mode(mode) # Config("BusCTL")
        BY DEF Mode, Config
      <4> QED BY <1>1, <1>2, <1>t, <3>1, <3>3, <4>1, <4>2 DEF Registers, Fresh
    <3> QED BY <1>1, <3>2, <3>3
  <2> QED BY <1>1, <1>2, <1>t, <2>1, <2>2 DEF Progs
<1>3. CASE chipDev = "starting"
  <2>1. CASE prog = <<Config("BusCTL")>>
    <3>1. Head(prog) = Config("BusCTL") /\ prog' = <<>> /\ Len(prog) = 1
      BY <1>1, <2>1, Lists
    <3>2. Progs'
      BY <1>1, <1>3, <3>1 DEF Progs
    <3>3. ASSUME ~hit PROVE Registers'
      <4>1. "RxOKA" \in regs.RxCTL /\ "PromiscuousA" \notin regs.RxCTL
        BY <1>3, <1>t, <3>1, <3>3 DEF Registers
      <4>2. /\ DOMAIN regs' = {"RxCTL", "BusCTL"} /\ regs'.RxCTL = regs.RxCTL
            /\ regs'.BusCTL = Chip!Written("cfg")
        BY <1>w, <3>1, <3>3 DEF Config
      <4>3. "EnableRQ" \in regs'.BusCTL
        BY <3>1, <4>2 DEF Chip!Written, Config
      <4> QED BY <1>1, <1>3, <3>1, <4>1, <4>2, <4>3 DEF Registers, Fresh
    <3> QED BY <1>1, <3>2, <3>3
  <2>2. CASE prog = <<Read("BusCTL"), Config("BusCTL")>>
    <3>1. /\ Head(prog) = Read("BusCTL") /\ prog' = <<Config("BusCTL")>> /\ prog' # <<>>
          /\ Head(prog') = Config("BusCTL") /\ Len(prog) = 2
      BY <1>1, <2>2, Lists
    <3>2. Progs'
      BY <1>1, <1>3, <3>1 DEF Progs
    <3>3. ASSUME ~hit PROVE Registers'
      <4>1. regs' = regs /\ val' = regs.BusCTL
        BY <1>r, <3>1, <3>3
      <4>2. Config("BusCTL") # Mode(mode) /\ Config("BusCTL") # Config("RxCTL")
        BY DEF Mode, Config
      <4> QED BY <1>1, <1>3, <1>t, <3>1, <3>3, <4>1, <4>2 DEF Registers, Fresh
    <3> QED BY <1>1, <3>2, <3>3
  <2>3. CASE prog = <<Config("RxCTL"), Read("BusCTL"), Config("BusCTL")>>
    <3>1. /\ Head(prog) = Config("RxCTL") /\ prog' = <<Read("BusCTL"), Config("BusCTL")>>
          /\ prog' # <<>> /\ Head(prog') = Read("BusCTL")
      BY <1>1, <2>3, Lists
    <3>2. Progs'
      BY <1>1, <1>3, <3>1 DEF Progs
    <3>3. ASSUME ~hit PROVE Registers'
      <4>1. val = regs.RxCTL /\ "PromiscuousA" \notin regs.RxCTL
        BY <1>1, <1>3, <1>t, <3>1, <3>3 DEF Registers, Fresh
      <4>2. /\ DOMAIN regs' = {"RxCTL", "BusCTL"} /\ regs'.BusCTL = regs.BusCTL
            /\ regs'.RxCTL = Chip!Written("cfg")
        BY <1>w, <3>1, <3>3 DEF Config
      <4>3. "RxOKA" \in regs'.RxCTL /\ "PromiscuousA" \notin regs'.RxCTL
        BY <3>1, <4>1, <4>2 DEF Chip!Written, Config
      <4>4. Read("BusCTL") \notin {Mode(mode), Config("RxCTL"), Config("BusCTL")}
        BY DEF Mode, Config, Read
      <4> QED BY <1>1, <1>3, <3>1, <4>2, <4>3, <4>4, Lists DEF Registers, Fresh
    <3> QED BY <1>1, <3>2, <3>3
  <2>4. CASE prog = <<Read("RxCTL"), Config("RxCTL"), Read("BusCTL"), Config("BusCTL")>>
    <3>1. /\ Head(prog) = Read("RxCTL")
          /\ prog' = <<Config("RxCTL"), Read("BusCTL"), Config("BusCTL")>>
          /\ prog' # <<>> /\ Head(prog') = Config("RxCTL") /\ Len(prog') = 3
      BY <1>1, <2>4, Lists
    <3>2. Progs'
      BY <1>1, <1>3, <3>1 DEF Progs
    <3>3. ASSUME ~hit PROVE Registers'
      <4>1. regs' = regs /\ val' = regs.RxCTL
        BY <1>r, <3>1, <3>3
      <4>2. Config("RxCTL") # Config("BusCTL")
        BY DEF Config
      <4> QED BY <1>1, <1>3, <1>t, <3>1, <3>3, <4>1, <4>2 DEF Registers, Fresh
    <3> QED BY <1>1, <3>2, <3>3
  <2> QED BY <1>1, <1>3, <1>t, <2>1, <2>2, <2>3, <2>4 DEF Progs
<1>4. CASE chipDev = "stopping"
  <2>1. CASE prog = <<Zero("RxCTL")>>
    <3>1. Head(prog) = Zero("RxCTL") /\ prog' = <<>>
      BY <1>1, <2>1, Lists
    <3>2. Progs'
      BY <1>1, <1>4, <3>1 DEF Progs
    <3>3. ASSUME ~hit PROVE Registers'
      <4>1. /\ DOMAIN regs' = {"RxCTL", "BusCTL"} /\ regs'.RxCTL = Chip!Written("zero")
        BY <1>w, <3>1, <3>3 DEF Zero
      <4>2. regs'.RxCTL = {}
        BY <4>1 DEF Chip!Written
      <4> QED BY <1>1, <1>4, <3>1, <4>1, <4>2 DEF Registers, Fresh
    <3> QED BY <1>1, <3>2, <3>3
  <2>2. CASE prog = <<Zero("BusCTL"), Zero("RxCTL")>>
    <3>1. /\ Head(prog) = Zero("BusCTL") /\ prog' = <<Zero("RxCTL")>> /\ prog' # <<>>
          /\ Head(prog') = Zero("RxCTL")
      BY <1>1, <2>2, Lists
    <3>2. Progs'
      BY <1>1, <1>4, <3>1 DEF Progs
    <3>3. ASSUME ~hit PROVE Registers'
      <4>1. DOMAIN regs' = {"RxCTL", "BusCTL"}
        BY <1>w, <3>1, <3>3 DEF Zero
      <4>2. Zero("RxCTL") \notin {Mode(mode), Config("RxCTL"), Config("BusCTL")}
        BY DEF Mode, Config, Zero
      <4> QED BY <1>1, <1>4, <3>1, <4>1, <4>2 DEF Registers, Fresh
    <3> QED BY <1>1, <3>2, <3>3
  <2> QED BY <1>1, <1>4, <1>t, <2>1, <2>2 DEF Progs
<1> QED BY <1>1, <1>2, <1>3, <1>4, <1>t DEF Progs, ChipTypes

LEMMA ChipStep ==
    ASSUME ChipIInv, Chip!Next
    PROVE  ChipIInv'
<1>t. ChipTypes /\ Progs /\ Off /\ (line.line => line.edge) /\ (~hit => Registers)
  BY DEF ChipIInv
<1>1. ASSUME NEW e \in Chip!Events, Chip!ChipEvent(e) PROVE ChipIInv'
  <2>1. /\ Len(isq) < MaxIsq /\ isq' = Append(isq, e) /\ line' = Chip!Raised(isq', regs)
        /\ txBuf' \in {"free", txBuf}
        /\ UNCHANGED <<chipDev, queue, txlen>> /\ UNCHANGED Context
    BY <1>1 DEF Chip!ChipEvent, Context
  <2>2. isq' \in Seq(Chip!Events) /\ Len(isq') <= MaxIsq
    BY <1>t, <2>1 DEF ChipTypes
  <2>3. ChipTypes' /\ Off' /\ (line'.line => line'.edge)
    BY <1>t, <2>1, <2>2, EdgeKept DEF ChipTypes, Off, Context
  <2> QED BY <2>1, <2>3, ContextKept DEF ChipIInv
<1>2. CASE Chip!cs8900_interrupt
  <2>1. /\ line.handler /\ isq' = <<>>
        /\ line' = [line EXCEPT !.edge = FALSE, !.line = FALSE]
        /\ queue' \in {"awake", queue} /\ txlen' \in BOOLEAN /\ hit' = (hit \/ half) /\ addr' = "ISQ"
        /\ UNCHANGED <<chipDev, prog, half, val, regs, txBuf, mode>>
    BY <1>2 DEF Chip!cs8900_interrupt, Chip!Left, Chip!Line
  <2>2. isq' \in Seq(Chip!Events) /\ Len(isq') <= MaxIsq
    <3>1. isq' = <<>> /\ Len(isq') = 0
      BY <2>1
    <3> QED BY <3>1
  <2>3. ChipTypes' /\ Off' /\ (line'.line => line'.edge)
    BY <1>t, <2>1, <2>2 DEF ChipTypes, Off
  <2>4. Progs'
    BY <1>t, <2>1 DEF Progs
  <2>5. ~hit' => Registers'
    BY <1>t, <2>1 DEF Registers, Fresh
  <2> QED BY <2>3, <2>4, <2>5 DEF ChipIInv
<1>3. CASE Chip!cs8900_send_start
  <2>1. /\ chipDev = "up" /\ prog = <<>> /\ queue' = "stopped" /\ txBuf' \in {"busy", txBuf}
        /\ txlen' \in {FALSE, txlen}
        /\ UNCHANGED <<chipDev, prog, half, val, regs, isq, line, mode, hit>>
    BY <1>3 DEF Chip!cs8900_send_start
  <2>2. ChipTypes' /\ Off'
    BY <1>t, <2>1 DEF ChipTypes, Off
  <2>3. Progs'
    BY <1>t, <2>1 DEF Progs
  <2>4. ~hit' => Registers'
    BY <1>t, <2>1 DEF Registers, Fresh
  <2> QED BY <1>t, <2>1, <2>2, <2>3, <2>4 DEF ChipIInv
<1>4. CASE Chip!SetTxlen \/ Chip!cs8900_transmit_timeout
  <2>1. /\ (queue' = queue \/ (queue' = "awake" /\ chipDev = "up")) /\ txlen' \in BOOLEAN
        /\ UNCHANGED <<chipDev, isq, line, txBuf>> /\ UNCHANGED Context
    BY <1>4 DEF Chip!SetTxlen, Chip!cs8900_transmit_timeout, Context
  <2>2. ChipTypes' /\ Off'
    BY <1>t, <2>1 DEF ChipTypes, Off, Context
  <2> QED BY <1>t, <2>1, <2>2, ContextKept DEF ChipIInv
<1>5. CASE Chip!Select
  <2>1. /\ prog # <<>> /\ addr' = Head(prog)[1] /\ half' = TRUE
        /\ UNCHANGED <<chipDev, prog, val, regs, isq, line, queue, txBuf, txlen, mode, hit>>
    BY <1>5 DEF Chip!Select
  <2>2. ChipTypes' /\ Off' /\ Progs'
    BY <1>t, <2>1 DEF ChipTypes, Off, Progs
  <2>3. ~hit' => Registers'
    BY <1>t, <2>1 DEF Registers, Fresh
  <2> QED BY <1>t, <2>1, <2>2, <2>3 DEF ChipIInv
<1>6. CASE Chip!Access
  <2>1. /\ half /\ prog' = Tail(prog) /\ half' = FALSE
        /\ UNCHANGED <<chipDev, addr, isq, queue, txBuf, txlen, mode, hit>>
    BY <1>6 DEF Chip!Access
  <2>2. line' = line \/ line' = Chip!Raised(isq, regs')
    BY <1>6 DEF Chip!Access
  <2>3. /\ line' \in [line : BOOLEAN, edge : BOOLEAN, handler : BOOLEAN]
        /\ line'.line => line'.edge
        /\ line'.handler = line.handler
    BY <1>t, <2>2, EdgeKept DEF ChipTypes
  <2>4. ChipTypes' /\ Off'
    BY <1>t, <2>1, <2>3 DEF ChipTypes, Off
  <2>5. Progs' /\ (~hit' => Registers')
    BY <1>6, AccessStep
  <2> QED BY <2>3, <2>4, <2>5 DEF ChipIInv
<1>7. ASSUME NEW on \in BOOLEAN, Chip!cs8900_set_receive_mode(on) PROVE ChipIInv'
  <2>1. /\ chipDev = "up" /\ prog = <<>> /\ mode' = on /\ prog' = <<Read("RxCTL"), Mode(on)>>
        /\ UNCHANGED <<chipDev, half, val, addr, regs, isq, line, queue, txBuf, txlen, hit>>
    BY <1>7 DEF Chip!cs8900_set_receive_mode, Chip!SetMode, Read, Mode
  <2>2. ChipTypes' /\ Off'
    BY <1>t, <2>1 DEF ChipTypes, Off
  <2>3. Progs'
    BY <1>t, <2>1 DEF Progs
  <2>4. ~hit' => Registers'
    <3>1. prog' # <<>> /\ Head(prog') = Read("RxCTL") /\ Head(prog')[2] = "read"
      BY <2>1 DEF Read
    <3>2. Head(prog') # Mode(mode') /\ \A r \in {"RxCTL", "BusCTL"} : Head(prog') # Config(r)
      BY <3>1 DEF Mode, Config
    <3> QED BY <1>t, <2>1, <3>1, <3>2 DEF Registers, Fresh
  <2> QED BY <1>t, <2>1, <2>2, <2>3, <2>4 DEF ChipIInv
<1>8. CASE Chip!cs8900_start
  <2>1. /\ chipDev = "down" /\ chipDev' = "starting"
        /\ prog' = <<Read("RxCTL"), Config("RxCTL"), Read("BusCTL"), Config("BusCTL")>>
        /\ UNCHANGED <<half, val, addr, regs, isq, line, queue, txBuf, txlen, mode, hit>>
    BY <1>8 DEF Chip!cs8900_start, Chip!StartProg, Read, Config
  <2>2. ChipTypes' /\ Off'
    BY <1>t, <2>1 DEF ChipTypes, Off
  <2>3. Progs'
    BY <1>t, <2>1 DEF Progs
  <2>4. ~hit' => Registers'
    <3>1. prog' # <<>> /\ Len(prog') = 4 /\ Head(prog') = Read("RxCTL") /\ Head(prog')[2] = "read"
      BY <2>1 DEF Read
    <3>2. Head(prog') # Mode(mode') /\ \A r \in {"RxCTL", "BusCTL"} : Head(prog') # Config(r)
      BY <3>1 DEF Mode, Config
    <3> QED BY <1>t, <2>1, <3>1, <3>2 DEF Registers, Fresh
  <2> QED BY <1>t, <2>1, <2>2, <2>3, <2>4 DEF ChipIInv
<1>9. CASE Chip!Started
  <2>1. /\ chipDev = "starting" /\ prog = <<>>
        /\ UNCHANGED Context /\ UNCHANGED <<isq, txBuf, txlen>>
    BY <1>9 DEF Chip!Started, Context
  <2>2. \/ chipDev' = "up" /\ queue' = "awake" /\ line' = [line EXCEPT !.handler = TRUE]
        \/ chipDev' = "down" /\ UNCHANGED <<queue, line>>
    BY <1>9 DEF Chip!Started
  <2>3. ChipTypes' /\ Off' /\ (line'.line => line'.edge)
    BY <1>t, <2>1, <2>2 DEF ChipTypes, Off, Context
  <2>4. Progs'
    BY <1>t, <2>1, <2>2 DEF Progs, Context
  <2>5. ~hit' => Registers'
    <3>1. Len(prog) = 0
      BY <2>1
    <3> QED BY <1>t, <2>1, <2>2, <3>1 DEF Registers, Fresh, Context, Off
  <2> QED BY <2>3, <2>4, <2>5 DEF ChipIInv
<1>10. CASE Chip!cs8900_stop
  <2>1. /\ chipDev = "up" /\ chipDev' = "stopping" /\ prog' = <<Zero("BusCTL"), Zero("RxCTL")>>
        /\ prog = <<>>
        /\ UNCHANGED <<half, val, addr, regs, isq, line, queue, txBuf, txlen, mode, hit>>
    BY <1>10 DEF Chip!cs8900_stop, Chip!StopProg, Zero
  <2>2. ChipTypes' /\ Off'
    BY <1>t, <2>1 DEF ChipTypes, Off
  <2>3. Progs'
    BY <1>t, <2>1 DEF Progs
  <2>4. ~hit' => Registers'
    <3>1. prog' # <<>> /\ Head(prog')[2] = "zero"
      BY <2>1 DEF Zero
    <3>2. Head(prog') # Mode(mode') /\ \A r \in {"RxCTL", "BusCTL"} : Head(prog') # Config(r)
      BY <3>1 DEF Mode, Config
    <3> QED BY <1>t, <2>1, <3>1, <3>2 DEF Registers, Fresh
  <2> QED BY <1>t, <2>1, <2>2, <2>3, <2>4 DEF ChipIInv
<1>11. CASE Chip!StopEnds
  <2>1. /\ chipDev = "stopping" /\ prog = <<>> /\ chipDev' = "down" /\ queue' = "stopped"
        /\ line' = [line EXCEPT !.handler = FALSE] /\ mode' = FALSE
        /\ UNCHANGED <<prog, half, val, addr, regs, isq, txBuf, txlen, hit>>
    BY <1>11 DEF Chip!StopEnds, Chip!Stopped
  <2>2. ChipTypes' /\ Off' /\ (line'.line => line'.edge)
    BY <1>t, <2>1 DEF ChipTypes, Off
  <2>3. Progs'
    BY <1>t, <2>1 DEF Progs
  <2>4. ~hit' => Registers'
    BY <1>t, <2>1 DEF Registers, Fresh
  <2> QED BY <2>2, <2>3, <2>4 DEF ChipIInv
<1>12. CASE Chip!cs8900_init \/ Chip!cs8900_cleanup
  <2>1. /\ chipDev \in {"absent", "down"} /\ chipDev' \in {"absent", "down"}
        /\ UNCHANGED <<isq, line, queue, txBuf, txlen>> /\ UNCHANGED Context
    BY <1>12 DEF Chip!cs8900_init, Chip!cs8900_cleanup, Context
  <2>2. ChipTypes' /\ Off' /\ Progs'
    BY <1>t, <2>1 DEF ChipTypes, Off, Progs, Context
  <2>3. ~hit' => Registers'
    BY <1>t, <2>1 DEF Registers, Fresh, Context
  <2> QED BY <1>t, <2>1, <2>2, <2>3 DEF ChipIInv
<1> QED BY <1>1, <1>2, <1>3, <1>4, <1>5, <1>6, <1>7, <1>8, <1>9, <1>10, <1>11, <1>12 DEF Chip!Next

HIDE ChipAssumption

-----------------------------------------------------------------------------
(* The USB skeleton.  References, power references and places of limit_sem *)
(* are counted by where the files are.                                     *)
USE SkelAssumption

Count(w, K) == Cardinality({f \in Files : w[f] \in K})

Held == {"open", "closing", "reading", "limited", "building"}
Powered == {"open", "reading", "limited", "building"}
Writing == {"limited", "building"}
Places == Held \cup {"closed", "opening"}

\* Moving one file moves the counts by at most one.
LEMMA CountMoves ==
    \A w, v, to, K : \A f \in Files :
        (\A g \in Files : v[g] = IF g = f THEN to ELSE w[g])
        => Count(v, K)
             = Count(w, K) + (IF to \in K THEN 1 ELSE 0) - (IF w[f] \in K THEN 1 ELSE 0)
<1> SUFFICES ASSUME NEW w, NEW v, NEW to, NEW K, NEW f \in Files,
                    \A g \in Files : v[g] = IF g = f THEN to ELSE w[g]
             PROVE  Count(v, K)
                      = Count(w, K) + (IF to \in K THEN 1 ELSE 0) - (IF w[f] \in K THEN 1 ELSE 0)
  OBVIOUS
<1> DEFINE A == {g \in Files : w[g] \in K}
           B == {g \in Files : v[g] \in K}
<1>1. /\ A \subseteq Files /\ IsFiniteSet(A) /\ Cardinality(A) \in Nat
      /\ Cardinality(A) <= Cardinality(Files) /\ Cardinality(Files) \in Nat
  <2>1. A \subseteq Files
    OBVIOUS
  <2> QED BY <2>1, FS_Subset, FS_CardinalityType
<1>2. Count(w, K) = Cardinality(A) /\ Count(v, K) = Cardinality(B)
  BY DEF Count
<1>4. B = IF to \in K THEN A \cup {f} ELSE A \ {f}
  OBVIOUS
<1>5. f \in A <=> w[f] \in K
  OBVIOUS
<1> HIDE DEF A, B
<1>7. Cardinality(A \cup {f}) = IF f \in A THEN Cardinality(A) ELSE Cardinality(A) + 1
  BY <1>1, FS_AddElement
<1>8. Cardinality(A \ {f}) = IF f \in A THEN Cardinality(A) - 1 ELSE Cardinality(A)
  BY <1>1, FS_RemoveElement
<1>9. Cardinality(B) = Cardinality(A) + (IF to \in K THEN 1 ELSE 0) - (IF w[f] \in K THEN 1 ELSE 0)
  BY <1>1, <1>4, <1>5, <1>7, <1>8
<1> QED BY <1>2, <1>9

SkelStates == [st : {"none", "live", "freed"}, kref : Nat, interface : BOOLEAN, sem : Nat]

SkelTypes ==
    /\ skel \in SkelStates
    /\ intf \in [data : BOOLEAN, minor : BOOLEAN, plugged : BOOLEAN, pm : Int]
    /\ file \in [Files -> Places]
    /\ inflight \in Nat /\ disc \in {"idle", "mutex", "put"} /\ bad = FALSE

\* Who is where has the lock.
Locks ==
    \A f \in Files : /\ file[f] \in {"reading", "building"} <=> mutex = f
                     /\ file[f] = "opening" => bkl = f

\* The minor number goes last of what the interface offers, and not while a
\* file is being opened or an URB is in flight.
Interface ==
    /\ intf.data = intf.minor
    /\ intf.plugged => intf.minor
    /\ intf.minor => disc = "idle"
    /\ inflight > 0 => intf.minor
    /\ \A f \in Files : file[f] = "opening" => intf.minor

Own == IF intf.minor \/ disc # "idle" THEN 1 ELSE 0

References ==
    /\ skel.kref = Count(file, Held) + Own
    /\ skel.st = "live" <=> skel.kref > 0

PlacesKept ==
    /\ skel.sem <= WRITES_IN_FLIGHT
    /\ skel.st = "live" => skel.sem + inflight + Count(file, Writing) = WRITES_IN_FLIGHT

Power ==
    /\ skel.st = "live" /\ ~skel.interface => inflight = 0 /\ \A f \in Files : file[f] # "reading"
    /\ skel.st = "live" /\ skel.interface => intf.pm = Count(file, Powered)

SkelIInv == SkelTypes /\ Locks /\ Interface /\ References /\ PlacesKept /\ Power

LEMMA NobodyThere ==
    ASSUME NEW w, NEW K, \A f \in Files : w[f] \notin K
    PROVE  Count(w, K) = 0
<1>1. {f \in Files : w[f] \in K} = {}
  OBVIOUS
<1> QED BY <1>1, FS_EmptySet DEF Count

LEMMA SkelInit == Skel!Init => SkelIInv
<1> SUFFICES ASSUME Skel!Init PROVE SkelIInv
  OBVIOUS
<1>1. /\ skel = [st |-> "none", kref |-> 0, interface |-> FALSE, sem |-> 0]
      /\ intf = [data |-> FALSE, minor |-> FALSE, plugged |-> FALSE, pm |-> 0]
      /\ file = [f \in Files |-> "closed"]
      /\ mutex = "nobody" /\ bkl = "nobody" /\ inflight = 0 /\ disc = "idle" /\ bad = FALSE
  BY DEF Skel!Init, Skel!NOBODY
<1>2. Count(file, Held) = 0
  <2>1. \A f \in Files : file[f] \notin Held
    BY <1>1 DEF Held
  <2> QED BY <2>1, NobodyThere
<1>3. SkelTypes
  BY <1>1 DEF SkelStates, SkelTypes, Places
<1>4. Locks /\ Interface
  BY <1>1 DEF Locks, Interface
<1>5. References /\ PlacesKept /\ Power
  BY <1>1, <1>2 DEF References, Own, PlacesKept, Power
<1> QED BY <1>3, <1>4, <1>5 DEF SkelIInv

LEMMA SkelSafe == SkelIInv => Skel!Inv
<1> SUFFICES ASSUME SkelIInv PROVE Skel!Inv
  OBVIOUS
<1>1. /\ Count(file, Held) \in 0 .. Cardinality(Files)
      /\ Count(file, Writing) \in 0 .. Cardinality(Files)
      /\ Cardinality(Files) \in Nat
  <2>1. /\ {f \in Files : file[f] \in Held} \subseteq Files
        /\ {f \in Files : file[f] \in Writing} \subseteq Files
    OBVIOUS
  <2> QED BY <2>1, FS_Subset, FS_CardinalityType DEF Count
<1>c. /\ Skel!Cardinality(Files) = Cardinality(Files)
      /\ \A S : Skel!Cardinality(S) = Cardinality(S)
  BY DEF Skel!Cardinality, Cardinality, Skel!IsFiniteSet, IsFiniteSet
<1>2. Cardinality({f \in Files : Skel!Holding(f)}) = Count(file, Held)
  <2>1. {f \in Files : Skel!Holding(f)} = {f \in Files : file[f] \in Held}
    BY DEF Skel!Holding, Held
  <2> QED BY <2>1 DEF Count
<1>3. Cardinality({f \in Files : Skel!Holding(f) /\ file[f] # "closing"}) = Count(file, Powered)
  <2>1. {f \in Files : Skel!Holding(f) /\ file[f] # "closing"} = {f \in Files : file[f] \in Powered}
    BY DEF Skel!Holding, Powered
  <2> QED BY <2>1 DEF Count
<1>4. Cardinality({f \in Files : file[f] \in {"limited", "building"}}) = Count(file, Writing)
  BY DEF Count, Writing
<1>5. Skel!NoUseAfterFree
  <2>1. skel.kref = Count(file, Held) + (IF intf.minor \/ disc # "idle" THEN 1 ELSE 0) /\ ~bad
    BY DEF SkelIInv, SkelTypes, References, Own
  <2> QED BY <1>c, <1>2, <2>1 DEF Skel!NoUseAfterFree
<1>6. Skel!PlacesAccounted
  <2>1. skel.st = "live" => skel.sem + inflight + Count(file, Writing) = WRITES_IN_FLIGHT
    BY DEF SkelIInv, PlacesKept
  <2> QED BY <1>c, <1>4, <2>1 DEF Skel!PlacesAccounted
<1>7. Skel!NoIoAfterDisconnect
  <2>1. Power
    BY DEF SkelIInv
  <2> QED BY <1>c, <1>3, <2>1 DEF Skel!NoIoAfterDisconnect, Power
<1>8. inflight \in Nat /\ skel.sem \in Nat /\ skel.kref \in Nat /\ WRITES_IN_FLIGHT \in Nat
  BY DEF SkelIInv, SkelTypes, SkelStates
<1>9. inflight <= WRITES_IN_FLIGHT /\ skel.kref <= Cardinality(Files) + 1
  <2>1. inflight > 0 => skel.st = "live"
    BY <1>1 DEF SkelIInv, Interface, References, Own
  <2>2. CASE inflight = 0
    BY <1>1, <1>8, <2>2 DEF SkelIInv, References, Own
  <2>3. CASE inflight # 0
    BY <1>1, <1>8, <2>1, <2>3 DEF SkelIInv, References, Own, PlacesKept
  <2> QED BY <2>2, <2>3
<1>10. Skel!TypeOK
  <2>1. skel.st \in {"none", "live", "freed"} /\ skel.sem <= WRITES_IN_FLIGHT
    BY DEF SkelIInv, SkelTypes, SkelStates, PlacesKept
  <2>2. skel.kref \in 0 .. Cardinality(Files) + 1
    BY <1>1, <1>8, <1>9
  <2>3. skel.sem \in 0 .. WRITES_IN_FLIGHT /\ inflight \in 0 .. WRITES_IN_FLIGHT
    BY <1>8, <1>9, <2>1
  <2> QED BY <1>c, <2>1, <2>2, <2>3 DEF Skel!TypeOK
<1> QED BY <1>5, <1>6, <1>7, <1>10 DEF Skel!Inv

\* What a step of one file does to the counts.
LEMMA FileGoes ==
    ASSUME SkelTypes, NEW f \in Files, NEW from, NEW to, Skel!Go(f, from, to), to \in Places
    PROVE  /\ file[f] = from /\ file' \in [Files -> Places]
           /\ \A g \in Files : file'[g] = IF g = f THEN to ELSE file[g]
           /\ \A K : Count(file', K) = Count(file, K) + (IF to \in K THEN 1 ELSE 0)
                                                      - (IF from \in K THEN 1 ELSE 0)
<1>1. file[f] = from /\ file' = [file EXCEPT ![f] = to] /\ file \in [Files -> Places]
  BY DEF Skel!Go, SkelTypes
<1>2. \A g \in Files : file'[g] = IF g = f THEN to ELSE file[g]
  BY <1>1
<1>3. \A K : Count(file', K) = Count(file, K) + (IF to \in K THEN 1 ELSE 0)
                                             - (IF file[f] \in K THEN 1 ELSE 0)
  <2> DEFINE v == file'
  <2>1. \A g \in Files : v[g] = IF g = f THEN to ELSE file[g]
    BY <1>2
  <2> HIDE DEF v
  <2>2. ASSUME NEW K
        PROVE  Count(v, K) = Count(file, K) + (IF to \in K THEN 1 ELSE 0)
                                            - (IF file[f] \in K THEN 1 ELSE 0)
    BY <2>1, CountMoves
  <2>3. \A K : Count(v, K) = Count(file, K) + (IF to \in K THEN 1 ELSE 0)
                                            - (IF file[f] \in K THEN 1 ELSE 0)
    BY <2>2
  <2> QED BY <2>3 DEF v
<1> QED BY <1>1, <1>2, <1>3

LEMMA CountTypes ==
    ASSUME NEW w, NEW K
    PROVE  Count(w, K) \in Nat /\ (Count(w, K) = 0 <=> \A f \in Files : w[f] \notin K)
<1> DEFINE A == {g \in Files : w[g] \in K}
<1>1. A \subseteq Files
  OBVIOUS
<1>2. IsFiniteSet(A) /\ Cardinality(A) \in Nat
  BY <1>1, FS_Subset, FS_CardinalityType
<1>3. Cardinality(A) = 0 <=> A = {}
  BY <1>2, FS_EmptySet
<1> QED BY <1>2, <1>3 DEF Count

\* What one file's step changes: h, p and w are the differences of the counts.
Moves(f, from, to, h, p, w) ==
    /\ file[f] = from /\ file' \in [Files -> Places]
    /\ \A g \in Files : file'[g] = IF g = f THEN to ELSE file[g]
    /\ Count(file', Held) = Count(file, Held) + h
    /\ Count(file', Powered) = Count(file, Powered) + p
    /\ Count(file', Writing) = Count(file, Writing) + w

\* Who holds a reference keeps the state alive.
LEMMA SkelAlive ==
    ASSUME SkelIInv
    PROVE  /\ \A K : Count(file, K) \in Nat
           /\ \A f \in Files : file[f] \in Held => skel.st = "live"
           /\ intf.minor \/ inflight > 0 \/ disc # "idle" => skel.st = "live"
<1>1. \A K : Count(file, K) \in Nat /\ (Count(file, K) = 0 <=> \A f \in Files : file[f] \notin K)
  BY CountTypes
<1>2. skel.kref = Count(file, Held) + Own /\ (skel.st = "live" <=> skel.kref > 0)
  BY DEF SkelIInv, References
<1>3. ASSUME NEW f \in Files, file[f] \in Held PROVE skel.st = "live"
  <2>1. Count(file, Held) # 0 /\ Count(file, Held) \in Nat
    BY <1>1, <1>3
  <2> QED BY <1>2, <2>1 DEF Own
<1>4. ASSUME intf.minor \/ inflight > 0 \/ disc # "idle" PROVE skel.st = "live"
  <2>1. Own = 1
    BY <1>4 DEF SkelIInv, Interface, Own
  <2>2. Count(file, Held) \in Nat
    BY <1>1
  <2> QED BY <1>2, <2>1, <2>2
<1> QED BY <1>1, <1>3, <1>4

\* kref_put.
LEMMA PutGives ==
    \A n \in Nat, d \in SkelStates :
        d.kref = n + 1 /\ d.st = "live" =>
          /\ Skel!Put(d) \in SkelStates /\ Skel!Put(d).kref = n
          /\ Skel!Put(d).st = IF n = 0 THEN "freed" ELSE "live"
          /\ Skel!Put(d).interface = d.interface /\ Skel!Put(d).sem = d.sem
<1> SUFFICES ASSUME NEW n \in Nat, NEW d \in SkelStates, d.kref = n + 1, d.st = "live"
             PROVE  /\ Skel!Put(d) \in SkelStates /\ Skel!Put(d).kref = n
                    /\ Skel!Put(d).st = IF n = 0 THEN "freed" ELSE "live"
                    /\ Skel!Put(d).interface = d.interface /\ Skel!Put(d).sem = d.sem
  OBVIOUS
<1>1. n + 1 - 1 = n /\ (n + 1 = 1 <=> n = 0)
  OBVIOUS
<1>2. CASE n = 0
  <2>1. Skel!Put(d) = [d EXCEPT !.kref = n, !.st = "freed"]
    BY <1>1, <1>2 DEF Skel!Put
  <2> QED BY <1>2, <2>1 DEF SkelStates
<1>3. CASE n # 0
  <2>1. Skel!Put(d) = [d EXCEPT !.kref = n, !.st = d.st]
    <3>1. Skel!Put(d) = [d EXCEPT !.kref = d.kref - 1, !.st = IF d.kref = 1 THEN "freed" ELSE d.st]
      BY DEF Skel!Put
    <3>2. d.kref - 1 = n /\ (IF d.kref = 1 THEN "freed" ELSE d.st) = d.st
      BY <1>1, <1>3
    <3> QED BY <3>1, <3>2
  <2> QED BY <1>3, <2>1 DEF SkelStates
<1> QED BY <1>2, <1>3

\* The steps of the device.
LEMMA DeviceStep ==
    ASSUME SkelIInv,
           \/ Skel!skel_probe \/ Skel!Unplug \/ Skel!skel_disconnect \/ Skel!NoInterface
           \/ Skel!Disconnected \/ Skel!skel_write_bulk_callback
    PROVE  SkelIInv'
<1> DEFINE H == Count(file, Held)
           P == Count(file, Powered)
           W == Count(file, Writing)
<1>t. SkelTypes /\ Locks /\ Interface /\ References /\ PlacesKept /\ Power
  BY DEF SkelIInv
<1>n. H \in Nat /\ P \in Nat /\ W \in Nat /\ WRITES_IN_FLIGHT \in Nat
  BY SkelAlive
<1>a. intf.minor \/ inflight > 0 \/ disc # "idle" => skel.st = "live"
  BY SkelAlive
<1>f. ASSUME file' = file
      PROVE  Count(file', Held) = H /\ Count(file', Powered) = P /\ Count(file', Writing) = W
  BY <1>f
<1> HIDE DEF H, P, W
<1>1. CASE Skel!skel_probe
  <2>1. /\ UNCHANGED <<file, mutex, bkl, inflight, disc, bad>>
        /\ skel.st # "live" /\ disc = "idle" /\ \A f \in Files : file[f] = "closed"
    BY <1>1 DEF Skel!skel_probe
  <2>2. H = 0 /\ P = 0 /\ W = 0
    <3>1. \A f \in Files : file[f] \notin Held /\ file[f] \notin Powered /\ file[f] \notin Writing
      BY <2>1 DEF Held, Powered, Writing
    <3> QED BY <3>1, NobodyThere DEF H, P, W
  <2>3. inflight = 0 /\ ~intf.minor
    BY <1>a, <1>t, <2>1 DEF SkelTypes, SkelStates
  <2>4. CASE /\ skel' = [st |-> "live", kref |-> 1, interface |-> TRUE, sem |-> WRITES_IN_FLIGHT]
             /\ intf' = [data |-> TRUE, minor |-> TRUE, plugged |-> TRUE, pm |-> 0]
    <3>1. SkelTypes'
      BY <1>n, <1>t, <2>1, <2>4 DEF SkelTypes, SkelStates
    <3>2. Locks' /\ Interface'
      BY <1>t, <2>1, <2>4 DEF Locks, Interface
    <3>3. References' /\ PlacesKept' /\ Power'
      BY <1>f, <1>n, <2>1, <2>2, <2>3, <2>4 DEF References, Own, PlacesKept, Power
    <3> QED BY <3>1, <3>2, <3>3 DEF SkelIInv
  <2>5. CASE /\ skel' \in SkelStates /\ skel'.st = "freed" /\ skel'.kref = 0
             /\ skel'.sem = WRITES_IN_FLIGHT /\ UNCHANGED intf
    <3>1. SkelTypes'
      BY <1>n, <1>t, <2>1, <2>5 DEF SkelTypes, SkelStates
    <3>2. Locks' /\ Interface'
      BY <1>t, <2>1, <2>5 DEF Locks, Interface
    <3>3. References' /\ PlacesKept' /\ Power'
      BY <1>f, <1>n, <2>1, <2>2, <2>3, <2>5 DEF References, Own, PlacesKept, Power
    <3> QED BY <3>1, <3>2, <3>3 DEF SkelIInv
  <2>6. CASE /\ skel' = Skel!Put([st |-> "live", kref |-> 1, interface |-> TRUE,
                                    sem |-> WRITES_IN_FLIGHT])
             /\ UNCHANGED intf
    <3> DEFINE d == [st |-> "live", kref |-> 1, interface |-> TRUE, sem |-> WRITES_IN_FLIGHT]
    <3>1. d \in SkelStates /\ d.kref = 0 + 1 /\ d.st = "live" /\ d.sem = WRITES_IN_FLIGHT
      BY <1>n DEF SkelStates
    <3> HIDE DEF d
    <3>2. 0 \in Nat
      OBVIOUS
    <3>3. /\ Skel!Put(d) \in SkelStates /\ Skel!Put(d).st = "freed" /\ Skel!Put(d).kref = 0
          /\ Skel!Put(d).sem = WRITES_IN_FLIGHT
      BY <3>1, <3>2, PutGives
    <3> QED BY <2>5, <2>6, <3>3 DEF d
  <2> QED BY <1>1, <2>4, <2>6 DEF Skel!skel_probe
<1>2. CASE Skel!Unplug
  <2>1. /\ UNCHANGED <<skel, file, mutex, bkl, inflight, disc, bad>>
        /\ intf' = [intf EXCEPT !.plugged = FALSE]
    BY <1>2 DEF Skel!Unplug
  <2>2. /\ intf' \in [data : BOOLEAN, minor : BOOLEAN, plugged : BOOLEAN, pm : Int]
        /\ intf'.data = intf.data /\ intf'.minor = intf.minor /\ intf'.pm = intf.pm
        /\ intf'.plugged = FALSE
    BY <1>t, <2>1 DEF SkelTypes, SkelStates
  <2>3. SkelTypes' /\ Locks' /\ Interface'
    BY <1>t, <2>1, <2>2 DEF SkelStates, SkelTypes, Locks, Interface
  <2>4. References' /\ PlacesKept' /\ Power'
    BY <1>t, <2>1, <2>2 DEF References, Own, PlacesKept, Power
  <2> QED BY <2>3, <2>4 DEF SkelIInv
<1>3. CASE Skel!skel_disconnect
  <2>1. /\ UNCHANGED <<skel, file, mutex, bkl, inflight, bad>> /\ disc' = "mutex"
        /\ disc = "idle" /\ intf.minor /\ ~intf.plugged /\ inflight = 0 /\ bkl = "nobody"
        /\ intf' = [intf EXCEPT !.data = FALSE, !.minor = FALSE]
    BY <1>3 DEF Skel!skel_disconnect, Skel!NOBODY
  <2>2. /\ intf' \in [data : BOOLEAN, minor : BOOLEAN, plugged : BOOLEAN, pm : Int]
        /\ intf'.data = FALSE /\ intf'.minor = FALSE /\ intf'.pm = intf.pm
        /\ intf'.plugged = intf.plugged
    BY <1>t, <2>1 DEF SkelTypes, SkelStates
  <2>3. \A f \in Files : file[f] # "opening"
    BY <1>t, <2>1 DEF Locks
  <2>4. SkelTypes' /\ Locks' /\ Interface'
    BY <1>t, <2>1, <2>2, <2>3 DEF SkelStates, SkelTypes, Locks, Interface
  <2>5. References' /\ PlacesKept' /\ Power'
    BY <1>t, <2>1, <2>2 DEF References, Own, PlacesKept, Power
  <2> QED BY <2>4, <2>5 DEF SkelIInv
<1>4. CASE Skel!NoInterface
  <2>1. /\ UNCHANGED <<intf, file, mutex, bkl, inflight>> /\ disc = "mutex" /\ disc' = "put"
        /\ mutex = "nobody" /\ bad' = (bad \/ skel.st # "live")
        /\ skel' = [skel EXCEPT !.interface = FALSE]
    BY <1>4 DEF Skel!NoInterface, Skel!Quiet, Skel!Used, Skel!NOBODY
  <2>2. /\ skel' \in SkelStates
        /\ skel'.st = skel.st /\ skel'.kref = skel.kref /\ skel'.interface = FALSE
        /\ skel'.sem = skel.sem
    BY <1>t, <2>1 DEF SkelTypes, SkelStates
  <2>3. bad' = FALSE
    BY <1>a, <1>t, <2>1 DEF SkelTypes, SkelStates
  <2>4. inflight = 0 /\ ~intf.minor /\ \A f \in Files : file[f] # "reading"
    BY <1>t, <2>1 DEF SkelStates, SkelTypes, Locks, Interface
  <2>5. SkelTypes' /\ Locks' /\ Interface'
    BY <1>t, <2>1, <2>2, <2>3, <2>4 DEF SkelStates, SkelTypes, Locks, Interface
  <2>6. References' /\ PlacesKept' /\ Power'
    BY <1>t, <2>1, <2>2, <2>4 DEF References, Own, PlacesKept, Power
  <2> QED BY <2>5, <2>6 DEF SkelIInv
<1>5. CASE Skel!Disconnected
  <2>1. /\ UNCHANGED <<intf, file, mutex, bkl, inflight>> /\ disc = "put" /\ disc' = "idle"
        /\ bad' = (bad \/ skel.st # "live")
        /\ skel' = [skel EXCEPT !.kref = @ - 1, !.st = IF skel.kref = 1 THEN "freed" ELSE @]
    BY <1>5 DEF Skel!Disconnected, Skel!Used, Skel!Put
  <2>2. ~intf.minor /\ skel.st = "live" /\ skel.kref > 0 /\ skel.kref = H + 1
    BY <1>a, <1>t, <2>1 DEF SkelStates, SkelTypes, Interface, References, Own, H
  <2>3. /\ skel' \in SkelStates
        /\ skel'.st = (IF H = 0 THEN "freed" ELSE "live") /\ skel'.kref = H
        /\ skel'.interface = skel.interface /\ skel'.sem = skel.sem
    <3>1. skel' = Skel!Put(skel)
      BY <1>5 DEF Skel!Disconnected
    <3> QED BY <1>n, <1>t, <2>2, <3>1, PutGives DEF SkelTypes, SkelStates
  <2>4. SkelTypes' /\ Locks' /\ Interface'
    BY <1>t, <2>1, <2>2, <2>3 DEF SkelStates, SkelTypes, Locks, Interface
  <2>5. References'
    BY <1>f, <1>n, <2>1, <2>2, <2>3 DEF References, Own
  <2>6. PlacesKept' /\ Power'
    BY <1>t, <2>1, <2>2, <2>3 DEF PlacesKept, Power
  <2> QED BY <2>4, <2>5, <2>6 DEF SkelIInv
<1>6. CASE Skel!skel_write_bulk_callback
  <2>1. /\ UNCHANGED <<intf, file, mutex, bkl, disc>> /\ inflight > 0 /\ inflight' = inflight - 1
        /\ bad' = (bad \/ skel.st # "live")
        /\ skel' = [skel EXCEPT !.sem = @ + 1]
    BY <1>6 DEF Skel!skel_write_bulk_callback, Skel!Used
  <2>2. /\ skel' \in SkelStates
        /\ skel'.st = skel.st /\ skel'.kref = skel.kref /\ skel'.interface = skel.interface
        /\ skel'.sem = skel.sem + 1
    BY <1>t, <2>1 DEF SkelTypes, SkelStates
  <2>3. bad' = FALSE /\ skel.st = "live" /\ inflight \in Nat /\ skel.sem \in Nat
    BY <1>a, <1>t, <2>1 DEF SkelTypes, SkelStates
  <2>4. SkelTypes' /\ Locks' /\ Interface'
    BY <1>t, <2>1, <2>2, <2>3 DEF SkelStates, SkelTypes, Locks, Interface
  <2>5. References' /\ Power'
    BY <1>t, <2>1, <2>2, <2>3 DEF References, Own, Power
  <2>6. PlacesKept'
    BY <1>f, <1>n, <1>t, <2>1, <2>2, <2>3 DEF PlacesKept, W
  <2> QED BY <2>4, <2>5, <2>6 DEF SkelIInv
<1> QED BY <1>1, <1>2, <1>3, <1>4, <1>5, <1>6

Came(from, to, f) ==
    /\ file[f] = from /\ file' \in [Files -> Places]
    /\ \A g \in Files : file'[g] = IF g = f THEN to ELSE file[g]
    /\ \A K : Count(file', K) = Count(file, K) + (IF to \in K THEN 1 ELSE 0)
                                               - (IF from \in K THEN 1 ELSE 0)

\* The steps of a file.
LEMMA FileMoves ==
    ASSUME SkelTypes, NEW f \in Files
    PROVE  /\ Skel!Go(f, "closed", "opening") => Moves(f, "closed", "opening", 0, 0, 0)
           /\ Skel!Go(f, "opening", "open") => Moves(f, "opening", "open", 1, 1, 0)
           /\ Skel!Go(f, "opening", "closed") => Moves(f, "opening", "closed", 0, 0, 0)
           /\ Skel!Go(f, "open", "closing") => Moves(f, "open", "closing", 0, -1, 0)
           /\ Skel!Go(f, "closing", "closed") => Moves(f, "closing", "closed", -1, 0, 0)
           /\ Skel!Go(f, "open", "reading") => Moves(f, "open", "reading", 0, 0, 0)
           /\ Skel!Go(f, "reading", "open") => Moves(f, "reading", "open", 0, 0, 0)
           /\ Skel!Go(f, "open", "limited") => Moves(f, "open", "limited", 0, 0, 1)
           /\ Skel!Go(f, "limited", "building") => Moves(f, "limited", "building", 0, 0, 0)
           /\ Skel!Go(f, "building", "open") => Moves(f, "building", "open", 0, 0, -1)
<1>1. ASSUME Skel!Go(f, "closed", "opening") PROVE Moves(f, "closed", "opening", 0, 0, 0)
  <2>1. Came("closed", "opening", f)
    BY <1>1, FileGoes DEF Came, Places, Held
  <2> QED BY <2>1, CountTypes DEF Came, Moves, Held, Powered, Writing
<1>2. ASSUME Skel!Go(f, "opening", "open") PROVE Moves(f, "opening", "open", 1, 1, 0)
  <2>1. Came("opening", "open", f)
    BY <1>2, FileGoes DEF Came, Places, Held
  <2> QED BY <2>1, CountTypes DEF Came, Moves, Held, Powered, Writing
<1>3. ASSUME Skel!Go(f, "opening", "closed") PROVE Moves(f, "opening", "closed", 0, 0, 0)
  <2>1. Came("opening", "closed", f)
    BY <1>3, FileGoes DEF Came, Places, Held
  <2> QED BY <2>1, CountTypes DEF Came, Moves, Held, Powered, Writing
<1>4. ASSUME Skel!Go(f, "open", "closing") PROVE Moves(f, "open", "closing", 0, -1, 0)
  <2>1. Came("open", "closing", f)
    BY <1>4, FileGoes DEF Came, Places, Held
  <2> QED BY <2>1, CountTypes DEF Came, Moves, Held, Powered, Writing
<1>5. ASSUME Skel!Go(f, "closing", "closed") PROVE Moves(f, "closing", "closed", -1, 0, 0)
  <2>1. Came("closing", "closed", f)
    BY <1>5, FileGoes DEF Came, Places, Held
  <2> QED BY <2>1, CountTypes DEF Came, Moves, Held, Powered, Writing
<1>6. ASSUME Skel!Go(f, "open", "reading") PROVE Moves(f, "open", "reading", 0, 0, 0)
  <2>1. Came("open", "reading", f)
    BY <1>6, FileGoes DEF Came, Places, Held
  <2> QED BY <2>1, CountTypes DEF Came, Moves, Held, Powered, Writing
<1>7. ASSUME Skel!Go(f, "reading", "open") PROVE Moves(f, "reading", "open", 0, 0, 0)
  <2>1. Came("reading", "open", f)
    BY <1>7, FileGoes DEF Came, Places, Held
  <2> QED BY <2>1, CountTypes DEF Came, Moves, Held, Powered, Writing
<1>8. ASSUME Skel!Go(f, "open", "limited") PROVE Moves(f, "open", "limited", 0, 0, 1)
  <2>1. Came("open", "limited", f)
    BY <1>8, FileGoes DEF Came, Places, Held
  <2> QED BY <2>1, CountTypes DEF Came, Moves, Held, Powered, Writing
<1>9. ASSUME Skel!Go(f, "limited", "building") PROVE Moves(f, "limited", "building", 0, 0, 0)
  <2>1. Came("limited", "building", f)
    BY <1>9, FileGoes DEF Came, Places, Held
  <2> QED BY <2>1, CountTypes DEF Came, Moves, Held, Powered, Writing
<1>10. ASSUME Skel!Go(f, "building", "open") PROVE Moves(f, "building", "open", 0, 0, -1)
  <2>1. Came("building", "open", f)
    BY <1>10, FileGoes DEF Came, Places, Held
  <2> QED BY <2>1, CountTypes DEF Came, Moves, Held, Powered, Writing
<1> QED BY <1>1, <1>2, <1>3, <1>4, <1>5, <1>6, <1>7, <1>8, <1>9, <1>10

LEMMA FileStep ==
    ASSUME SkelIInv, NEW f \in Files,
           \/ Skel!skel_open(f) \/ Skel!Opened(f) \/ Skel!skel_release(f) \/ Skel!Released(f)
           \/ Skel!skel_read(f) \/ Skel!ReadEnds(f)
           \/ Skel!skel_write(f) \/ Skel!Interfaced(f) \/ Skel!Submit(f) \/ Skel!WriteFails(f)
    PROVE  SkelIInv'
<1> DEFINE H == Count(file, Held)
           P == Count(file, Powered)
           W == Count(file, Writing)
<1>t. SkelTypes /\ Locks /\ Interface /\ References /\ PlacesKept /\ Power
  BY DEF SkelIInv
<1>n. /\ H \in Nat /\ P \in Nat /\ W \in Nat /\ WRITES_IN_FLIGHT \in Nat
      /\ skel.sem \in Nat /\ inflight \in Nat /\ intf.pm \in Int /\ "nobody" \notin Files
  BY <1>t, SkelAlive DEF SkelTypes, SkelStates
<1>a. intf.minor \/ disc # "idle" => skel.st = "live"
  BY SkelAlive
<1>h. file[f] \in Held => skel.st = "live"
  BY SkelAlive
<1>m. SkelTypes
  BY <1>t
<1> HIDE DEF H, P, W
<1>1. CASE Skel!skel_open(f)
  <2>1. /\ UNCHANGED <<skel, intf, mutex, inflight, disc, bad>>
        /\ intf.minor /\ bkl = "nobody" /\ bkl' = f
    BY <1>1 DEF Skel!skel_open, Skel!NOBODY
  <2>2. Moves(f, "closed", "opening", 0, 0, 0)
    BY <1>1, <1>m, FileMoves DEF Skel!skel_open
  <2>3. SkelTypes' /\ Locks' /\ Interface'
    BY <1>n, <1>t, <2>1, <2>2 DEF SkelTypes, Locks, Interface, Moves
  <2>4. References' /\ PlacesKept' /\ Power'
    BY <1>n, <1>t, <2>1, <2>2 DEF References, Own, PlacesKept, Power, Moves, H, P, W
  <2> QED BY <2>3, <2>4 DEF SkelIInv
<1>2. CASE Skel!Opened(f)
  <2>1. UNCHANGED <<mutex, inflight, disc>> /\ bkl' = "nobody"
    BY <1>2 DEF Skel!Opened, Skel!NOBODY
  <2>2. CASE /\ Skel!Go(f, "opening", "open") /\ Skel!Used
             /\ skel' = Skel!Get(skel) /\ intf' = [intf EXCEPT !.pm = @ + 1]
    <3>1. Moves(f, "opening", "open", 1, 1, 0)
      BY <1>m, <2>2, FileMoves
    <3>2. intf.minor /\ bkl = f /\ skel.st = "live"
      BY <1>a, <1>t, <3>1 DEF Moves, Interface, Locks
    <3>3. /\ skel' \in SkelStates /\ skel'.st = skel.st /\ skel'.kref = skel.kref + 1
          /\ skel'.interface = skel.interface /\ skel'.sem = skel.sem
      BY <1>t, <2>2 DEF SkelTypes, SkelStates, Skel!Get
    <3>4. /\ intf' \in [data : BOOLEAN, minor : BOOLEAN, plugged : BOOLEAN, pm : Int]
          /\ intf'.data = intf.data /\ intf'.minor = intf.minor
          /\ intf'.plugged = intf.plugged /\ intf'.pm = intf.pm + 1
      BY <1>t, <2>2 DEF SkelTypes
    <3>5. bad' = FALSE
      BY <1>t, <2>2, <3>2 DEF SkelTypes, Skel!Used
    <3>6. SkelTypes' /\ Locks' /\ Interface'
      BY <1>n, <1>t, <2>1, <3>1, <3>2, <3>3, <3>4, <3>5 DEF SkelTypes, Locks, Interface, Moves
    <3>7. References' /\ PlacesKept' /\ Power'
      BY <1>n, <1>t, <2>1, <3>1, <3>2, <3>3, <3>4
      DEF References, Own, PlacesKept, Power, Moves, H, P, W
    <3> QED BY <3>6, <3>7 DEF SkelIInv
  <2>3. CASE Skel!Go(f, "opening", "closed") /\ UNCHANGED <<skel, intf, bad>>
    <3>1. Moves(f, "opening", "closed", 0, 0, 0)
      BY <1>m, <2>3, FileMoves
    <3>2. bkl = f
      BY <1>t, <3>1 DEF Moves, Locks
    <3>3. SkelTypes' /\ Locks' /\ Interface'
      BY <1>n, <1>t, <2>1, <2>3, <3>1, <3>2 DEF SkelTypes, Locks, Interface, Moves
    <3>4. References' /\ PlacesKept' /\ Power'
      BY <1>n, <1>t, <2>1, <2>3, <3>1 DEF References, Own, PlacesKept, Power, Moves, H, P, W
    <3> QED BY <3>3, <3>4 DEF SkelIInv
  <2> QED BY <1>2, <2>2, <2>3 DEF Skel!Opened
<1>3. CASE Skel!skel_release(f)
  <2>1. UNCHANGED <<skel, mutex, bkl, inflight, disc>> /\ mutex = "nobody"
    BY <1>3 DEF Skel!skel_release, Skel!NOBODY
  <2>2. Moves(f, "open", "closing", 0, -1, 0)
    BY <1>3, <1>m, FileMoves DEF Skel!skel_release
  <2>3. /\ intf' \in [data : BOOLEAN, minor : BOOLEAN, plugged : BOOLEAN, pm : Int]
        /\ intf'.data = intf.data /\ intf'.minor = intf.minor /\ intf'.plugged = intf.plugged
        /\ intf'.pm = IF skel.interface THEN intf.pm - 1 ELSE intf.pm
    <3>1. CASE skel.interface
      BY <1>3, <1>t, <3>1 DEF SkelTypes, Skel!skel_release
    <3>2. CASE ~skel.interface
      BY <1>3, <1>t, <3>2 DEF SkelTypes, Skel!skel_release
    <3> QED BY <3>1, <3>2
  <2>4. bad' = FALSE
    BY <1>3, <1>h, <1>t, <2>2 DEF SkelTypes, Skel!skel_release, Skel!Used, Moves, Held
  <2>5. SkelTypes' /\ Locks' /\ Interface'
    BY <1>n, <1>t, <2>1, <2>2, <2>3, <2>4 DEF SkelTypes, Locks, Interface, Moves
  <2>6. References' /\ PlacesKept'
    BY <1>n, <1>t, <2>1, <2>2, <2>3 DEF References, Own, PlacesKept, Moves, H, W
  <2>7. skel.st = "live" /\ skel.interface => intf'.pm = Count(file', Powered)
    BY <1>n, <1>t, <2>2, <2>3 DEF Power, Moves, P
  <2>8. Power'
    BY <1>t, <2>1, <2>2, <2>7 DEF Power, Moves
  <2> QED BY <2>5, <2>6, <2>8 DEF SkelIInv
<1>4. CASE Skel!Released(f)
  <2>1. UNCHANGED <<intf, mutex, bkl, inflight, disc>> /\ skel' = Skel!Put(skel)
    BY <1>4 DEF Skel!Released
  <2>2. Moves(f, "closing", "closed", -1, 0, 0)
    BY <1>4, <1>m, FileMoves DEF Skel!Released
  <2>3. skel.st = "live" /\ bad' = FALSE
    BY <1>4, <1>h, <1>t, <2>2 DEF SkelTypes, Skel!Released, Skel!Used, Moves, Held
  <2>4. skel.kref = H + Own /\ skel.kref > 0 /\ Own \in Nat
    BY <1>t, <2>3 DEF References, Own, H
  <2>5. /\ skel' \in SkelStates /\ skel'.st = (IF skel.kref - 1 = 0 THEN "freed" ELSE "live")
        /\ skel'.kref = skel.kref - 1
        /\ skel'.interface = skel.interface /\ skel'.sem = skel.sem
    <3>1. skel.kref - 1 \in Nat /\ skel.kref = skel.kref - 1 + 1
      BY <1>n, <2>4
    <3> QED BY <1>t, <2>1, <2>3, <3>1, PutGives DEF SkelTypes
  <2>6. SkelTypes' /\ Locks' /\ Interface'
    BY <1>n, <1>t, <2>1, <2>2, <2>3, <2>5 DEF SkelTypes, Locks, Interface, Moves
  <2>7. References'
    BY <1>n, <1>t, <2>1, <2>2, <2>4, <2>5 DEF References, Own, Moves, H
  <2>8. PlacesKept' /\ Power'
    BY <1>n, <1>t, <2>1, <2>2, <2>3, <2>5 DEF PlacesKept, Power, Moves, H, P, W
  <2> QED BY <2>6, <2>7, <2>8 DEF SkelIInv
<1>5. CASE Skel!skel_read(f)
  <2>1. UNCHANGED <<skel, intf, bkl, inflight, disc>> /\ mutex = "nobody" /\ file[f] = "open"
    BY <1>5 DEF Skel!skel_read, Skel!NOBODY
  <2>2. bad' = FALSE
    BY <1>5, <1>h, <1>t, <2>1 DEF SkelTypes, Skel!skel_read, Skel!Used, Held
  <2>3. CASE skel.interface /\ Skel!Go(f, "open", "reading") /\ mutex' = f
    <3>1. Moves(f, "open", "reading", 0, 0, 0)
      BY <1>m, <2>3, FileMoves
    <3>2. SkelTypes' /\ Locks' /\ Interface'
      BY <1>n, <1>t, <2>1, <2>2, <2>3, <3>1 DEF SkelTypes, Locks, Interface, Moves
    <3>3. References' /\ PlacesKept' /\ Power'
      BY <1>n, <1>t, <2>1, <2>3, <3>1 DEF References, Own, PlacesKept, Power, Moves, H, P, W
    <3> QED BY <3>2, <3>3 DEF SkelIInv
  <2>4. CASE UNCHANGED <<file, mutex>>
    <3>1. SkelTypes' /\ Locks' /\ Interface'
      BY <1>t, <2>1, <2>2, <2>4 DEF SkelTypes, Locks, Interface
    <3>2. References' /\ PlacesKept' /\ Power'
      BY <1>t, <2>1, <2>4 DEF References, Own, PlacesKept, Power
    <3> QED BY <3>1, <3>2 DEF SkelIInv
  <2> QED BY <1>5, <2>3, <2>4 DEF Skel!skel_read
<1>6. CASE Skel!ReadEnds(f)
  <2>1. UNCHANGED <<skel, intf, bkl, inflight, disc>> /\ mutex' = "nobody"
    BY <1>6 DEF Skel!ReadEnds, Skel!NOBODY
  <2>2. Moves(f, "reading", "open", 0, 0, 0)
    BY <1>6, <1>m, FileMoves DEF Skel!ReadEnds
  <2>3. mutex = f /\ bad' = FALSE
    BY <1>6, <1>h, <1>t, <2>2 DEF SkelTypes, Skel!ReadEnds, Skel!Used, Moves, Held, Locks
  <2>4. SkelTypes' /\ Locks' /\ Interface'
    BY <1>n, <1>t, <2>1, <2>2, <2>3 DEF SkelTypes, Locks, Interface, Moves
  <2>5. References' /\ PlacesKept' /\ Power'
    BY <1>n, <1>t, <2>1, <2>2 DEF References, Own, PlacesKept, Power, Moves, H, P, W
  <2> QED BY <2>4, <2>5 DEF SkelIInv
<1>7. CASE Skel!skel_write(f)
  <2>1. /\ UNCHANGED <<intf, mutex, bkl, inflight, disc>> /\ skel.sem > 0
        /\ skel' = [skel EXCEPT !.sem = @ - 1]
    BY <1>7 DEF Skel!skel_write
  <2>2. Moves(f, "open", "limited", 0, 0, 1)
    BY <1>7, <1>m, FileMoves DEF Skel!skel_write
  <2>3. /\ skel' \in SkelStates /\ skel'.st = skel.st /\ skel'.kref = skel.kref
        /\ skel'.interface = skel.interface /\ skel'.sem = skel.sem - 1
    <3>1. skel.sem - 1 \in Nat
      BY <1>n, <2>1
    <3> QED BY <1>t, <2>1, <3>1 DEF SkelTypes, SkelStates
  <2>4. bad' = FALSE
    BY <1>7, <1>h, <1>t, <2>2 DEF SkelTypes, Skel!skel_write, Skel!Used, Moves, Held
  <2>5. SkelTypes' /\ Locks' /\ Interface'
    BY <1>n, <1>t, <2>1, <2>2, <2>3, <2>4 DEF SkelTypes, Locks, Interface, Moves
  <2>6. References' /\ PlacesKept' /\ Power'
    BY <1>n, <1>t, <2>1, <2>2, <2>3 DEF References, Own, PlacesKept, Power, Moves, H, P, W
  <2> QED BY <2>5, <2>6 DEF SkelIInv
<1>8. CASE Skel!Interfaced(f)
  <2>1. UNCHANGED <<skel, intf, bkl, inflight, disc>> /\ mutex = "nobody" /\ mutex' = f
    BY <1>8 DEF Skel!Interfaced, Skel!NOBODY
  <2>2. Moves(f, "limited", "building", 0, 0, 0)
    BY <1>8, <1>m, FileMoves DEF Skel!Interfaced
  <2>3. bad' = FALSE
    BY <1>8, <1>h, <1>t, <2>2 DEF SkelTypes, Skel!Interfaced, Skel!Used, Moves, Held
  <2>4. SkelTypes' /\ Locks' /\ Interface'
    BY <1>n, <1>t, <2>1, <2>2, <2>3 DEF SkelTypes, Locks, Interface, Moves
  <2>5. References' /\ PlacesKept' /\ Power'
    BY <1>n, <1>t, <2>1, <2>2 DEF References, Own, PlacesKept, Power, Moves, H, P, W
  <2> QED BY <2>4, <2>5 DEF SkelIInv
<1>9. CASE Skel!Submit(f)
  <2>1. /\ UNCHANGED <<skel, intf, bkl, disc>> /\ skel.interface /\ intf.plugged
        /\ inflight' = inflight + 1 /\ mutex' = "nobody"
    BY <1>9 DEF Skel!Submit, Skel!NOBODY
  <2>2. Moves(f, "building", "open", 0, 0, -1)
    BY <1>9, <1>m, FileMoves DEF Skel!Submit
  <2>3. mutex = f /\ bad' = FALSE
    BY <1>9, <1>h, <1>t, <2>2 DEF SkelTypes, Skel!Submit, Skel!Used, Moves, Held, Locks
  <2>i. inflight' \in Nat
    BY <1>n, <2>1
  <2>4. SkelTypes' /\ Locks' /\ Interface'
    BY <1>n, <1>t, <2>1, <2>2, <2>3, <2>i DEF SkelTypes, Locks, Interface, Moves
  <2>5. References' /\ PlacesKept' /\ Power'
    BY <1>n, <1>t, <2>1, <2>2 DEF References, Own, PlacesKept, Power, Moves, H, P, W
  <2> QED BY <2>4, <2>5 DEF SkelIInv
<1>10. CASE Skel!WriteFails(f)
  <2>1. /\ UNCHANGED <<intf, bkl, inflight, disc>> /\ mutex' = "nobody"
        /\ skel' = [skel EXCEPT !.sem = @ + 1]
    BY <1>10 DEF Skel!WriteFails, Skel!Given, Skel!NOBODY
  <2>2. Moves(f, "building", "open", 0, 0, -1)
    BY <1>10, <1>m, FileMoves DEF Skel!WriteFails
  <2>3. mutex = f /\ skel.st = "live" /\ bad' = FALSE
    BY <1>10, <1>h, <1>t, <2>2 DEF SkelTypes, Skel!WriteFails, Skel!Used, Moves, Held, Locks
  <2>4. /\ skel' \in SkelStates /\ skel'.st = skel.st /\ skel'.kref = skel.kref
        /\ skel'.interface = skel.interface /\ skel'.sem = skel.sem + 1
    BY <1>t, <2>1 DEF SkelTypes, SkelStates
  <2>5. SkelTypes' /\ Locks' /\ Interface'
    BY <1>n, <1>t, <2>1, <2>2, <2>3, <2>4 DEF SkelTypes, Locks, Interface, Moves
  <2>6. Count(file', Writing) \in Nat
    BY CountTypes
  <2>7. References' /\ Power'
    BY <1>n, <1>t, <2>1, <2>2, <2>4 DEF References, Own, Power, Moves, H, P, W
  <2>8. PlacesKept'
    BY <1>n, <1>t, <2>1, <2>2, <2>3, <2>4, <2>6 DEF PlacesKept, Moves, W
  <2> QED BY <2>5, <2>7, <2>8 DEF SkelIInv
<1> QED BY <1>1, <1>2, <1>3, <1>4, <1>5, <1>6, <1>7, <1>8, <1>9, <1>10

LEMMA SkelStep == SkelIInv /\ Skel!Next => SkelIInv'
BY DeviceStep, FileStep DEF Skel!Next

HIDE SkelAssumption

-----------------------------------------------------------------------------
(* The keypad.  While a row is remembered, the keys that are down have been *)
(* down since its interrupt, and one of those is of that row.  A reader     *)
(* that waits holds the semaphore, so nobody resets the key it was woken    *)
(* for.                                                                     *)
USE PadAssumption

PadTypes ==
    /\ down \subseteq Pad!Keys /\ cur_irq \in Rows \cup {0} /\ key_value \in 0 .. 16
    /\ irqs \subseteq Rows /\ st \in {"absent", "loaded", "open"}
    /\ DOMAIN reader = Readers

RowSeen ==
    cur_irq # 0 => down \subseteq since /\ \E k \in since : k[1] = cur_irq

ReaderHolds ==
    \A r \in Readers :
        /\ reader[r] \in {"idle", "waiting", "woken"}
        /\ reader[r] # "idle" => sem = r /\ st = "open"
        /\ reader[r] = "woken" => key_value # 0

PadIInv == PadTypes /\ RowSeen /\ ReaderHolds /\ got # 0

LEMMA PadInit == Pad!Init => PadIInv
BY DEF Pad!Init, PadIInv, PadTypes, RowSeen, ReaderHolds

\* The column that is found shows a key.
LEMMA FoundShows ==
    ASSUME \E c \in Cols : Pad!Shows(c)
    PROVE  Pad!Found \in Cols /\ Pad!Shows(Pad!Found)
<1> DEFINE S == {c \in Cols : Pad!Shows(c)}
<1>1. S \subseteq Nat /\ S # {}
  <2>1. S \subseteq Cols /\ Cols \subseteq 1 .. 4 /\ 1 .. 4 \subseteq Nat
    OBVIOUS
  <2> QED BY <2>1
<1>2. PICK x \in S : \A y \in S : x <= y
  <2> HIDE DEF S
  <2> QED BY <1>1, LeastExists
<1>3. \E c \in Cols : Pad!Shows(c) /\ \A d \in Cols : Pad!Shows(d) => c <= d
  BY <1>2
<1> QED BY <1>3 DEF Pad!Found

\* A key has a number.
LEMMA KeyNumber ==
    ASSUME NEW r \in Rows, NEW c \in Cols
    PROVE  Pad!KeyNo(r, c) \in 1 .. 16
<1>1. r \in 1 .. 4 /\ c \in 1 .. 4
  OBVIOUS
<1> QED BY <1>1 DEF Pad!KeyNo

LEMMA PadStep ==
    ASSUME PadIInv, Pad!Next
    PROVE  PadIInv'
<1>0. PadTypes /\ RowSeen /\ ReaderHolds /\ got # 0
  BY DEF PadIInv
<1>1. ASSUME NEW k \in Pad!Keys, Pad!Press(k)
      PROVE  PadIInv'
  <2>1. /\ k \notin down /\ down' = down \cup {k}
        /\ UNCHANGED <<key_value, irqs, owned, st, sem, reader, got>>
    BY <1>1 DEF Pad!Press
  <2>2. CASE k[1] \in irqs /\ ~(\E h \in down : h[1] = k[1])
    <3>1. cur_irq' = k[1] /\ since' = down'
      BY <1>1, <2>2 DEF Pad!Press, Pad!button_irq_handler
    <3>2. PadTypes'
      BY <1>0, <2>1, <2>2, <3>1 DEF PadTypes
    <3>3. RowSeen'
      BY <2>1, <3>1 DEF RowSeen
    <3>4. ReaderHolds'
      BY <1>0, <2>1 DEF ReaderHolds
    <3> QED BY <1>0, <2>1, <3>2, <3>3, <3>4 DEF PadIInv
  <2>3. CASE ~(k[1] \in irqs /\ ~(\E h \in down : h[1] = k[1]))
    <3>1. UNCHANGED cur_irq /\ since' = since \cup {k}
      BY <1>1, <2>3 DEF Pad!Press
    <3>2. PadTypes'
      BY <1>0, <2>1, <3>1 DEF PadTypes
    <3>3. RowSeen'
      BY <1>0, <2>1, <3>1 DEF RowSeen
    <3>4. ReaderHolds'
      BY <1>0, <2>1 DEF ReaderHolds
    <3> QED BY <1>0, <2>1, <3>2, <3>3, <3>4 DEF PadIInv
  <2> QED BY <2>2, <2>3
<1>2. ASSUME NEW k \in Pad!Keys, Pad!Release(k)
      PROVE  PadIInv'
  <2>1. /\ down' \subseteq down
        /\ UNCHANGED <<cur_irq, timer, key_value, irqs, owned, st, sem, reader, got, since>>
    BY <1>2 DEF Pad!Release
  <2> QED BY <1>0, <2>1 DEF PadIInv, PadTypes, RowSeen, ReaderHolds
<1>3. CASE Pad!delay_timer_fn
  <2>1. UNCHANGED <<down, cur_irq, irqs, owned, st, sem, reader, got, since>>
    BY <1>3 DEF Pad!delay_timer_fn
  <2>2. key_value' = key_value \/ key_value' \in 1 .. 16
    <3>1. CASE cur_irq # 0 /\ \E c \in Cols : Pad!Shows(c)
      <4>1. key_value' = Pad!KeyNo(cur_irq, Pad!Found)
        BY <1>3, <3>1 DEF Pad!delay_timer_fn
      <4>2. cur_irq \in Rows /\ Pad!Found \in Cols
        BY <1>0, <3>1, FoundShows DEF PadTypes
      <4> QED BY <4>1, <4>2, KeyNumber
    <3>2. CASE ~(cur_irq # 0 /\ \E c \in Cols : Pad!Shows(c))
      BY <1>3, <3>2 DEF Pad!delay_timer_fn
    <3> QED BY <3>1, <3>2
  <2>3. key_value' \in 0 .. 16 /\ (key_value # 0 => key_value' # 0)
    BY <1>0, <2>2 DEF PadTypes
  <2> QED BY <1>0, <2>1, <2>3 DEF PadIInv, PadTypes, RowSeen, ReaderHolds
<1>4. CASE Pad!keybutton_open
  <2>1. /\ st = "loaded" /\ irqs' \subseteq Rows /\ st' \in {"loaded", "open"}
        /\ UNCHANGED <<down, cur_irq, timer, key_value, owned, sem, reader, got, since>>
    BY <1>0, <1>4 DEF Pad!keybutton_open, PadTypes
  <2> QED BY <1>0, <2>1 DEF PadIInv, PadTypes, RowSeen, ReaderHolds
<1>5. CASE Pad!OtherGone
  BY <1>0, <1>5 DEF Pad!OtherGone, PadIInv, PadTypes, RowSeen, ReaderHolds
<1>6. ASSUME \A r \in Readers : reader[r] = "idle", PadTypes', RowSeen',
             UNCHANGED <<reader, got>>
      PROVE  PadIInv'
  BY <1>0, <1>6 DEF PadIInv, ReaderHolds
<1>7. CASE Pad!keybutton_close
  <2>1. /\ \A r \in Readers : reader[r] = "idle"
        /\ st' = "loaded" /\ irqs' = {}
        /\ UNCHANGED <<down, cur_irq, timer, key_value, owned, sem, reader, got, since>>
    BY <1>7 DEF Pad!keybutton_close
  <2>2. PadTypes' /\ RowSeen'
    BY <1>0, <2>1 DEF PadTypes, RowSeen
  <2> QED BY <1>6, <2>1, <2>2
<1>8. CASE Pad!button_init \/ Pad!button_exit
  <2>1. /\ st # "open" /\ st' \in {"loaded", "absent"} /\ cur_irq' \in {0, cur_irq}
        /\ key_value' \in {0, key_value}
        /\ UNCHANGED <<down, irqs, owned, sem, reader, got, since>>
    BY <1>8 DEF Pad!button_init, Pad!button_exit
  <2>2. \A r \in Readers : reader[r] = "idle"
    BY <1>0, <2>1 DEF ReaderHolds
  <2>3. PadTypes' /\ RowSeen'
    BY <1>0, <2>1 DEF PadTypes, RowSeen
  <2> QED BY <1>6, <2>1, <2>2, <2>3
<1>9. ASSUME NEW r \in Readers,
             Pad!keybutton_read(r) \/ Pad!Woken(r) \/ Pad!ReadEnds(r) \/ Pad!ReadSignalled(r)
      PROVE  PadIInv'
  <2>0. UNCHANGED <<down, cur_irq, irqs, st, since>>
    BY <1>9 DEF Pad!keybutton_read, Pad!Woken, Pad!ReadEnds, Pad!ReadSignalled
  <2>1. RowSeen'
    BY <1>0, <2>0 DEF RowSeen
  <2>2. CASE Pad!keybutton_read(r)
    <3>1. /\ st = "open" /\ sem = "free" /\ sem' = r /\ key_value' = 0
          /\ reader' = [reader EXCEPT ![r] = "waiting"] /\ UNCHANGED got
      BY <2>2 DEF Pad!keybutton_read, Pad!MayRead
    <3>2. \A q \in Readers : reader[q] = "idle"
      BY <1>0, <3>1 DEF ReaderHolds
    <3>3. PadTypes' /\ ReaderHolds'
      BY <1>0, <2>0, <3>1, <3>2 DEF PadTypes, ReaderHolds
    <3> QED BY <1>0, <2>1, <3>1, <3>3 DEF PadIInv
  <2>3. CASE Pad!Woken(r)
    <3>1. /\ reader[r] = "waiting" /\ key_value # 0 /\ UNCHANGED <<key_value, sem, got>>
          /\ reader' = [reader EXCEPT ![r] = "woken"]
      BY <2>3 DEF Pad!Woken
    <3>2. PadTypes' /\ ReaderHolds'
      BY <1>0, <2>0, <3>1 DEF PadTypes, ReaderHolds
    <3> QED BY <1>0, <2>1, <3>1, <3>2 DEF PadIInv
  <2>4. CASE Pad!ReadEnds(r) \/ Pad!ReadSignalled(r)
    <3>1. /\ reader[r] # "idle" /\ sem' = "free" /\ UNCHANGED key_value
          /\ reader' = [reader EXCEPT ![r] = "idle"]
      BY <2>4 DEF Pad!ReadEnds, Pad!ReadSignalled
    <3>2. \A q \in Readers : q # r => reader[q] = "idle"
      BY <1>0, <3>1 DEF ReaderHolds
    <3>3. PadTypes' /\ ReaderHolds'
      BY <1>0, <2>0, <3>1, <3>2 DEF PadTypes, ReaderHolds
    <3>4. got' # 0
      <4>1. CASE Pad!ReadEnds(r)
        BY <1>0, <4>1 DEF Pad!ReadEnds, ReaderHolds
      <4>2. CASE Pad!ReadSignalled(r)
        BY <4>2 DEF Pad!ReadSignalled
      <4> QED BY <2>4, <4>1, <4>2
    <3> QED BY <2>1, <3>3, <3>4 DEF PadIInv
  <2> QED BY <1>9, <2>2, <2>3, <2>4
<1> QED BY <1>1, <1>2, <1>3, <1>4, <1>5, <1>7, <1>8, <1>9 DEF Pad!Next

LEMMA PadSafe == PadIInv => Pad!Inv
<1> SUFFICES ASSUME PadIInv PROVE Pad!Inv
  OBVIOUS
<1>1. Pad!TypeOK /\ Pad!ReadsAKey
  BY DEF PadIInv, PadTypes, Pad!TypeOK, Pad!ReadsAKey
<1>2. ASSUME cur_irq # 0, \E c \in Cols : Pad!Shows(c), \A j, k \in since : j[1] = k[1]
      PROVE  <<cur_irq, Pad!Found>> \in down
  <2>1. PICK k \in down : k[2] = Pad!Found
    BY <1>2, FoundShows DEF Pad!Shows
  <2>2. k[1] = cur_irq
    BY <1>2 DEF PadIInv, RowSeen
  <2>3. k = <<k[1], k[2]>>
    BY DEF PadIInv, PadTypes, Pad!Keys
  <2> QED BY <2>1, <2>2, <2>3
<1>3. Pad!KeyWasDown
  BY <1>2 DEF Pad!KeyWasDown
<1> QED BY <1>1, <1>3 DEF Pad!Inv

HIDE PadAssumption

-----------------------------------------------------------------------------
(* The ring of button events.  How far the head is ahead of the tail, round *)
(* the end, is what is unread.                                             *)
USE RingAssumption

RingPlaces == 0 .. MAX_BUTTON_BUF - 1

Gap(h, t) == IF h >= t THEN h - t ELSE h - t + MAX_BUTTON_BUF

RingIInv ==
    /\ DOMAIN buf = RingPlaces
    /\ head \in RingPlaces /\ tail \in RingPlaces
    /\ unread = Gap(head, tail)
    /\ ringIrqs \subseteq Ring!IrqLines /\ buttonStatus \in 0 .. 8

LEMMA GapIsMod ==
    ASSUME NEW h \in RingPlaces, NEW t \in RingPlaces
    PROVE  Gap(h, t) \in RingPlaces /\ (h - t) % MAX_BUTTON_BUF = Gap(h, t)
<1> DEFINE M == MAX_BUTTON_BUF
<1>1. M \in Int /\ M > 0 /\ h \in Int /\ t \in Int
  BY DEF RingPlaces
<1>2. Gap(h, t) \in 0 .. M-1
  BY DEF RingPlaces, Gap
<1>3. CASE h >= t
  <2>1. M * 0 + (h - t) = h - t /\ Gap(h, t) = h - t
    BY <1>1, <1>3 DEF Gap
  <2>2. (M * 0 + (h - t)) % M = h - t
    BY <1>1, <1>2, <2>1, ModUnique
  <2> QED BY <1>2, <2>1, <2>2 DEF RingPlaces
<1>4. CASE ~(h >= t)
  <2>1. M * (-1) + Gap(h, t) = h - t
    BY <1>1, <1>4 DEF Gap
  <2>2. (M * (-1) + Gap(h, t)) % M = Gap(h, t)
    BY <1>1, <1>2, ModUnique
  <2> QED BY <1>2, <2>1, <2>2 DEF RingPlaces
<1> QED BY <1>3, <1>4

LEMMA NextPlace ==
    ASSUME NEW x \in RingPlaces
    PROVE  Ring!INCBUF(x) = IF x + 1 = MAX_BUTTON_BUF THEN 0 ELSE x + 1
<1>1. MAX_BUTTON_BUF \in Int /\ MAX_BUTTON_BUF > 0 /\ x \in 0 .. MAX_BUTTON_BUF - 1
  BY DEF RingPlaces
<1>2. (x + 1) % MAX_BUTTON_BUF = IF x + 1 >= MAX_BUTTON_BUF THEN 0 ELSE x + 1
  BY <1>1, ModNext
<1> QED BY <1>1, <1>2 DEF Ring!INCBUF

LEMMA RingInit == Ring!Init => RingIInv
<1> SUFFICES ASSUME Ring!Init PROVE RingIInv
  OBVIOUS
<1>1. /\ buf = [i \in 0 .. MAX_BUTTON_BUF - 1 |-> Ring!NOKEY] /\ head = 0 /\ tail = 0
      /\ buttonStatus = 0 /\ unread = 0 /\ ringIrqs = {}
  BY DEF Ring!Init, Ring!NOKEY
<1> QED BY <1>1 DEF RingIInv, RingPlaces, Gap

LEMMA RingStep ==
    ASSUME RingIInv, Ring!Next
    PROVE  RingIInv'
<1>0. MAX_BUTTON_BUF \in Nat \ {0} /\ head \in Int /\ tail \in Int
  BY DEF RingIInv, RingPlaces
<1>1. ASSUME NEW i \in Ring!IrqLines, Ring!isr_button(i)
      PROVE  RingIInv'
  <2>1. /\ buttonStatus' = buttonStatus /\ UNCHANGED <<tail, ringIrqs>>
        /\ buf' = [buf EXCEPT ![head] = buttonStatus']
        /\ head' = Ring!INCBUF(head)
        /\ unread' = IF head' = tail THEN 0 ELSE unread + 1
    BY <1>1 DEF Ring!isr_button, Ring!Status
  <2>2. head' = IF head + 1 = MAX_BUTTON_BUF THEN 0 ELSE head + 1
    BY <2>1, NextPlace DEF RingIInv
  <2>3. head' \in RingPlaces /\ unread' = Gap(head', tail)
    BY <1>0, <2>1, <2>2 DEF RingIInv, RingPlaces, Gap
  <2> QED BY <2>1, <2>3 DEF RingIInv
<1>2. CASE Ring!button_open
  <2>1. /\ head' = 0 /\ tail' = 0 /\ unread' = 0 /\ UNCHANGED <<buf, buttonStatus>>
        /\ ringIrqs' \subseteq Ring!IrqLines
    BY <1>2 DEF Ring!button_open, RingIInv
  <2> QED BY <1>0, <2>1 DEF RingIInv, RingPlaces, Gap
<1>3. CASE Ring!OtherGone
  BY <1>3 DEF Ring!OtherGone, RingIInv
<1>4. CASE Ring!button_release
  BY <1>4 DEF Ring!button_release, RingIInv
<1>5. ASSUME NEW r \in RingReaders, Ring!buttonRead(r)
      PROVE  RingIInv'
  <2>1. /\ head # tail /\ tail' = Ring!INCBUF(tail) /\ unread' = unread - 1
        /\ UNCHANGED <<buf, head, buttonStatus, ringIrqs>>
    BY <1>5 DEF Ring!buttonRead, Ring!NextTail
  <2>2. tail' = IF tail + 1 = MAX_BUTTON_BUF THEN 0 ELSE tail + 1
    BY <2>1, NextPlace DEF RingIInv
  <2>3. tail' \in RingPlaces /\ unread' = Gap(head, tail')
    BY <1>0, <2>1, <2>2 DEF RingIInv, RingPlaces, Gap
  <2> QED BY <2>1, <2>3 DEF RingIInv
<1>6. ASSUME NEW r \in RingReaders, Ring!Sleep(r) \/ Ring!Wake(r) \/ Ring!Retry(r) \/ Ring!Signalled(r)
      PROVE  RingIInv'
  BY <1>6 DEF Ring!Sleep, Ring!Wake, Ring!Retry, Ring!Signalled, RingIInv
<1> QED BY <1>1, <1>2, <1>3, <1>4, <1>5, <1>6 DEF Ring!Next

LEMMA RingSafe == RingIInv => Ring!Inv
<1> SUFFICES ASSUME RingIInv PROVE Ring!Inv
  OBVIOUS
<1>1. Gap(head, tail) \in RingPlaces /\ (head - tail) % MAX_BUTTON_BUF = Gap(head, tail)
  BY GapIsMod DEF RingIInv
<1>2. Ring!TypeOK
  BY <1>1 DEF Ring!TypeOK, RingIInv, RingPlaces
<1>3. Ring!RingMatches
  BY <1>1 DEF Ring!RingMatches, RingIInv
<1> QED BY <1>2, <1>3 DEF Ring!Inv


HIDE RingAssumption

-----------------------------------------------------------------------------
(* The theorems.  While one part runs nobody touches what the others have.  *)

\* A request of the MMC core that ends without an error was moved to its last
\* word, though the interrupt handler may end it between any two of the tasklet's
\* turns at the FIFO; the interrupt is enabled just while a command is on its
\* way, the clock of a read does not outlive it, and a probe that fails gives all
\* back (s3cmci_irq, pio_tasklet, finalize_request, s3cmci_probe).
THEOREM SuccessIsWholeTransfer == MCSpec => []MciInv
<1>1. MCInit => MciIInv
  BY MciInit DEF MCInit
<1>2. MciIInv /\ [MCNext]_all => MciIInv'
  <2> SUFFICES ASSUME MciIInv, [MCNext]_all PROVE MciIInv'
    OBVIOUS
  <2>1. CASE Mci!Next
    BY <2>1, MciStep
  <2>2. CASE UNCHANGED mciVars
    BY <2>2 DEF mciVars, MciIInv, MciTypes, Bounds,
       InBounds, Ahead, Busy, Leftover, HasData, Flow, DataPhase, StopPhase, Turn, Outcome
  <2> QED BY <2>1, <2>2 DEF MCNext, all
<1>3. MciIInv => MciInv
  BY MciSafe DEF MciInv
<1> QED BY <1>1, <1>2, <1>3, PTL DEF MCSpec

\* A CS8900 interface that is up receives, in the mode the core asked for, unless
\* an interrupt came between the two halves of an access to a register; one that
\* is down is not woken, and no event waits without an edge of the line to come
\* (cs8900_start, cs8900_set_receive_mode, cs8900_interrupt, cs8900_stop).
THEOREM InterfaceReceives == MCSpec => []ChipInv
<1>1. MCInit => ChipIInv
  BY ChipInit DEF MCInit
<1>2. ChipIInv /\ [MCNext]_all => ChipIInv'
  <2> SUFFICES ASSUME ChipIInv, [MCNext]_all PROVE ChipIInv'
    OBVIOUS
  <2>1. CASE Chip!Next
    BY <2>1, ChipStep
  <2>2. CASE UNCHANGED chipVars
    BY <2>2 DEF chipVars, ChipIInv, ChipTypes, Progs, Off,
       Read, Mode, Config, Zero, Registers, Fresh
  <2> QED BY <2>1, <2>2 DEF MCNext, all
<1>3. ChipIInv => ChipInv
  BY ChipSafe DEF ChipInv
<1> QED BY <1>1, <1>2, <1>3, PTL DEF MCSpec

\* The state of the USB skeleton is freed by the last that refers to it and not
\* used afterwards, every place of limit_sem is with a write, and there is no I/O
\* after the disconnect, whatever the files do meanwhile (skel_open, skel_release,
\* skel_write, skel_write_bulk_callback, skel_disconnect).
THEOREM LastOneFrees == MCSpec => []SkelInv
<1>1. MCInit => SkelIInv
  BY SkelInit DEF MCInit
<1>2. SkelIInv /\ [MCNext]_all => SkelIInv'
  <2> SUFFICES ASSUME SkelIInv, [MCNext]_all PROVE SkelIInv'
    OBVIOUS
  <2>1. CASE Skel!Next
    BY <2>1, SkelStep
  <2>2. CASE UNCHANGED skelVars
    BY <2>2 DEF skelVars, SkelIInv, SkelTypes, Locks,
       Interface, References, Own, PlacesKept, Power, Count, Skel!Cardinality, Cardinality
  <2> QED BY <2>1, <2>2 DEF MCNext, all
<1>3. SkelIInv => SkelInv
  BY SkelSafe DEF SkelInv
<1> QED BY <1>1, <1>2, <1>3, PTL DEF MCSpec

\* A read of the keypad that no signal ended gives a key, and a key that is found
\* when the timer runs is down, unless keys of two rows were down since the
\* interrupt (the interrupt handler, delay_timer_fn and the read of the driver).
THEOREM ReadsAreKeys == MCSpec => []PadInv
<1>1. MCInit => PadIInv
  BY PadInit DEF MCInit
<1>2. PadIInv /\ [MCNext]_all => PadIInv'
  <2> SUFFICES ASSUME PadIInv, [MCNext]_all PROVE PadIInv'
    OBVIOUS
  <2>1. CASE Pad!Next
    BY <2>1, PadStep
  <2>2. CASE UNCHANGED padVars
    BY <2>2 DEF padVars, PadIInv, PadTypes, RowSeen, ReaderHolds
  <2> QED BY <2>1, <2>2 DEF MCNext, all
<1>3. PadIInv => PadInv
  BY PadSafe DEF PadInv
<1> QED BY <1>1, <1>2, <1>3, PTL DEF MCSpec

\* The ring of button events holds what was put and not taken, round its end, for
\* every length of the ring and number of readers (the interrupt handler, the
\* read and INCBUF).
THEOREM RingMatchesUnread == MCSpec => []KeyRingInv
<1>1. MCInit => RingIInv
  BY RingInit DEF MCInit
<1>2. RingIInv /\ [MCNext]_all => RingIInv'
  <2> SUFFICES ASSUME RingIInv, [MCNext]_all PROVE RingIInv'
    OBVIOUS
  <2>1. CASE Ring!Next
    BY <2>1, RingStep
  <2>2. CASE UNCHANGED ringVars
    BY <2>2 DEF ringVars, RingIInv, Gap
  <2> QED BY <2>1, <2>2 DEF MCNext, all
<1>3. RingIInv => KeyRingInv
  BY RingSafe DEF KeyRingInv
<1> QED BY <1>1, <1>2, <1>3, PTL DEF MCSpec
=============================================================================

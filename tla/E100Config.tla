------------------------------ MODULE E100Config ------------------------------
(***************************************************************************)
(* What the e100 driver keeps in the adapter besides the rings: the EEPROM *)
(* with its checksum, of which the driver has a cache, and the choice of   *)
(* one PHY among those on the MDIO bus.                                    *)
(***************************************************************************)
EXTENDS Naturals

CONSTANTS
    WC,         \* words of the EEPROM (nic->eeprom_wc)
    M,          \* values of a word (2^16)
    MaxLen,     \* bytes of a write
    Addrs       \* addresses on the MDIO bus, 0 .. 31

VARIABLES
    dev,        \* words of the EEPROM
    cache,      \* nic->eeprom
    stale,      \* words that a refused write has changed in the cache only
    wrong,      \* the checksum was last made with such words in it
    phys,       \* address -> "absent", "on" or "isolated"
    phyId       \* nic->mii.phy_id, or 32 before e100_phy_init

vars == <<dev, cache, stale, wrong, phys, phyId>>

Word == 0 .. WC - 1

\* The sum of all words is to be Baba (0xBABA): what the last has to be.
Baba == 2
Sum(w) ==
    LET total[n \in 0 .. WC - 1] == IF n = 0 THEN 0 ELSE total[n - 1] + w[n - 1]
    IN  total[WC - 1]
Right(w) == (Baba + WC * M - Sum(w)) % M

Init ==
    /\ dev \in {w \in [Word -> 0 .. M - 1] : w[WC - 1] = Right(w)}
    /\ cache = dev /\ stale = {} /\ wrong = FALSE
    /\ phys \in [Addrs -> {"absent", "on"}]
    /\ phyId = 32

-----------------------------------------------------------------------------
\* e100_eeprom_load, also of e100_diag_test: the whole EEPROM goes into the
\* cache, whether or not the checksum is right.
e100_eeprom_load ==
    /\ cache' = dev /\ stale' = {}
    /\ UNCHANGED <<dev, wrong, phys, phyId>>

\* Words that e100_set_eeprom has saved: from offset >> 1 on.
CountOf(offset, len) == len \div 2 + 1

\* The words in which len bytes from offset lie.
Touched(offset, len) == {b \div 2 : b \in offset .. offset + len - 1}

\* e100_eeprom_save: the words, then the checksum, from the cache.
Saved(w, start, count) ==
    LET sum == Right(w)
    IN  [cache |-> [w EXCEPT ![WC - 1] = sum],
         dev   |-> [k \in Word |-> CASE k = WC - 1 -> sum
                                     [] k \in start .. start + count - 1 -> w[k]
                                     [] OTHER -> dev[k]]]

\* e100_set_eeprom: the bytes go to the cache before e100_eeprom_save looks at
\* the range and refuses it if it reaches the last word.  A later write that is
\* not refused makes its checksum from the cache as it is.
e100_set_eeprom ==
    \E offset \in 0 .. 2 * WC - 1, len \in 1 .. MaxLen :
        LET words == Touched(offset, len)
            start == offset \div 2
            count == CountOf(offset, len)
            left == stale \ ((start .. start + count - 1) \cup {WC - 1})
        IN  /\ offset + len <= 2 * WC
            /\ \E new \in [words -> 0 .. M - 1] :
                LET w == [k \in Word |-> IF k \in words THEN new[k] ELSE cache[k]]
                IN  IF start + count >= WC
                    THEN /\ cache' = w /\ stale' = stale \cup words
                         /\ UNCHANGED <<dev, wrong>>
                    ELSE /\ cache' = Saved(w, start, count).cache
                         /\ dev' = Saved(w, start, count).dev
                         /\ stale' = left /\ wrong' = (left # {})
            /\ UNCHANGED <<phys, phyId>>

-----------------------------------------------------------------------------
\* The order {1, 0, 2, ..., 31} in which the addresses are tried.
Rank(a) == CASE a = 1 -> 0 [] a = 0 -> 1 [] OTHER -> a

\* BMCR_ISOLATE is taken back from the PHY that has been chosen.
PhySelected(a) == "on"

\* e100_phy_init: the first PHY that answers is taken, the others isolated.
\* Also after a PCI error, when they are isolated from the first time.
e100_phy_init ==
    LET found == {a \in Addrs : phys[a] # "absent"}
    IN  /\ found # {}
        /\ phyId' = CHOOSE a \in found : \A b \in found : Rank(a) <= Rank(b)
        /\ phys' = [a \in Addrs |-> CASE phys[a] = "absent" -> "absent"
                                      [] a = phyId' -> PhySelected(a)
                                      [] OTHER -> "isolated"]
        /\ UNCHANGED <<dev, cache, stale, wrong>>

\* A PHY loses its setting, isolated or not, when the bus is reset.
SlotReset ==
    /\ \E a \in Addrs : phys[a] # "absent"
    /\ \E p \in [Addrs -> {"on", "isolated"}] :
         phys' = [a \in Addrs |-> IF phys[a] = "absent" THEN "absent" ELSE p[a]]
    /\ phyId' = 32
    /\ UNCHANGED <<dev, cache, stale, wrong>>

Eeprom == e100_eeprom_load \/ e100_set_eeprom

Phys == e100_phy_init \/ SlotReset

Next == Eeprom \/ Phys

Spec == Init /\ [][Next]_vars

-----------------------------------------------------------------------------
TypeOK ==
    /\ dev \in [Word -> 0 .. M - 1] /\ cache \in [Word -> 0 .. M - 1]
    /\ stale \subseteq Word /\ wrong \in BOOLEAN
    /\ phys \in [Addrs -> {"absent", "on", "isolated"}]
    /\ phyId \in Addrs \cup {32}

\* "calculated such that the sum of words should be 0xBABA": whatever ranges of
\* bytes are written and refused, the words that are not stale are in the device
\* as they were written, and its checksum is right unless it was made with stale
\* words in it; the next load and write put that right again.
ChecksumRight ==
    /\ \A k \in Word \ stale : cache[k] = dev[k]
    /\ ~wrong => dev[WC - 1] = Right(dev)

\* One PHY drives the medium, the one the driver talks to.
OnePhy == phyId # 32 => \A a \in Addrs : phys[a] = "on" <=> a = phyId

\* What holds in every state: types, the EEPROM and the PHY.
Inv == TypeOK /\ ChecksumRight /\ OnePhy
=============================================================================

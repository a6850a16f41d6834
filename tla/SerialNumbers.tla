---------------------------- MODULE SerialNumbers ----------------------------
(***************************************************************************)
(* The 32-bit arithmetic of the packet windows.                            *)
(*                                                                         *)
(* The registers of a transmit window hold PSNs modulo 2^32 and its bitmap *)
(* is indexed by distance from the base; packets are compared with the     *)
(* distance-based SeqLT and its siblings.  Here the registers have the     *)
(* width of the code (scaled by Half) and history variables record the     *)
(* PSNs they stand for.                                                    *)
(*                                                                         *)
(* Source: host/falcon/falcon_protocol_connection_scheduler_types.h,       *)
(* falcon_protocol_packet_reliability_manager.cc and falcon_bitmap.cc.     *)
(***************************************************************************)
EXTENDS Integers

CONSTANTS
  Half,    \* 2^31: half of the number space
  Size,    \* width of the transmit bitmap
  Lag,     \* bound: how far an ACK in flight may be behind
  LastPsn  \* bound: packets sent

ASSUME HalfAssumption ==
  /\ Half \in Nat \ {0} /\ Size \in Nat \ {0} /\ Lag \in Nat /\ LastPsn \in Nat
  /\ Size < Half /\ Lag < Half

VARIABLES
  basePsn, nextPsn,  \* base_ and next_packet_sequence_number, modulo 2^32
  window,            \* indices of the bits set in the bitmap
  crashed,           \* a bounds CHECK of FalconBitmap has failed
  trueBase, trueNext, trueAcked  \* history: the PSNs they stand for

psnVars == <<basePsn, nextPsn, window, crashed, trueBase, trueNext, trueAcked>>

Modulus == 2 * Half
Wrap(x) == x % Modulus

\* static_cast<int32_t>.
Signed(d) == IF d >= Half THEN d - Modulus ELSE d

SeqLT(a, b) == Signed(Wrap(a - b)) < 0

SeqGT(a, b) == Signed(Wrap(a - b)) > 0

\* Mutant: the distance is not reduced.
IndexUnwrapped(psn) == psn - basePsn

\* The bitmap index of a PSN.
Index(psn) == Wrap(psn - basePsn)

\* The indices a right shift by n keeps.
RightShift(bits, n) == {i - n : i \in {j \in bits : j >= n}}

PsnInit ==
  /\ basePsn = 0 /\ nextPsn = 0 /\ window = {} /\ crashed = FALSE
  /\ trueBase = 0 /\ trueNext = 0 /\ trueAcked = {}

\* TransmitPacket under a congestion window of fcwnd packets (GetOpenFcwnd).
TransmitPsn(fcwnd) ==
  /\ trueNext < LastPsn
  /\ SeqLT(nextPsn, Wrap(basePsn + fcwnd))
  /\ nextPsn' = Wrap(nextPsn + 1)
  /\ trueNext' = trueNext + 1
  /\ UNCHANGED <<basePsn, window, crashed, trueBase, trueAcked>>

\* Mutant: the base PSNs are compared as plain numbers.
HandleACKPlain(b) ==
  /\ b \in (trueBase - Lag)..trueNext /\ b >= 0
  /\ Wrap(b) > basePsn
  /\ basePsn' = Wrap(b)
  /\ window' = RightShift(window, Index(Wrap(b)))
  /\ trueBase' = IF b > trueBase THEN b ELSE trueBase
  /\ trueAcked' = {p \in trueAcked : p >= b}
  /\ UNCHANGED <<nextPsn, crashed, trueNext>>

\* HandleACK for an ACK with base PSN b.
HandleACK(b) ==
  /\ b \in (trueBase - Lag)..trueNext /\ b >= 0
  /\ ~SeqLT(Wrap(b), basePsn) /\ SeqGT(Wrap(b), basePsn)
  /\ basePsn' = Wrap(b)
  /\ window' = RightShift(window, Index(Wrap(b)))
  /\ trueBase' = IF b > trueBase THEN b ELSE trueBase
  /\ trueAcked' = {p \in trueAcked : p >= b}
  /\ UNCHANGED <<nextPsn, crashed, trueNext>>

\* HandleEACK: bit i of an ACK bitmap aligned with the window.
HandleEACK(p) ==
  /\ p \in trueBase..(trueNext - 1) /\ p # trueBase
  /\ window' = window \cup {Index(Wrap(p))}
  /\ trueAcked' = trueAcked \cup {p}
  /\ UNCHANGED <<basePsn, nextPsn, crashed, trueBase, trueNext>>

\* HandleImplicitAck for the request or grant with PSN p: the base and the PSN
\* are compared as plain numbers, and the index is checked by the bitmap.
HandleImplicitAck(p) ==
  LET psn   == Wrap(p)
      index == Index(psn)
  IN  /\ p \in (trueBase - Lag)..(trueNext - 1) /\ p >= 0
      /\ psn >= basePsn
      /\ \/ /\ Signed(index) \notin 0..(Size - 1)
            /\ crashed' = TRUE
            /\ UNCHANGED <<basePsn, nextPsn, window, trueBase, trueNext, trueAcked>>
         \/ /\ Signed(index) \in 0..(Size - 1) /\ index \notin window
            /\ IF psn = basePsn
               THEN /\ basePsn' = Wrap(basePsn + 1)
                    /\ window' = RightShift(window, 1)
                    /\ trueBase' = p + 1
                    /\ trueAcked' = {q \in trueAcked : q > p}
               ELSE /\ window' = window \cup {index}
                    /\ trueAcked' = trueAcked \cup {p}
                    /\ UNCHANGED <<basePsn, trueBase>>
            /\ UNCHANGED <<nextPsn, crashed, trueNext>>

PsnNext ==
  /\ ~crashed
  /\ \/ \E f \in 1..Size : TransmitPsn(f)
     \/ \E b \in 0..LastPsn : HandleACK(b)
     \/ \E p \in 0..LastPsn : HandleEACK(p)
     \/ \E p \in 0..LastPsn : HandleImplicitAck(p)

PsnSpec == PsnInit /\ [][PsnNext]_psnVars

----------------------------------------------------------------------------
\* The registers stay in their width, the bits in the bitmap.
PsnTypeOK ==
  /\ basePsn \in 0..(Modulus - 1) /\ nextPsn \in 0..(Modulus - 1)
  /\ window \subseteq 0..(Size - 1)
  /\ crashed \in BOOLEAN
  /\ trueBase \in 0..trueNext /\ trueNext \in 0..LastPsn

\* However often the PSNs wrap around, base, next and every bit stand for the
\* packets that were really sent and acknowledged, and the window never holds
\* more packets than the bitmap has bits.
RegistersTrackPsns ==
  /\ basePsn = Wrap(trueBase) /\ nextPsn = Wrap(trueNext)
  /\ trueNext - trueBase <= Size
  /\ trueAcked = {trueBase + i : i \in window}
=============================================================================

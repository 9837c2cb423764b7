------------------------------ MODULE DefaultCC ------------------------------
(***************************************************************************)
(* DefaultCC of User-space/copaP/congctrls.hh, the AIMD controller of the   *)
(* sender (cctype=tcp).  The window is counted in whole packets: additive   *)
(* increase by 1 / window takes it to the next one or not.                  *)
(***************************************************************************)
EXTENDS Integers

VARIABLES window,           \* _the_window
          m_issthresh, m_bSlowStart,
          m_iDupACKCount, m_iLastACK,
          cuts              \* history: how often DupACKAction() was called

\* The constructor and the first init(), which sets the threshold to true
\* and slow start to 83333.
Init ==
    /\ window = 2
    /\ m_issthresh = 1 /\ m_bSlowStart = TRUE
    /\ m_iDupACKCount = 0 /\ m_iLastACK = 0
    /\ cuts = 0

\* init() of a later flow or after an ack timeout keeps the duplicates counted.
init ==
    /\ m_issthresh' = 1 /\ m_bSlowStart' = TRUE
    /\ window' = 2
    /\ UNCHANGED <<m_iDupACKCount, m_iLastACK, cuts>>

\* Mutant: slow start ends before the window grows.
ACKActionTooLate(w) ==
    \/ /\ m_bSlowStart
       /\ window' = w /\ m_bSlowStart' = (w < m_issthresh)
    \/ /\ ~m_bSlowStart
       /\ window' \in {w, w + 1} /\ UNCHANGED m_bSlowStart

\* ACKAction() with a window of w
ACKAction(w) ==
    \/ /\ m_bSlowStart
       /\ window' = w + 1 /\ m_bSlowStart' = (w + 1 < m_issthresh)
    \/ /\ ~m_bSlowStart
       /\ window' \in {x \in {w, w + 1} : w = 1 => x = 2}
       /\ UNCHANGED m_bSlowStart

Halved == IF window \div 2 < 2 THEN 2 ELSE window \div 2

DupACKAction ==
    /\ m_bSlowStart' = FALSE
    /\ m_issthresh' = Halved /\ window' = Halved + 3
    /\ cuts' = cuts + 1

\* onTimeout(), when a round of send_data() took more than 1000 ms
onTimeout ==
    /\ m_issthresh' = Halved
    /\ m_bSlowStart' = TRUE /\ window' = 2
    /\ UNCHANGED <<m_iDupACKCount, m_iLastACK, cuts>>

\* The third ack of one number is taken for a loss.
RepeatedACK ==
    /\ m_iDupACKCount' = m_iDupACKCount + 1 /\ UNCHANGED m_iLastACK
    /\ \/ m_iDupACKCount' = 3 /\ DupACKAction
       \/ /\ m_iDupACKCount' > 3
          /\ window' = window + 1
          /\ UNCHANGED <<m_issthresh, m_bSlowStart, cuts>>
       \/ /\ m_iDupACKCount' < 3
          /\ ACKAction(window)
          /\ UNCHANGED <<m_issthresh, cuts>>

NewACK(ack) ==
    /\ m_iDupACKCount' = 1 /\ m_iLastACK' = ack
    /\ ACKAction(IF m_iDupACKCount >= 3 THEN m_issthresh ELSE window)
    /\ UNCHANGED <<m_issthresh, cuts>>

\* Mutant: an ack is taken to be cumulative, and a late one to repeat it.
onACK_cumulative(ack) == IF ack <= m_iLastACK THEN RepeatedACK ELSE NewACK(ack)

onACK(ack) == IF ack = m_iLastACK THEN RepeatedACK ELSE NewACK(ack)
=============================================================================

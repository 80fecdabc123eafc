------------------------------ MODULE Session ------------------------------
(***************************************************************************)
(* What the client promises of its connection, without saying who asks for *)
(* it or who holds which lock.  There is one session at most.  A new one   *)
(* is dialled in a series of tries, each with a session of its own, that   *)
(* nobody interrupts but the one who dials.  Only a whole series that has  *)
(* failed makes the client refuse to dial for a while, and so only without *)
(* a connection; only time, or closing the client, ends that.              *)
(***************************************************************************)
EXTENDS Naturals

CONSTANTS Sessions, None, MaxTries

VARIABLES session, status, tries, refusing

vars == <<session, status, tries, refusing>>

Init ==
    /\ session = None
    /\ status = "none"
    /\ tries = 0
    /\ refusing = FALSE

(* The next try, of a series or the first of one, on a session that is not *)
(* the last one.                                                           *)
Dial(s) ==
    /\ ~refusing
    /\ tries < MaxTries
    /\ s # session
    /\ session' = s
    /\ status' = "new"
    /\ tries' = tries + 1
    /\ UNCHANGED refusing

Established ==
    /\ tries > 0 /\ status = "new"
    /\ status' = "up"
    /\ tries' = 0
    /\ UNCHANGED <<session, refusing>>

(* The one who dials gives up before the series is over.                   *)
Abandon ==
    /\ tries > 0 /\ status = "new"
    /\ tries' = 0
    /\ UNCHANGED <<session, status, refusing>>

Refuse ==
    /\ tries = MaxTries /\ status = "new"
    /\ tries' = 0
    /\ refusing' = TRUE
    /\ UNCHANGED <<session, status>>

Lapse ==
    /\ refusing
    /\ refusing' = FALSE
    /\ UNCHANGED <<session, status, tries>>

(* The session breaks, or is back.                                         *)
Flip ==
    /\ \/ status = "up" /\ status' = "lost"
       \/ status = "lost" /\ status' = "up"
    /\ UNCHANGED <<session, tries, refusing>>

(* The session is given up, on an error or because the client is closed,   *)
(* but not from under a try.                                               *)
Drop ==
    /\ tries = 0
    /\ session' = None
    /\ status' = "none"
    /\ refusing' \in {refusing, FALSE}
    /\ UNCHANGED tries

Next ==
    \/ \E s \in Sessions : Dial(s)
    \/ Established \/ Abandon \/ Refuse \/ Lapse \/ Flip \/ Drop

Spec == Init /\ [][Next]_vars
=============================================================================

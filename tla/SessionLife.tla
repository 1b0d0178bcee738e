----------------------------- MODULE SessionLife ------------------------------
(***************************************************************************)
(* What sign-in sessions are for those who use them: one record for each   *)
(* session, changed by atomic operations only.  A session is opened once   *)
(* under an id of its own, renewed from the tokens it holds, and ended     *)
(* once.  Between the reads, calls and writes of a refresh nothing is      *)
(* lost, put back or opened again.                                         *)
(***************************************************************************)
EXTENDS Naturals

CONSTANTS
  Session,   \* session ids
  Record,    \* records: access and refresh token, and the source of both
  None       \* no record, and no refresh token

VARIABLES
  record,    \* the record of every session
  opened     \* the sessions that were ever opened

vars == <<record, opened>>

Init ==
  /\ record = [s \in Session |-> None]
  /\ opened = {}

Open(s, rec) ==
  /\ s \notin opened
  /\ opened' = opened \cup {s}
  /\ record' = [record EXCEPT ![s] = rec]

(* The new tokens are later ones, obtained with the refresh token that the *)
(* session holds now; a session without one keeps its token.               *)
Renew(s, rec) ==
  LET old == record[s] IN
  /\ old # None /\ old.refresh # None
  /\ rec.source = old.source
  /\ old.access < rec.access
  /\ rec.refresh \in {old.refresh, rec.access}
  /\ record' = [record EXCEPT ![s] = rec]
  /\ UNCHANGED opened

End(s) ==
  /\ record[s] # None
  /\ record' = [record EXCEPT ![s] = None]
  /\ UNCHANGED opened

Next ==
  \E s \in Session : End(s) \/ \E rec \in Record : Open(s, rec) \/ Renew(s, rec)

Spec == Init /\ [][Next]_vars

=============================================================================

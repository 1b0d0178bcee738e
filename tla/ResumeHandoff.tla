--------------------------- MODULE ResumeHandoff ----------------------------
(***************************************************************************)
(* What the transactional outbox of the manual-review service promises to  *)
(* graph-build, without sessions, locks, attempts or crashes.              *)
(*                                                                         *)
(* Deciding a case leaves a job that is owed, for a new correction, and    *)
(* retrying it leaves another one for a correction that had one.  Graph-   *)
(* build takes a correction only while a job for it is owed.  A job is     *)
(* called delivered only once graph-build took its correction; it may be   *)
(* abandoned instead (the dead letters of the outbox).  A settled job      *)
(* stays settled, and, under fairness, no job is owed for ever.            *)
(***************************************************************************)
EXTENDS Naturals, Sequences

CONSTANTS
    Case,
    Number   \* numbers the jobs of a case

VARIABLES
    job,    \* the jobs of each case, oldest first: a correction and a state
    taken   \* the corrections of each case that graph-build has taken

vars == <<job, taken>>

Init ==
    /\ job = [c \in Case |-> <<>>]
    /\ taken = [c \in Case |-> {}]

Owed(c, o) == o \in DOMAIN job[c] /\ job[c][o].state = "owed"

Owe(c, k) ==
    /\ job' = [job EXCEPT ![c] = Append(@, [cor |-> k, state |-> "owed"])]
    /\ UNCHANGED taken

Take(c, o) ==
    /\ Owed(c, o)
    /\ taken' = [taken EXCEPT ![c] = @ \cup {job[c][o].cor}]
    /\ UNCHANGED job

Deliver(c, o) ==
    /\ Owed(c, o)
    /\ job[c][o].cor \in taken[c]
    /\ job' = [job EXCEPT ![c][o].state = "delivered"]
    /\ UNCHANGED taken

Abandon(c, o) ==
    /\ Owed(c, o)
    /\ job' = [job EXCEPT ![c][o].state = "abandoned"]
    /\ UNCHANGED taken

Next ==
    \E c \in Case :
        \/ \E k \in 1..(Len(job[c]) + 1) : Owe(c, k)
        \/ \E o \in DOMAIN job[c] : Take(c, o) \/ Deliver(c, o) \/ Abandon(c, o)

Spec == Init /\ [][Next]_vars

\* Every job is settled in the end, and settled jobs are never owed again.
JobsSettle == \A c \in Case : \A o \in Number : Owed(c, o) ~> ~Owed(c, o)

=============================================================================

-------------------------- MODULE CorrectionLedger ---------------------------
(***************************************************************************)
(* What the ledger of corrections promises to the people who use it,       *)
(* without sessions, snapshots, locks or rolled-back batches.              *)
(*                                                                         *)
(* A correction is filed once and has at most one job, which exists from   *)
(* the moment a second person approves it.  Dispatchers carry out due jobs *)
(* several at a time, and what people see of a correction changes together *)
(* with its job.  The graph is sent data of due jobs only, possibly long   *)
(* before the job is over.  A job that fails is due again until it has     *)
(* been tried MaxAttempts times; a manual retry makes it due afresh.       *)
(*                                                                         *)
(* What the ledger does not promise is that a decision still stands when   *)
(* it takes effect: a correction may be decided twice, and withdrawn or    *)
(* rejected when its job exists already, which is carried out all the same.*)
(***************************************************************************)
EXTENDS Naturals

CONSTANTS Correction, User, NoUser, MaxAttempts

VARIABLES
    shown,     \* the status people see of a correction
    author,    \* who filed it
    reviewer,  \* who decided it last
    job,       \* its job: a state, and the tries since it was last made due
    sent,      \* the corrections whose data the graph was sent
    adds       \* the corrections that have data to send; fixed

vars == <<shown, author, reviewer, job, sent, adds>>

Status == {"ABSENT", "PENDING_REVIEW", "PENDING_SYNC", "SYNC_FAILED", "COMPLETED",
           "REJECTED", "CANCELLED"}
Job == [state: {"none", "due", "stored", "delivered", "given_up"}, tries: 0..MaxAttempts]

Init ==
    /\ shown = [c \in Correction |-> "ABSENT"]
    /\ author = [c \in Correction |-> NoUser]
    /\ reviewer = [c \in Correction |-> NoUser]
    /\ job = [c \in Correction |-> [state |-> "none", tries |-> 0]]
    /\ sent = {}
    /\ adds \subseteq Correction

Filed(c) == shown[c] # "ABSENT"
SecondPerson(c, u) == u \notin {NoUser, author[c]}

File(c, u) ==
    /\ ~Filed(c)
    /\ shown' = [shown EXCEPT ![c] = "PENDING_REVIEW"]
    /\ author' = [author EXCEPT ![c] = u]
    /\ UNCHANGED <<reviewer, job, sent, adds>>

Withdraw(c) ==
    /\ Filed(c)
    /\ shown' = [shown EXCEPT ![c] = "CANCELLED"]
    /\ UNCHANGED <<author, reviewer, job, sent, adds>>

\* A decision of person u.
Review(c, u, status) ==
    /\ Filed(c) /\ SecondPerson(c, u)
    /\ shown' = [shown EXCEPT ![c] = status]
    /\ reviewer' = [reviewer EXCEPT ![c] = u]
    /\ UNCHANGED <<author, sent, adds>>

Reject(c, u) ==
    /\ Review(c, u, "REJECTED")
    /\ UNCHANGED job

Approve(c, u) ==
    /\ job[c].state = "none"
    /\ Review(c, u, "PENDING_SYNC")
    /\ job' = [job EXCEPT ![c] = [state |-> "due", tries |-> 0]]

Retry(c) ==
    /\ job[c].state # "none"
    /\ shown' = [shown EXCEPT ![c] = "PENDING_SYNC"]
    /\ job' = [job EXCEPT ![c] = [state |-> "due", tries |-> 0]]
    /\ UNCHANGED <<author, reviewer, sent, adds>>

Send(c) ==
    /\ job[c].state = "due" /\ c \in adds
    /\ sent' = sent \cup {c}
    /\ UNCHANGED <<shown, author, reviewer, job, adds>>

\* The job of correction c succeeds: its data is stored and, if it was to go to
\* the graph too, the graph was sent it.
Succeeds(c) ==
    /\ job'[c].state \in {"stored", "delivered"}
    /\ job'[c].state = "delivered" /\ c \in adds => c \in sent
    /\ shown'[c] = "COMPLETED"

\* It fails: people see it, unless a decision that came late hid the first
\* failure from them.
Fails(c) ==
    /\ job'[c].state = IF job'[c].tries = MaxAttempts THEN "given_up" ELSE "due"
    /\ \/ shown'[c] = "SYNC_FAILED"
       \/ job[c].tries > 0 /\ shown[c] \in {"REJECTED", "CANCELLED"} /\ shown'[c] = shown[c]

\* One transaction settles one attempt of each job in S.
Carry(S) ==
    /\ \A c \in S : job[c].state = "due"
    /\ job' \in [Correction -> Job] /\ shown' \in [Correction -> Status]
    /\ \A c \in S : job'[c].tries = job[c].tries + 1 /\ (Succeeds(c) \/ Fails(c))
    /\ \A c \in Correction \ S : job'[c] = job[c] /\ shown'[c] = shown[c]
    /\ UNCHANGED <<author, reviewer, sent, adds>>

Next ==
    \/ \E c \in Correction :
          \/ \E u \in User : File(c, u) \/ Reject(c, u) \/ Approve(c, u)
          \/ Withdraw(c)
          \/ Retry(c)
          \/ Send(c)
    \/ \E S \in SUBSET Correction : Carry(S)

Spec == Init /\ [][Next]_vars

=============================================================================

------------------------------ MODULE RssPush -------------------------------
(***************************************************************************)
(* RssFetcher's mail jobs.  SendEmailScheduler gives every user a Quartz   *)
(* job; SendEmailJob takes the time, asks Elasticsearch for what has been  *)
(* stored since the last push, mails each hit, notes the time and          *)
(* schedules itself again.  Each action is one call of Elasticsearch, the  *)
(* mail server or MongoDB with the thread-local code around it.            *)
(***************************************************************************)
EXTENDS Integers, FiniteSets

LOCAL INSTANCE FiniteSetsExt

CONSTANTS
  Users,
  Articles,
  Wants,        \* Wants[u]: the articles that match the keyword of u
  Size,         \* 10 in the code
  PushRate,     \* property "mail.pushrate"
  Minute,       \* ticks in a minute: dates in a JobDataMap have no seconds
  IndexLag,     \* whether the index follows the database with a delay
  Faults,       \* what may go wrong: subset of FaultKinds
  Settled,      \* the time after which no article is stored
  MaxNow,       \* bound on the clock
  MaxFaults,    \* bound on the faults of a run
  NONE

FaultKinds == {"query", "send", "update", "crash"}

ASSUME PushAssumption ==
  /\ Wants \in [Users -> SUBSET Articles]
  /\ Size \in Nat \ {0} /\ Minute \in Nat \ {0} /\ PushRate \in Nat
  /\ IndexLag \in BOOLEAN /\ Faults \subseteq FaultKinds
  /\ MaxNow \in Nat /\ MaxFaults \in Nat /\ NONE \notin Int
\* What is stored last still meets a push: jobs come back within PushRate.
ASSUME SettledAssumption == Settled \in Nat /\ Settled + PushRate <= MaxNow

VARIABLES
  now,
  stamp,        \* stamp[a]: timestamp of article a, NONE before it is stored
  index,        \* the Elasticsearch index
  lastpush,     \* lastpush[u]: lastpushdate of u in the database
  job,          \* job[u]: the SendEmailJob of u
  mails,        \* history: mails[u][a]: how often a was mailed to u
  faults,       \* history: faults[x]: number of faults of kind x
  excused       \* history: <<u, a>> when a reached the index after a push had
                \* asked for its time, did not fit, or could not be sent

vars == <<now, stamp, index, lastpush, job, mails, faults, excused>>

\* A fault of kind x happens; the number of faults is bounded.
Fault(x) ==
  /\ x \in Faults
  /\ MapThenSumSet(LAMBDA y : faults[y], FaultKinds) < MaxFaults
  /\ faults' = [faults EXCEPT ![x] = @ + 1]

\* Faulty variant of Truncated: the date is rounded up.
RoundedUp(date) ==
  IF date = NONE THEN NONE ELSE ((date + Minute - 1) \div Minute) * Minute

\* What is left of a date after format and parse with SimpleDateFormat(), in a
\* time zone without summer time: there no hour of the clock comes twice.
Truncated(date) == IF date = NONE THEN NONE ELSE (date \div Minute) * Minute

\* The job run() makes for a user; it is to start at once.
NewJob(u) ==
  [pc |-> "waiting", at |-> now, last |-> Truncated(lastpush[u]),
   date |-> NONE, hits |-> {}]

Init ==
  /\ now = 0
  /\ stamp = [a \in Articles |-> NONE]
  /\ index = {}
  /\ lastpush = [u \in Users |-> NONE]
  /\ job = [u \in Users |-> NewJob(u)]
  /\ mails = [u \in Users |-> [a \in Articles |-> 0]]
  /\ faults = [x \in FaultKinds |-> 0]
  /\ excused = {}

-----------------------------------------------------------------------------
(***************************************************************************)
(* The outside world                                                       *)
(***************************************************************************)

Stored == {a \in Articles : stamp[a] # NONE}

\* The clock.  The end of the modelled time comes after the index has caught up.
Tick ==
  /\ now < MaxNow
  /\ now >= Settled => Stored = index
  /\ now' = now + 1
  /\ UNCHANGED <<stamp, index, lastpush, job, mails, excused, faults>>

Store(a) ==
  /\ now <= Settled
  /\ a \notin Stored
  /\ stamp' = [stamp EXCEPT ![a] = now]
  /\ index' = IF IndexLag THEN index ELSE index \cup {a}
  /\ UNCHANGED <<now, lastpush, job, mails, excused, faults>>

\* The date from which the push of u that comes next asks: by the JobDataMap,
\* by the database, and by the push that is running once it has asked.
NextFrom(u) ==
  {job[u].last, Truncated(lastpush[u])}
  \cup (IF job[u].pc \in {"send", "reschedule"} THEN {Truncated(job[u].date)} ELSE {})

PassedOver(u, a) == \E last \in NextFrom(u) : last # NONE /\ stamp[a] < last

Index(a) ==
  /\ a \in Stored \ index
  /\ index' = index \cup {a}
  /\ excused' = excused \cup ({u \in Users : PassedOver(u, a)} \X {a})
  /\ UNCHANGED <<now, stamp, lastpush, job, mails, faults>>

\* The program is stopped and started.
Restart ==
  /\ Fault("crash")
  /\ job' = [u \in Users |-> NewJob(u)]
  /\ UNCHANGED <<now, stamp, index, lastpush, mails, excused>>

-----------------------------------------------------------------------------
(***************************************************************************)
(* SendEmailJob.execute                                                    *)
(***************************************************************************)

\* The trigger fires when its time has come.
Start(u) ==
  /\ job[u].pc = "waiting"
  /\ job[u].at <= now
  /\ job' = [job EXCEPT ![u].pc = "query", ![u].date = now]
  /\ UNCHANGED <<now, stamp, index, lastpush, mails, excused, faults>>

\* Faulty variant of Hits: the range filter excludes its lower end.
HitsExclusive(u, last, date) ==
  {a \in index \cap Wants[u] : stamp[a] <= date /\ (last = NONE \/ stamp[a] > last)}

Hits(u, last, date) ==
  {a \in index \cap Wants[u] : stamp[a] <= date /\ (last = NONE \/ stamp[a] >= last)}

\* The hits are not sorted by time: any Size of them may be the answer.
Query(u) ==
  LET hits == Hits(u, job[u].last, job[u].date)
  IN  /\ job[u].pc = "query"
      /\ \E S \in SUBSET hits :
           /\ Cardinality(S) <= Size
           /\ S # hits => Cardinality(S) = Size
           /\ job' = [job EXCEPT ![u].pc = "send", ![u].hits = S]
           /\ excused' = excused \cup ({u} \X (hits \ S))
      /\ UNCHANGED <<now, stamp, index, lastpush, mails, faults>>

\* Nobody catches an exception of Elasticsearch: the job ends for good.
QueryFails(u) ==
  /\ Fault("query")
  /\ job[u].pc = "query"
  /\ job' = [job EXCEPT ![u].pc = "dead"]
  /\ UNCHANGED <<now, stamp, index, lastpush, mails, excused>>

\* One hit is mailed; an exception of Send is logged and the loop goes on.
SendHit(u, a) ==
  /\ job[u].pc = "send"
  /\ a \in job[u].hits
  /\ job' = [job EXCEPT ![u].hits = @ \ {a}]
  /\ \/ /\ mails' = [mails EXCEPT ![u][a] = @ + 1]
        /\ UNCHANGED <<faults, excused>>
     \/ /\ Fault("send")
        /\ excused' = excused \cup {<<u, a>>}
        /\ UNCHANGED mails
  /\ UNCHANGED <<now, stamp, index, lastpush>>

UpdateLastPushdate(u) ==
  /\ job[u].pc = "send"
  /\ job[u].hits = {}
  /\ job' = [job EXCEPT ![u].pc = "reschedule"]
  /\ \/ /\ lastpush' = [lastpush EXCEPT ![u] = job[u].date]
        /\ UNCHANGED faults
     \/ Fault("update") /\ UNCHANGED lastpush
  /\ UNCHANGED <<now, stamp, index, mails, excused>>

\* Faulty variant of Reschedule: the JobDataMap keeps the old date.
RescheduleUndated(u) ==
  /\ job[u].pc = "reschedule"
  /\ job' = [job EXCEPT ![u] = [NewJob(u) EXCEPT !.last = job[u].last,
                                                 !.at = job[u].date + PushRate]]
  /\ UNCHANGED <<now, stamp, index, lastpush, mails, excused, faults>>

\* Faulty variant of Reschedule: the job is deleted and not scheduled.
RescheduleForgotten(u) ==
  /\ job[u].pc = "reschedule"
  /\ job' = [job EXCEPT ![u].pc = "dead"]
  /\ UNCHANGED <<now, stamp, index, lastpush, mails, excused, faults>>

\* The job is deleted and scheduled again under the same name.
Reschedule(u) ==
  /\ job[u].pc = "reschedule"
  /\ job' = [job EXCEPT ![u] = [NewJob(u) EXCEPT !.last = Truncated(job[u].date),
                                                 !.at = job[u].date + PushRate]]
  /\ UNCHANGED <<now, stamp, index, lastpush, mails, excused, faults>>

-----------------------------------------------------------------------------
(***************************************************************************)
(* The specification                                                       *)
(***************************************************************************)

JobStep(u) ==
  \/ Start(u) \/ Query(u) \/ QueryFails(u)
  \/ \E a \in Articles : SendHit(u, a)
  \/ UpdateLastPushdate(u) \/ Reschedule(u)

Next ==
  \/ Tick
  \/ Restart
  \/ \E a \in Articles : Store(a) \/ Index(a)
  \/ \E u \in Users : JobStep(u)

Spec == Init /\ [][Next]_vars

\* Time passes, Quartz starts a job whose trigger is due and runs it on, and
\* the index follows the database.
Fairness ==
  /\ WF_vars(Tick)
  /\ \A u \in Users : WF_vars(JobStep(u))
  /\ \A a \in Articles : WF_vars(Index(a))

FairSpec == Spec /\ Fairness

-----------------------------------------------------------------------------
(***************************************************************************)
(* Properties                                                              *)
(***************************************************************************)

Dates == 0..MaxNow \cup {NONE}

\* The dates of articles, users and jobs and the places of a job.
TypeOK ==
  /\ now \in 0..MaxNow
  /\ stamp \in [Articles -> Dates]
  /\ index \subseteq Stored
  /\ lastpush \in [Users -> Dates]
  /\ \A u \in Users :
       /\ job[u].pc \in {"waiting", "query", "send", "reschedule", "dead"}
       /\ job[u].last \in Dates /\ job[u].date \in Dates
       /\ job[u].at \in Nat /\ job[u].hits \subseteq index
  /\ mails \in [Users -> [Articles -> Nat]]
  /\ faults \in [FaultKinds -> Nat]

\* No push passes over an article: one that is older than the date from which
\* the next push asks, by the JobDataMap or, after a restart, by the database,
\* was mailed or is about to be, unless it came too late into the index, was
\* one hit too many or could not be sent.
NothingElseLost ==
  \A u \in Users : \A a \in index \cap Wants[u] :
    PassedOver(u, a) => \/ mails[u][a] > 0
                        \/ <<u, a>> \in excused
                        \/ a \in job[u].hits

\* The date in the JobDataMap has no seconds, so a push may mail again what the
\* push before it mailed in the same minute.  When pushes are at least a minute
\* apart nothing is mailed a third time, and each restart, which starts a push
\* at once from the date in the database, adds one time at most.
MailedAtMostTwice ==
  \A u \in Users, a \in Articles : mails[u][a] <= 2 + faults["crash"]

\* Every article a user wants is mailed by some push, unless it is excused:
\* failing mails and updates, restarts and a late index do not break the chain
\* in which every push schedules the next one.  Only a failing query does: it
\* ends the user's job until the program is started again.
NewsIsMailed ==
  \A u \in Users : \A a \in Wants[u] :
    \/ a \in Stored ~> (mails[u][a] > 0 \/ <<u, a>> \in excused)
    \/ <>[](job[u].pc = "dead" /\ faults["query"] > 0)

=============================================================================

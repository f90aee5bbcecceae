------------------------------ MODULE RssFetch ------------------------------
(***************************************************************************)
(* RssFetcher's feed jobs.  RssFetchScheduler gives every feed a Quartz    *)
(* job; RssFetchJob downloads the feed, stores the entries MongoDB does    *)
(* not have, notes the date of the feed and schedules itself again.  Jobs  *)
(* run in threads of their own: each action below is one download or one   *)
(* MongoDB call with the thread-local code around it.  Exceptions the code *)
(* swallows, and a stop of the program, are the Faults.                    *)
(***************************************************************************)
EXTENDS Integers, FiniteSets

CONSTANTS
  Feeds,
  Entries,
  Complete,     \* entries with a link and a title
  Described,    \* entries with a description
  Uuid,         \* Uuid[e]: the name UUID of link and title
  Carries,      \* Carries[f]: the entries feed f may publish
  Ttls,         \* ttl values of the feeds, 0 for none
  Undated,      \* whether a feed may be published without a date
  Minute,       \* ticks in a minute: dates in a JobDataMap have no seconds
  MinRate,      \* 1000 ms in the code
  DefaultRate,  \* property "updaterate", 600000 ms in the code
  UpdateRate,   \* UpdateRate[f]: updaterate of f in the database
  IntBits,      \* width of a Java int
  Faults,       \* subset of {"net", "find", "insert", "update", "crash"}
  MaxNow,       \* bound on the clock
  MaxFaults,    \* bound on the faults of a run
  MaxIssues,    \* bound on what the feeds publish
  NONE

ASSUME ClockAssumption ==
  /\ Minute \in Nat \ {0} /\ MinRate \in Nat \ {0}
  /\ DefaultRate \in Nat /\ DefaultRate >= MinRate
  /\ UpdateRate \in [Feeds -> Nat]
  /\ Ttls \subseteq Nat /\ IntBits \in Nat \ {0}
  /\ MaxNow \in Nat /\ NONE \notin Int
ASSUME EntriesAssumption ==
  /\ Complete \subseteq Entries /\ Described \subseteq Entries
  /\ Carries \in [Feeds -> SUBSET Entries]

VARIABLES
  now,
  server,       \* server[f]: what the URL of f serves
  data,         \* data[u]: copies of the article with uuid u in rssdata
  lastupdate,   \* lastupdate[f]: the date in rssfeeds
  job,          \* job[f]: the RssFetchJob of f
  issues,       \* history: <<f, t>> when f was published at time t
  failed,       \* history: entries whose insert failed
  blind,        \* history: blind[u]: failing queries for the uuid u
  faults        \* history: number of faults

vars == <<now, server, data, lastupdate, job, issues, failed, blind, faults>>

\* A fault of kind x happens; the number of faults is bounded.
Fault(x) ==
  /\ x \in Faults
  /\ faults < MaxFaults
  /\ faults' = faults + 1

Uuids == {Uuid[e] : e \in Entries}

-----------------------------------------------------------------------------
(***************************************************************************)
(* Dates and rates                                                         *)
(***************************************************************************)

\* Faulty variant of Truncated: the date is rounded up.
RoundedUp(date) ==
  IF date = NONE THEN NONE ELSE ((date + Minute - 1) \div Minute) * Minute

\* What is left of a date after format and parse with SimpleDateFormat(), in a
\* time zone without summer time: there no hour of the clock comes twice.
Truncated(date) == IF date = NONE THEN NONE ELSE (date \div Minute) * Minute

\* The value of an int that is assigned n.
Int32(n) ==
  LET half == 2 ^ (IntBits - 1) IN ((n + half) % (2 * half)) - half

\* Faulty variant of ClampedRate: the configured rate is taken as it is.
UnclampedRate(rate) == rate

ClampedRate(rate) == IF rate < MinRate THEN DefaultRate ELSE rate

TtlOf(feed) == IF feed = NONE THEN 0 ELSE feed.ttl

\* The refresh rate after a download, taken from the ttl if there is one.
NewRate(rate, feed) ==
  IF TtlOf(feed) > 0 THEN Int32(TtlOf(feed) * Minute) ELSE rate

\* The next trigger, one minute after the feed should have been published
\* again or, if that time is over, one minute from now.
NextTrigger(next, rate, feed) ==
  IF TtlOf(feed) = 0 \/ feed.date = NONE THEN next
  ELSE IF feed.date + rate > now THEN feed.date + rate + Minute
  ELSE now + Minute

-----------------------------------------------------------------------------
(***************************************************************************)
(* The scheduler and the outside world                                     *)
(***************************************************************************)

\* The job run() makes for a feed; it is to start at once.
NewJob(f) ==
  [pc |-> "waiting", at |-> now, start |-> NONE, next |-> NONE,
   last |-> Truncated(lastupdate[f]), rate |-> UpdateRate[f],
   feed |-> NONE, left |-> {}, entry |-> NONE]

Init ==
  /\ now = 0
  /\ server = [f \in Feeds |-> [date |-> NONE, entries |-> {}, ttl |-> 0]]
  /\ data = [u \in Uuids |-> 0]
  /\ lastupdate = [f \in Feeds |-> NONE]
  /\ job = [f \in Feeds |-> NewJob(f)]
  /\ issues = {}
  /\ failed = {}
  /\ blind = [u \in Uuids |-> 0]
  /\ faults = 0

Tick ==
  /\ now < MaxNow
  /\ now' = now + 1
  /\ UNCHANGED <<server, data, lastupdate, job, issues, failed, blind, faults>>

\* A feed is published with new entries and the time of day as its date, or
\* without one; no two issues have the same date.
Publish(f) ==
  /\ Cardinality(issues) < MaxIssues
  /\ <<f, now>> \notin issues
  /\ issues' = issues \cup {<<f, now>>}
  /\ \E E \in (SUBSET Carries[f]) \ {{}}, ttl \in Ttls,
        date \in {now} \cup (IF Undated THEN {NONE} ELSE {}) :
       server' = [server EXCEPT ![f] = [date |-> date, entries |-> E, ttl |-> ttl]]
  /\ UNCHANGED <<now, data, lastupdate, job, failed, blind, faults>>

\* The program is stopped and started.
Restart ==
  /\ Fault("crash")
  /\ job' = [f \in Feeds |-> NewJob(f)]
  /\ UNCHANGED <<now, server, data, lastupdate, issues, failed, blind>>

-----------------------------------------------------------------------------
(***************************************************************************)
(* RssFetchJob.execute                                                     *)
(***************************************************************************)

\* A trigger fires when its time has come; at the end of the modelled time
\* every trigger has.
Due(t) == t <= now \/ now = MaxNow

Start(f) ==
  LET rate == ClampedRate(job[f].rate)
  IN  /\ job[f].pc = "waiting"
      /\ Due(job[f].at)
      /\ job' = [job EXCEPT ![f].pc = "get", ![f].start = now,
                            ![f].rate = rate, ![f].next = now + rate]
      /\ UNCHANGED <<now, server, data, lastupdate, issues, failed, blind, faults>>

\* getFeed returns null when the download or the parser fails.
GetFails(f) ==
  /\ Fault("net")
  /\ job[f].pc = "get"
  /\ job' = [job EXCEPT ![f].pc = "reschedule"]
  /\ UNCHANGED <<now, server, data, lastupdate, issues, failed, blind>>

\* The feed counts as updated when no date is known or its date is later.
Updated(last, feed) == last = NONE \/ (feed.date # NONE /\ feed.date > last)

\* Faulty variant of Loop: the last entry is left out.
LoopEndsEarly(entries) ==
  IF Cardinality(entries \cap Complete) <= 1 THEN "update" ELSE "entry"

\* The next step of the loop over the entries; entries without a link or a
\* title are passed over.
Loop(entries) == IF entries \cap Complete = {} THEN "update" ELSE "entry"

\* Faulty variant of GetFeed: a feed without a known date is not read.
GetFeedDatedOnly(f) ==
  LET updated == job[f].last # NONE /\ Updated(job[f].last, server[f])
  IN  /\ job[f].pc = "get"
      /\ job' = [job EXCEPT ![f].feed = server[f],
                   ![f].left = IF updated THEN server[f].entries \cap Complete ELSE {},
                   ![f].pc = IF updated THEN Loop(server[f].entries) ELSE "reschedule"]
      /\ UNCHANGED <<now, server, data, lastupdate, issues, failed, blind, faults>>

GetFeed(f) ==
  LET updated == Updated(job[f].last, server[f])
  IN  /\ job[f].pc = "get"
      /\ job' = [job EXCEPT ![f].feed = server[f],
                   ![f].left = IF updated THEN server[f].entries \cap Complete ELSE {},
                   ![f].pc = IF updated THEN Loop(server[f].entries) ELSE "reschedule"]
      /\ UNCHANGED <<now, server, data, lastupdate, issues, failed, blind, faults>>

\* Faulty variant of IsUuidExist: the article is never looked for.
NoUuidExists(u) == FALSE

IsUuidExist(u) == data[u] > 0

\* IsUuidExist answers false when the query fails.
CheckEntry(f, e) ==
  LET left == job[f].left \ {e}
      skip == [job EXCEPT ![f].left = left, ![f].pc = Loop(left)]
      take == [job EXCEPT ![f].left = left, ![f].pc = "insert", ![f].entry = e]
  IN  /\ job[f].pc = "entry"
      /\ e \in job[f].left
      /\ \/ /\ job' = IF IsUuidExist(Uuid[e]) THEN skip ELSE take
            /\ UNCHANGED <<blind, faults>>
         \/ /\ Fault("find")
            /\ blind' = [blind EXCEPT ![Uuid[e]] = @ + 1]
            /\ job' = take
      /\ UNCHANGED <<now, server, data, lastupdate, issues, failed>>

\* insert swallows what MongoDB throws.
InsertEntry(f) ==
  LET e == job[f].entry
  IN  /\ job[f].pc = "insert"
      /\ e \in Described
      /\ \/ /\ data' = [data EXCEPT ![Uuid[e]] = @ + 1]
            /\ UNCHANGED <<failed, faults>>
         \/ /\ Fault("insert")
            /\ failed' = failed \cup {e}
            /\ UNCHANGED data
      /\ job' = [job EXCEPT ![f].entry = NONE, ![f].pc = Loop(job[f].left)]
      /\ UNCHANGED <<now, server, lastupdate, issues, blind>>

\* For an entry without a description getInstance returns null, and the driver
\* answers a null object with an IllegalArgumentException that nobody catches:
\* the job ends without a trigger.
InsertNull(f) ==
  /\ job[f].pc = "insert"
  /\ job[f].entry \notin Described
  /\ job' = [job EXCEPT ![f].pc = "dead"]
  /\ UNCHANGED <<now, server, data, lastupdate, issues, failed, blind, faults>>

UpdateLastUpdate(f) ==
  /\ job[f].pc = "update"
  /\ \/ /\ lastupdate' = [lastupdate EXCEPT ![f] = job[f].feed.date]
        /\ UNCHANGED faults
     \/ Fault("update") /\ UNCHANGED lastupdate
  /\ job' = [job EXCEPT ![f].pc = "reschedule", ![f].last = job[f].feed.date]
  /\ UNCHANGED <<now, server, data, issues, failed, blind>>

\* The job is deleted and scheduled again under the same name.
Reschedule(f) ==
  LET q == job[f]
      rate == NewRate(q.rate, q.feed)
  IN  /\ q.pc = "reschedule"
      /\ job' = [job EXCEPT ![f] =
                   [NewJob(f) EXCEPT !.at = NextTrigger(q.next, rate, q.feed),
                                     !.last = Truncated(q.last), !.rate = rate]]
      /\ UNCHANGED <<now, server, data, lastupdate, issues, failed, blind, faults>>

-----------------------------------------------------------------------------
(***************************************************************************)
(* The specification                                                       *)
(***************************************************************************)

JobStep(f) ==
  \/ Start(f) \/ GetFeed(f) \/ GetFails(f)
  \/ \E e \in Entries : CheckEntry(f, e)
  \/ InsertEntry(f) \/ InsertNull(f)
  \/ UpdateLastUpdate(f) \/ Reschedule(f)

Next ==
  \/ Tick
  \/ Restart
  \/ \E f \in Feeds : Publish(f) \/ JobStep(f)

Spec == Init /\ [][Next]_vars

\* Time passes, and Quartz starts a job whose trigger is due and runs it on.
\* That a download comes to an end is an assumption about the servers of the
\* feeds: getFeed sets no timeout, and a server that accepts the connection and
\* never answers holds the job for good.
Fairness == WF_vars(Tick) /\ \A f \in Feeds : WF_vars(JobStep(f))

FairSpec == Spec /\ Fairness

-----------------------------------------------------------------------------
(***************************************************************************)
(* Properties                                                              *)
(***************************************************************************)

Dates == 0..MaxNow \cup {NONE}

\* The dates of feeds and jobs, the articles and the places of a job.
TypeOK ==
  /\ now \in 0..MaxNow
  /\ \A f \in Feeds :
       /\ server[f].date \in Dates /\ server[f].entries \subseteq Carries[f]
       /\ lastupdate[f] \in Dates
       /\ job[f].last \in Dates
       /\ job[f].at \in Nat /\ job[f].rate \in Int
       /\ job[f].left \subseteq Complete
       /\ job[f].pc \in {"waiting", "get", "entry", "insert", "update",
                         "reschedule", "dead"}
  /\ data \in [Uuids -> Nat] /\ blind \in [Uuids -> Nat]

\* The entries of an issue that can be stored are in the database, or their
\* insert has failed.
Stored(entries) ==
  \A e \in entries \cap Complete \cap Described : data[Uuid[e]] > 0 \/ e \in failed

\* A feed is passed over as unchanged only when what it serves has been
\* stored: this holds for the date in the JobDataMap, which has lost its
\* seconds, and for the date in the database, from which a restarted program
\* goes on.
UnchangedIsStored ==
  \A f \in Feeds : \A last \in {job[f].last, lastupdate[f]} :
    server[f].date # NONE /\ ~Updated(last, server[f]) => Stored(server[f].entries)

\* The check for the uuid and the insert are two calls, so two feeds with the
\* same entry may both insert it; but each feed does so once, whatever is
\* downloaded again after a restart or because a date lost its seconds, and a
\* failing query for the uuid lets in at most one copy more.
CopiesPerFeed ==
  \A u \in Uuids :
    data[u] <= Cardinality({f \in Feeds : \E e \in Carries[f] : Uuid[e] = u})
               + blind[u]

\* However a feed sets its ttl, and even if the ttl overflows an int, a job
\* does not schedule itself for a time before MinRate has passed since it was
\* started.
PollGap ==
  [][\A f \in Feeds :
       job[f].pc = "reschedule" /\ job'[f].pc = "waiting" /\ faults' = faults =>
         job'[f].at >= job[f].start + MinRate]_vars

\* What a feed publishes with a date is stored sooner or later, or replaced by
\* another issue: again and again all that the feed serves has been stored,
\* whatever faults there were before.
FeedIsRead ==
  \A f \in Feeds : []<>(server[f].date = NONE \/ Stored(server[f].entries))

=============================================================================

--------------------------- MODULE Subscriptions ---------------------------
(***************************************************************************)
(* Subscriptions and mail pushes of SpringReader.  Web requests create and *)
(* delete UserKeyword documents in MongoDB; a new one gets a first push    *)
(* (FirstPushSendEmailJob), and one repeating job (SendEmailJob) mails     *)
(* every user what has been indexed since the lastpushdate of each         *)
(* document.  Requests and jobs run in threads of their own: each action   *)
(* below is one MongoDB or Elasticsearch call with the thread-local code   *)
(* after it.  Sending a mail touches nothing another thread reads, so it   *)
(* is one step with the "new Date()" and the query that follow it.  Every  *)
(* call may throw; what the code does then is an action of its own.        *)
(***************************************************************************)
EXTENDS Integers, FiniteSets

CONSTANTS
  Users, Emails, Words,
  Identity,     \* Identity[u][k]: username+keyword, the name of a Quartz job
  Reqs,         \* createsubscribe requests of a run
  Ids,          \* MongoDB object ids
  Articles,     \* articles RssFetcher stores
  Matches,      \* Matches[a]: the words a scores at least minscore for
  FirstSize,    \* 20 in the code
  DailySize,    \* 10 in the code
  IndexLag,     \* whether the index follows the database with a delay
  Faults,       \* what may go wrong: subset of {"send", "query", "mongo", "crash"}
  MaxFaults,    \* bound on the faults of a run
  MaxNow,       \* bound on the clock
  MaxDeletes,   \* bound on the deletesubscribe requests
  NONE

JobKeys == {Identity[u][k] : u \in Users, k \in Words}

ASSUME SizesAssumption == FirstSize \in Nat \ {0} /\ DailySize \in Nat \ {0}
ASSUME LagAssumption == IndexLag \in BOOLEAN
ASSUME FaultsAssumption == Faults \subseteq {"send", "query", "mongo", "crash"}
ASSUME IdsAssumption == IsFiniteSet(Ids) /\ NONE \notin Ids

VARIABLES
  now,
  store,        \* store[i]: the UserKeyword document with id i, or NONE
  saved,        \* history: ids a request has saved
  deleted,      \* history: ids a deletesubscribe request has deleted
  req,          \* the createsubscribe requests
  first,        \* first[j]: the FirstPushSendEmailJob with identity j
  daily,        \* the SendEmailJob
  stamp,        \* stamp[a]: timestamp of article a, NONE before it is stored
  index,        \* articles in the Elasticsearch index
  mailed,       \* history: <<e, a>> when article a was mailed to e
  straddled,    \* history: articles on their way while a push was running
  lost,         \* history: ids a fault left without a document and without a
                \* job that is about to save one
  faults        \* history: number of faults

documents == <<store, saved, deleted>>
corpus == <<stamp, index>>
troubles == <<lost, faults>>
vars == <<now, documents, req, first, daily, corpus, mailed, straddled, troubles>>

\* A fault of kind x happens; the number of faults is bounded.
Fault(x) ==
  /\ x \in Faults
  /\ faults < MaxFaults
  /\ faults' = faults + 1

NoReq == [pc |-> "new", user |-> NONE, email |-> NONE, name |-> NONE]
NoJob == [pc |-> "none", user |-> NONE, email |-> NONE, name |-> NONE,
          html |-> {}, id |-> NONE, doc |-> NONE, date |-> NONE]
NoDaily == [pc |-> "idle", users |-> {}, user |-> NONE, list |-> {},
            html |-> [e \in Emails |-> {}], emails |-> {}, docs |-> {},
            id |-> NONE, doc |-> NONE, date |-> NONE]

Init ==
  /\ now = 0
  /\ store = [i \in Ids |-> NONE]
  /\ saved = {}
  /\ deleted = {}
  /\ req = [r \in Reqs |-> NoReq]
  /\ first = [j \in JobKeys |-> NoJob]
  /\ daily = NoDaily
  /\ stamp = [a \in Articles |-> NONE]
  /\ index = {}
  /\ mailed = {}
  /\ straddled = {}
  /\ lost = {}
  /\ faults = 0

-----------------------------------------------------------------------------
(***************************************************************************)
(* MongoDB and Elasticsearch                                               *)
(***************************************************************************)

Present == {i \in Ids : store[i] # NONE}

\* The documents of a query, each with its id.
Found(ids) == {<<i, store[i]>> : i \in ids}

findByUsername(u) == Found({i \in Present : store[i].user = u})
findByUsernameAndEmail(u, e) ==
  Found({i \in Present : store[i].user = u /\ store[i].email = e})
findByUsernameAndNameAndEmail(u, k, e) ==
  Found({i \in Present : /\ store[i].user = u
                         /\ store[i].name = k
                         /\ store[i].email = e})

\* The choices of at most "size" newest articles among hits.
Newest(hits, size) ==
  {S \in SUBSET hits :
     /\ Cardinality(S) <= size
     /\ S # hits => Cardinality(S) = size
     /\ \A a \in S, b \in hits \ S : stamp[a] >= stamp[b]}

\* Faulty variant: the range filter excludes its lower end.
querySingleKeywordExclusive(k, lastpushdate, size) ==
  Newest({a \in index : /\ k \in Matches[a]
                        /\ stamp[a] <= now
                        /\ lastpushdate = NONE \/ stamp[a] > lastpushdate}, size)

\* querySingleKeywordHtmlResult: the newest articles that match word k and are
\* not older than the lastpushdate, a null date being no bound.
querySingleKeyword(k, lastpushdate, size) ==
  Newest({a \in index : /\ k \in Matches[a]
                        /\ stamp[a] <= now
                        /\ lastpushdate = NONE \/ stamp[a] >= lastpushdate}, size)

\* The collection without document i, and with document doc under id i.
Without(i) == [store EXCEPT ![i] = NONE]
With(i, doc) == [store EXCEPT ![i] = doc]

\* The ids whose document a job has removed in order to save it again.
InHand ==
  {first[j].id : j \in {x \in JobKeys : first[x].pc = "save"}}
  \cup (IF daily.pc = "save" THEN {daily.id} ELSE {})

\* Those of ids that are in no document and in no hand after the step.
Lose(ids) == lost' = lost \cup {i \in ids : store'[i] = NONE /\ i \notin InHand'}

InTransit == {a \in Articles : stamp[a] # NONE} \ index

PushRunning ==
  \/ daily.pc \notin {"idle", "user"}
  \/ \E j \in JobKeys : first[j].pc \notin {"none", "ready"}

Tick ==
  /\ now < MaxNow
  /\ now' = now + 1
  /\ UNCHANGED <<documents, req, first, daily, corpus, mailed, straddled,
                 troubles>>

\* RssFetcher stores an article with the time of day as its timestamp; the
\* index follows the database, at once or after a while.
Store(a) ==
  /\ stamp[a] = NONE
  /\ stamp' = [stamp EXCEPT ![a] = now]
  /\ index' = IF IndexLag THEN index ELSE index \cup {a}
  /\ straddled' = IF PushRunning THEN straddled \cup {a} ELSE straddled
  /\ UNCHANGED <<now, documents, req, first, daily, mailed, troubles>>

Index(a) ==
  /\ a \in InTransit
  /\ index' = index \cup {a}
  /\ straddled' = IF PushRunning THEN straddled \cup {a} ELSE straddled
  /\ UNCHANGED <<now, documents, req, first, daily, stamp, mailed, troubles>>

-----------------------------------------------------------------------------
(***************************************************************************)
(* Web requests                                                            *)
(***************************************************************************)

\* createsubscribe, up to the check that the subscription does not exist.
Create(r, u, e, k) ==
  LET same == \E f \in findByUsername(u) : f[2].name = k /\ f[2].email = e
  IN  /\ req[r].pc = "new"
      /\ req' = [req EXCEPT ![r] = [pc |-> IF same THEN "refused" ELSE "checked",
                                    user |-> u, email |-> e, name |-> k]]
      /\ UNCHANGED <<now, documents, first, daily, corpus, mailed, straddled,
                     troubles>>

\* UserKeywordsService.create looks for the document once more, with the
\* keyword in the place of the user name.
CreateFind(r) ==
  LET q == req[r]
      known == findByUsernameAndNameAndEmail(q.name, q.user, q.email)
  IN  /\ q.pc = "checked"
      /\ req' = [req EXCEPT ![r].pc = IF known = {} THEN "save" ELSE "schedule"]
      /\ UNCHANGED <<now, documents, first, daily, corpus, mailed, straddled,
                     troubles>>

\* The document a request saves, under an id of its own.
SaveNew(q) ==
  \E i \in Ids \ saved :
    /\ store' = With(i, [user |-> q.user, name |-> q.name, email |-> q.email,
                         createddate |-> now, lastpushdate |-> NONE])
    /\ saved' = saved \cup {i}

CreateSave(r) ==
  /\ req[r].pc = "save"
  /\ SaveNew(req[r])
  /\ req' = [req EXCEPT ![r].pc = "schedule"]
  /\ UNCHANGED <<now, deleted, first, daily, corpus, mailed, straddled,
                 troubles>>

\* An exception of MongoDB ends the request before the first push is
\* scheduled.  A save that throws may have been carried out all the same.
CreateFails(r) ==
  /\ Fault("mongo")
  /\ \/ req[r].pc \in {"new", "checked", "save"} /\ UNCHANGED <<store, saved>>
     \/ req[r].pc = "save" /\ SaveNew(req[r])
  /\ req' = [req EXCEPT ![r].pc = "failed"]
  /\ UNCHANGED <<now, deleted, first, daily, corpus, mailed, straddled, lost>>

\* createFirstPushTask: Quartz refuses a job whose identity is still taken,
\* and the refusal is swallowed.
CreateSchedule(r) ==
  LET q == req[r]
      j == Identity[q.user][q.name]
  IN  /\ q.pc = "schedule"
      /\ first' = IF first[j].pc = "none"
                  THEN [first EXCEPT ![j] =
                          [NoJob EXCEPT !.pc = "ready", !.user = q.user,
                                        !.email = q.email, !.name = q.name]]
                  ELSE first
      /\ req' = [req EXCEPT ![r].pc = "done"]
      /\ UNCHANGED <<now, documents, daily, corpus, mailed, straddled,
                     troubles>>

\* deletesubscribe of one id the user has seen on the manage page; the user
\* deletes an id once.  (A delete that throws has done this, or nothing.)
Delete(i) ==
  /\ i \in saved \ deleted
  /\ Cardinality(deleted) < MaxDeletes
  /\ store' = Without(i)
  /\ deleted' = deleted \cup {i}
  /\ UNCHANGED <<now, saved, req, first, daily, corpus, mailed, straddled,
                 troubles>>

-----------------------------------------------------------------------------
(***************************************************************************)
(* The first push                                                          *)
(***************************************************************************)

\* Faulty variant of Dated: the date is ahead of the push.
DatedAhead(doc, date) == [doc EXCEPT !.lastpushdate = date + 1]

\* The date a push writes into a document it has read before.
Dated(doc, date) == [doc EXCEPT !.lastpushdate = date]

FirstQuery(j) ==
  /\ first[j].pc = "ready"
  /\ \E S \in querySingleKeyword(first[j].name, NONE, FirstSize) :
       first' = [first EXCEPT ![j].pc = "send", ![j].html = S]
  /\ straddled' = straddled \cup InTransit
  /\ UNCHANGED <<now, documents, req, daily, corpus, mailed, troubles>>

\* Send, then updateLastpushdate is called with the time of day and looks the
\* document up.
FirstSend(j) ==
  LET q == first[j]
      docs == findByUsernameAndNameAndEmail(q.user, q.name, q.email)
  IN  /\ q.pc = "send"
      /\ mailed' = mailed \cup ({q.email} \X q.html)
      /\ \/ /\ docs = {}
            /\ first' = [first EXCEPT ![j] = NoJob]
         \/ \E f \in docs :
              first' = [first EXCEPT ![j] = [q EXCEPT !.pc = "delete", !.id = f[1],
                                                      !.doc = f[2], !.date = now]]
      /\ UNCHANGED <<now, documents, req, daily, corpus, straddled, troubles>>

\* The try block takes in the query, Send and updateLastpushdate: whichever
\* throws ends the job.  When the look-up throws, the mail has been sent.
FirstFails(j) ==
  /\ \/ Fault("query") /\ first[j].pc = "ready" /\ UNCHANGED mailed
     \/ Fault("send") /\ first[j].pc = "send" /\ UNCHANGED mailed
     \/ /\ Fault("mongo") /\ first[j].pc = "send"
        /\ mailed' = mailed \cup ({first[j].email} \X first[j].html)
  /\ first' = [first EXCEPT ![j] = NoJob]
  /\ UNCHANGED <<now, documents, req, daily, corpus, straddled, lost>>

\* The delete or the save of updateLastpushdate throws, whether or not MongoDB
\* has carried it out: nobody saves the document any more.
FirstDatingFails(j) ==
  LET q == first[j]
  IN  /\ Fault("mongo")
      /\ \/ q.pc = "delete" /\ store' \in {store, Without(q.id)}
         \/ q.pc = "save" /\ store' \in {store, With(q.id, Dated(q.doc, q.date))}
      /\ first' = [first EXCEPT ![j] = NoJob]
      /\ UNCHANGED <<now, saved, deleted, req, daily, corpus, mailed, straddled>>
      /\ Lose({q.id})

FirstDelete(j) ==
  /\ first[j].pc = "delete"
  /\ store' = Without(first[j].id)
  /\ first' = [first EXCEPT ![j].pc = "save"]
  /\ UNCHANGED <<now, saved, deleted, req, daily, corpus, mailed, straddled,
                 troubles>>

\* Faulty variant of FirstSave: the document is not written back.
FirstSaveForgotten(j) ==
  /\ first[j].pc = "save"
  /\ first' = [first EXCEPT ![j] = NoJob]
  /\ UNCHANGED <<now, documents, req, daily, corpus, mailed, straddled,
                 troubles>>

FirstSave(j) ==
  /\ first[j].pc = "save"
  /\ store' = With(first[j].id, Dated(first[j].doc, first[j].date))
  /\ first' = [first EXCEPT ![j] = NoJob]
  /\ UNCHANGED <<now, saved, deleted, req, daily, corpus, mailed, straddled,
                 troubles>>

-----------------------------------------------------------------------------
(***************************************************************************)
(* The daily push                                                          *)
(***************************************************************************)

\* The loop over the users goes on, and ends the job after the last one.
AfterUser(d) ==
  IF d.users = {} THEN NoDaily
  ELSE [NoDaily EXCEPT !.pc = "user", !.users = d.users]

\* So does the loop over the entries of htmlResultMap.
AfterEntry(d) == IF d.emails = {} THEN AfterUser(d) ELSE [d EXCEPT !.pc = "send"]

DailyStart ==
  /\ daily.pc = "idle"
  /\ daily' = [daily EXCEPT !.pc = "user", !.users = Users]
  /\ UNCHANGED <<now, documents, req, first, corpus, mailed, straddled,
                 troubles>>

DailyUser(u) ==
  LET d == [daily EXCEPT !.users = @ \ {u}, !.user = u, !.list = findByUsername(u)]
  IN  /\ daily.pc = "user"
      /\ u \in daily.users
      /\ daily' = IF d.list = {} THEN AfterUser(d) ELSE [d EXCEPT !.pc = "query"]
      /\ straddled' = straddled \cup InTransit
      /\ UNCHANGED <<now, documents, req, first, corpus, mailed, troubles>>

\* One keyword is queried and its articles added to the mail for its address.
DailyQuery(f) ==
  LET left == daily.list \ {f}
  IN  /\ daily.pc = "query"
      /\ f \in daily.list
      /\ \E S \in querySingleKeyword(f[2].name, f[2].lastpushdate, DailySize) :
           daily' = [daily EXCEPT !.pc = IF left = {} THEN "send" ELSE "query",
                                  !.list = left,
                                  !.html[f[2].email] = @ \cup S,
                                  !.emails = @ \cup {f[2].email}]
      /\ UNCHANGED <<now, documents, req, first, corpus, mailed, straddled,
                     troubles>>

\* What comes before the mails is not inside the try block: an exception of
\* findall, findByUsername or a query ends the job, until its trigger repeats.
DailyEnds ==
  /\ \/ Fault("mongo") /\ daily.pc \in {"idle", "user"}
     \/ Fault("query") /\ daily.pc = "query"
  /\ daily' = NoDaily
  /\ UNCHANGED <<now, documents, req, first, corpus, mailed, straddled, lost>>

\* Faulty variant of DailySend: a mail without articles is no push.
DailySendNews(e) ==
  LET docs == findByUsernameAndEmail(daily.user, e)
      d == [daily EXCEPT !.emails = @ \ {e}, !.docs = docs, !.date = now]
  IN  /\ daily.pc = "send"
      /\ e \in daily.emails
      /\ mailed' = mailed \cup ({e} \X daily.html[e])
      /\ daily' = IF docs = {} \/ daily.html[e] = {} THEN AfterEntry(d)
                ELSE [d EXCEPT !.pc = "delete"]
      /\ UNCHANGED <<now, documents, req, first, corpus, straddled, troubles>>

\* Send, then updateLastpushdateAllKeyword is called with the time of day and
\* reads all the documents the user has for that address.
DailySend(e) ==
  LET docs == findByUsernameAndEmail(daily.user, e)
      d == [daily EXCEPT !.emails = @ \ {e}, !.docs = docs, !.date = now]
  IN  /\ daily.pc = "send"
      /\ e \in daily.emails
      /\ mailed' = mailed \cup ({e} \X daily.html[e])
      /\ daily' = IF docs = {} THEN AfterEntry(d) ELSE [d EXCEPT !.pc = "delete"]
      /\ UNCHANGED <<now, documents, req, first, corpus, straddled, troubles>>

\* An exception inside the try block skips the user's other addresses.  It
\* comes from Send, or from the look-up when the mail to e has been sent.
DailySendFails(e) ==
  /\ daily.pc = "send"
  /\ e \in daily.emails
  /\ \/ Fault("send") /\ UNCHANGED mailed
     \/ Fault("mongo") /\ mailed' = mailed \cup ({e} \X daily.html[e])
  /\ daily' = AfterUser(daily)
  /\ UNCHANGED <<now, documents, req, first, corpus, straddled, lost>>

\* Or it comes from the delete of f or the save after it, carried out or not:
\* the document in hand is dropped, and the address's other ones keep their
\* date.
DailyDatingFails ==
  /\ Fault("mongo")
  /\ daily' = AfterUser(daily)
  /\ UNCHANGED <<now, saved, deleted, req, first, corpus, mailed, straddled>>
  /\ \/ /\ daily.pc = "delete"
        /\ \E f \in daily.docs : store' \in {store, Without(f[1])} /\ Lose({f[1]})
     \/ /\ daily.pc = "save"
        /\ store' \in {store, With(daily.id, Dated(daily.doc, daily.date))}
        /\ Lose({daily.id})

DailyDelete(f) ==
  /\ daily.pc = "delete"
  /\ f \in daily.docs
  /\ store' = Without(f[1])
  /\ daily' = [daily EXCEPT !.pc = "save", !.docs = @ \ {f},
                            !.id = f[1], !.doc = f[2]]
  /\ UNCHANGED <<now, saved, deleted, req, first, corpus, mailed, straddled,
                 troubles>>

DailySave ==
  /\ daily.pc = "save"
  /\ store' = With(daily.id, Dated(daily.doc, daily.date))
  /\ daily' = IF daily.docs = {} THEN AfterEntry(daily)
              ELSE [daily EXCEPT !.pc = "delete"]
  /\ UNCHANGED <<now, saved, deleted, req, first, corpus, mailed, straddled,
                 troubles>>

-----------------------------------------------------------------------------
(***************************************************************************)
(* The specification                                                       *)
(***************************************************************************)

\* The application is stopped and started: requests and Quartz jobs, which are
\* in memory, are gone, the documents stay, and init starts the daily push.
Restart ==
  /\ Fault("crash")
  /\ req' = [r \in Reqs |-> IF req[r].pc \in {"checked", "save", "schedule"}
                            THEN [req[r] EXCEPT !.pc = "lost"] ELSE req[r]]
  /\ first' = [j \in JobKeys |-> NoJob]
  /\ daily' = NoDaily
  /\ UNCHANGED <<now, documents, corpus, mailed, straddled>>
  /\ Lose(InHand)

RequestStep(r) == CreateFind(r) \/ CreateSave(r) \/ CreateSchedule(r)

FirstStep(j) ==
  FirstQuery(j) \/ FirstSend(j) \/ FirstDelete(j) \/ FirstSave(j)

DailyStep ==
  \/ DailyStart
  \/ \E u \in Users : DailyUser(u)
  \/ \E f \in daily.list : DailyQuery(f)
  \/ \E e \in Emails : DailySend(e)
  \/ \E f \in daily.docs : DailyDelete(f)
  \/ DailySave

\* A call throws, or the application is stopped.
Failure ==
  \/ \E r \in Reqs : CreateFails(r)
  \/ \E j \in JobKeys : FirstFails(j) \/ FirstDatingFails(j)
  \/ DailyEnds
  \/ \E e \in Emails : DailySendFails(e)
  \/ DailyDatingFails
  \/ Restart

Next ==
  \/ Tick
  \/ \E a \in Articles : Store(a) \/ Index(a)
  \/ \E r \in Reqs, u \in Users, e \in Emails, k \in Words : Create(r, u, e, k)
  \/ \E r \in Reqs : RequestStep(r)
  \/ \E i \in Ids : Delete(i)
  \/ \E j \in JobKeys : FirstStep(j)
  \/ DailyStep
  \/ Failure

Spec == Init /\ [][Next]_vars

\* Threads run on, the trigger of the daily push repeats for ever and the
\* index follows the database.  Nothing is assumed of users and failures.
Fairness ==
  /\ \A r \in Reqs : WF_vars(RequestStep(r))
  /\ \A j \in JobKeys : WF_vars(FirstStep(j))
  /\ WF_vars(DailyStep)
  /\ \A a \in Articles : WF_vars(Index(a))

FairSpec == Spec /\ Fairness

-----------------------------------------------------------------------------
(***************************************************************************)
(* Properties                                                              *)
(***************************************************************************)

Time == 0..MaxNow
Doc == [user : Users, name : Words, email : Emails,
        createddate : Time, lastpushdate : Time \cup {NONE}]

\* The documents in MongoDB and the places requests and jobs can be at.
TypeOK ==
  /\ now \in Time
  /\ store \in [Ids -> Doc \cup {NONE}]
  /\ deleted \subseteq saved /\ saved \subseteq Ids
  /\ \A i \in Ids \ saved : store[i] = NONE
  /\ \A r \in Reqs : req[r].pc \in {"new", "refused", "checked", "save",
                                    "schedule", "done", "failed", "lost"}
  /\ \A j \in JobKeys : first[j].pc \in {"none", "ready", "send", "delete", "save"}
  /\ daily.pc \in {"idle", "user", "query", "send", "delete", "save"}
  /\ stamp \in [Articles -> Time \cup {NONE}]
  /\ index \subseteq {a \in Articles : stamp[a] # NONE}

\* updateLastpushdate and updateLastpushdateAllKeyword delete a document and
\* save it again: a subscription the user has not deleted is in the database
\* or in the hands of a job that is about to save it, whichever jobs do so at
\* the same time.  Only a stop of the application between the two calls, or one
\* of the two that throws, loses it.
KeptUnlessDeleted ==
  \A i \in saved \ (deleted \cup lost) : store[i] # NONE \/ i \in InHand

\* Other articles for word k that are at least as new as a.
Newer(a, k) == {b \in index \ {a} : k \in Matches[b] /\ stamp[b] >= stamp[a]}

\* Article a belongs to the news of the subscription d: it was stored after d
\* was created and fewer than DailySize newer ones compete for the mail.
NewsFor(a, d) ==
  /\ a \in index
  /\ d.name \in Matches[a]
  /\ stamp[a] > d.createddate
  /\ Cardinality(Newer(a, d.name)) < DailySize

\* The lastpushdate of a subscription never passes an article that was not
\* mailed, unless the article was on its way into the index while a push was
\* running: each push asks again from the date the last one wrote.
OnlyStraddlersSkipped ==
  \A i \in Present, a \in index \ straddled :
    /\ NewsFor(a, store[i])
    /\ store[i].lastpushdate # NONE
    /\ stamp[a] < store[i].lastpushdate
    => <<store[i].email, a>> \in mailed

\* The promise of the subscribe page: the news of a subscription is mailed.
\* No article behind the lastpushdate of a subscription was left out.
NothingSkipped ==
  \A i \in Present, a \in index :
    /\ NewsFor(a, store[i])
    /\ store[i].lastpushdate # NONE
    /\ stamp[a] < store[i].lastpushdate
    => <<store[i].email, a>> \in mailed

\* What deletesubscribe has deleted and reported as deleted stays away.
DeletedStaysDeleted ==
  [][\A i \in deleted : store[i] = NONE => store'[i] = NONE]_vars

\* Every subscription is pushed sooner or later, and so is every piece of its
\* news that no push overtook, unless the user deletes the subscription, a
\* fault between its delete and its save loses it or the mail overflows: any
\* other failed request, query, mail or dating is made up for by a later push.
NewsArrives ==
  \A i \in Ids, a \in Articles :
    [](i \in saved \ (deleted \cup lost) =>
       <>(\/ i \in deleted \cup lost
          \/ /\ store[i] # NONE
             /\ store[i].lastpushdate # NONE
             /\ NewsFor(a, store[i]) /\ a \notin straddled =>
                  <<store[i].email, a>> \in mailed))

=============================================================================

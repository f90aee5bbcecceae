--------------------------- MODULE AccessControl ---------------------------
(***************************************************************************)
(* The per-key request limiter of the gateway,                             *)
(* ngx_http_access_control_module.c, as the worker processes of one nginx  *)
(* instance run it.  Every "access_control" directive of a location adds   *)
(* one limit; a limit owns a shared-memory zone holding one node per       *)
(* key+sid pair, an LRU queue over the nodes and a slab pool the nodes     *)
(* are allocated from.  The zone's mutex is held inside one lookup, one    *)
(* accounting step or one release, and dropped in between: a worker keeps  *)
(* a pointer to a node (ctx->node) across the gap, pinned by node->count.  *)
(*                                                                         *)
(* Integers are those of an LP64 build.  With burst <= 100, maxtps <= 10^8 *)
(* and idle times of years the products stay below 2^64, all but one: the  *)
(* drain of a node that was never charged (last = 0) at a maxtps above     *)
(* 10^7.  It wraps, and the node may get an excess of up to 1000, that of  *)
(* one request, where the model has 0.                                     *)
(***************************************************************************)
EXTENDS Integers, Sequences, FiniteSets

CONSTANTS
  Workers,     \* worker processes
  Requests,    \* client requests of a run
  Keys,        \* the key+sid strings the requests carry
  NLimits,     \* "access_control" directives of the location
  Fm,          \* Fm[n][k]: MAXTPH of k in the table limit n loaded, 0 if none
  Burst,       \* Burst[n], a multiple of the key's rate
  NoDelay,     \* NoDelay[n]
  Slots,       \* nodes that fit in the slab pool of a zone
  ExpireAge,   \* 60000 ms in the code
  StartTime,   \* time of day when the run starts, in ms
  MaxNow,      \* bound on the clock
  Steps,       \* amounts by which the clock advances
  NULL

Limits == 1..NLimits

ASSUME LimitsAssumption == NLimits \in Nat \ {0}
ASSUME FmAssumption == Fm \in [Limits -> [Keys -> Int]]
ASSUME BurstAssumption == Burst \in [Limits -> 0..100]
ASSUME NoDelayAssumption == NoDelay \in [Limits -> BOOLEAN]
ASSUME SlotsAssumption == Slots \in Nat \ {0}
ASSUME TimeAssumption == /\ ExpireAge \in Nat
                         /\ StartTime \in Nat
                         /\ MaxNow \in Nat
                         /\ Steps \subseteq Nat
ASSUME NullAssumption == NULL \notin Keys /\ NULL \notin Requests
ASSUME WorkersAssumption == IsFiniteSet(Workers)

VARIABLES
  now,         \* the real clock
  wtime,       \* wtime[w]: the time ngx_timeofday() has cached in worker w
  queue,       \* queue[z]: keys of the zone's nodes, most recently used first
  node,        \* node[z][k]: the shared node of k; Blank when there is none
  pc,          \* where worker w is in ngx_http_access_control_handler
  cur,         \* request worker w is handling
  n,           \* the handler's n (1-based)
  rc,          \* result of the handler's last lookup
  ctxnode,     \* ctxnode[w][z]: ctx->node, private to the process
  maxtps,      \* the handler's maxtps
  mdelay,      \* max_delay of ngx_http_access_control_account
  key,         \* key+sid of each request
  status,      \* what has become of each request
  set,         \* r->main->access_control_set
  delay,       \* the delay each request was given
  charged      \* history: how often request r was accounted in zone z

shared == <<queue, node>>
worker == <<pc, cur, n, rc, ctxnode, maxtps, mdelay>>
request == <<key, status, set, delay, charged>>
clocks == <<now, wtime>>
vars == <<clocks, shared, worker, request>>

Blank == [excess |-> 0, last |-> 0, count |-> 0]

-----------------------------------------------------------------------------
(***************************************************************************)
(* Arithmetic                                                              *)
(***************************************************************************)

Abs(i) == IF i < 0 THEN -i ELSE i

\* ngx_http_access_control_handler: hourly quota to milli-requests a second.
MaxTps(fm) ==
  LET perSecond == (fm \div 3600 + 1) * 1000
  IN  IF fm <= 3600 THEN 1000
      ELSE IF perSecond < 100000 * 1000 THEN perSecond ELSE 100000 * 1000

\* What a node's excess drains at rate r between its last use and time t.
Drain(nd, r, t) == (r * Abs(t - nd.last)) \div 1000

\* Faulty variant of Excess: the sum is stored without the test for < 0.
ExcessUnclamped(nd, r, t) == nd.excess - Drain(nd, r, t) + 1000

\* The node's excess with one more request at time t, never negative.
Excess(nd, r, t) ==
  LET e == nd.excess - Drain(nd, r, t) + 1000
  IN  IF e < 0 THEN 0 ELSE e

\* Faulty variants: a lookup that forgets lr->count++, an accounting step and
\* a release that forget lr->count--.
NotPinned(nd) == nd
NotUnpinned(nd) == nd

Pin(nd) == [nd EXCEPT !.count = @ + 1]
Unpin(nd) == [nd EXCEPT !.count = @ - 1]

-----------------------------------------------------------------------------
(***************************************************************************)
(* The LRU queue of a zone                                                 *)
(***************************************************************************)

InQueue(q, k) == \E i \in 1..Len(q) : q[i] = k

\* ngx_queue_remove and ngx_queue_insert_head of a node that is in q.
MoveToHead(q, k) ==
  LET i == CHOOSE j \in 1..Len(q) : q[j] = k
  IN  [j \in 1..Len(q) |-> IF j = 1 THEN k ELSE IF j <= i THEN q[j-1] ELSE q[j]]

Tail1(q) == q[Len(q)]
DropTail(q) == [j \in 1..(Len(q) - 1) |-> q[j]]

\* One pass of the loop of ngx_http_access_control_expire with n # 0: the
\* oldest node goes if nobody has pinned it, it is old, and its excess has
\* drained at rate r, the rate of the key that is being inserted.
ExpireIdle(q, nd, r, t) ==
  IF /\ Len(q) > 0
     /\ nd[Tail1(q)].count = 0
     /\ Abs(t - nd[Tail1(q)].last) >= ExpireAge
     /\ nd[Tail1(q)].excess - Drain(nd[Tail1(q)], r, t) <= 0
  THEN DropTail(q)
  ELSE q

\* ngx_http_access_control_expire(ctx, 1, maxtps)
Expire1(q, nd, r, t) == ExpireIdle(ExpireIdle(q, nd, r, t), nd, r, t)

\* Faulty variant of Expire0: the oldest node goes even if it is pinned.
Expire0Always(q, nd, r, t) ==
  IF Len(q) > 0 THEN Expire1(DropTail(q), nd, r, t) ELSE q

\* ngx_http_access_control_expire(ctx, 0, maxtps)
Expire0(q, nd, r, t) ==
  IF Len(q) > 0 /\ nd[Tail1(q)].count = 0
  THEN Expire1(DropTail(q), nd, r, t)
  ELSE q

\* Faulty variant of MakeRoom: nothing is ever expired by force.
MakeRoomGently(q, nd, r, t) == Expire1(q, nd, r, t)

\* The queue once ngx_http_access_control_lookup has tried to make room.
MakeRoom(q, nd, r, t) ==
  LET q1 == Expire1(q, nd, r, t)
  IN  IF Len(q1) < Slots THEN q1 ELSE Expire0(q1, nd, r, t)

\* The nodes of the keys in q; the others have been freed.
Live(nd, q) == [k \in Keys |-> IF InQueue(q, k) THEN nd[k] ELSE Blank]

-----------------------------------------------------------------------------
(***************************************************************************)
(* The handler                                                             *)
(***************************************************************************)

Init ==
  /\ now = StartTime
  /\ wtime = [w \in Workers |-> StartTime]
  /\ queue = [z \in Limits |-> << >>]
  /\ node = [z \in Limits |-> [k \in Keys |-> Blank]]
  /\ pc = [w \in Workers |-> "idle"]
  /\ cur = [w \in Workers |-> NULL]
  /\ n = [w \in Workers |-> 0]
  /\ rc = [w \in Workers |-> "DECLINED"]
  /\ ctxnode = [w \in Workers |-> [z \in Limits |-> NULL]]
  /\ maxtps = [w \in Workers |-> 0]
  /\ mdelay = [w \in Workers |-> 0]
  /\ key \in [Requests -> Keys]
  /\ status = [r \in Requests |-> "new"]
  /\ set = [r \in Requests |-> FALSE]
  /\ delay = [r \in Requests |-> 0]
  /\ charged = [r \in Requests |-> [z \in Limits |-> 0]]

Tick ==
  /\ \E d \in Steps : now + d <= MaxNow /\ now' = now + d
  /\ UNCHANGED <<wtime, shared, worker, request>>

\* ngx_time_update: a new turn of the worker's event loop refreshes its cached
\* time.  The handler never returns to the loop before it is done with a
\* request.
TimeUpdate(w) ==
  /\ pc[w] = "idle"
  /\ wtime[w] # now
  /\ wtime' = [wtime EXCEPT ![w] = now]
  /\ UNCHANGED <<now, shared, worker, request>>

\* The worker leaves the handler and its request has status s.
Leave(w, s) ==
  /\ pc' = [pc EXCEPT ![w] = "idle"]
  /\ cur' = [cur EXCEPT ![w] = NULL]
  /\ n' = [n EXCEPT ![w] = 0]
  /\ rc' = [rc EXCEPT ![w] = "DECLINED"]
  /\ maxtps' = [maxtps EXCEPT ![w] = 0]
  /\ mdelay' = [mdelay EXCEPT ![w] = 0]
  /\ status' = [status EXCEPT ![cur[w]] = s]

\* Faulty variant of Controlled: the handler forgets what it accounted.
NeverControlled(r) == FALSE

\* r->main->access_control_set: set once the limits have been looked up.
Controlled(r) == set[r]

\* The preaccess phase enters the handler: at once declined when the request
\* was already accounted, otherwise the loop over the limits starts.
Handler(w, r) ==
  /\ pc[w] = "idle"
  /\ status[r] = "new"
  /\ IF Controlled(r)
     THEN /\ status' = [status EXCEPT ![r] = "passed"]
          /\ UNCHANGED <<pc, cur, n>>
     ELSE /\ status' = [status EXCEPT ![r] = "handling"]
          /\ pc' = [pc EXCEPT ![w] = "limit"]
          /\ cur' = [cur EXCEPT ![w] = r]
          /\ n' = [n EXCEPT ![w] = 1]
  /\ UNCHANGED <<clocks, shared, rc, ctxnode, maxtps, mdelay,
                 key, set, delay, charged>>

\* 403: the table of this limit has no row for the request, or a quota of zero.
\* (400 and 401, when the limit's list of services or of keys lacks it, are the
\* same early return.)  Nothing the earlier limits did is undone.
Refuse(w) ==
  /\ pc[w] = "limit"
  /\ Fm[n[w]][key[cur[w]]] <= 0
  /\ Leave(w, "refused")
  /\ UNCHANGED <<clocks, shared, ctxnode, key, set, delay, charged>>

\* The lookup of this limit is reached, and the node is (not) in the tree.
AtLookup(w, found) ==
  /\ pc[w] = "limit"
  /\ Fm[n[w]][key[cur[w]]] > 0
  /\ InQueue(queue[n[w]], key[cur[w]]) = found

RateOf(w) == MaxTps(Fm[n[w]][key[cur[w]]])
LookupExcess(w) == Excess(node[n[w]][key[cur[w]]], RateOf(w), wtime[w])

\* Faulty variant of MayPass: the request itself is not counted in.
MayPassBefore(w) == LookupExcess(w) - 1000 <= Burst[n[w]] * RateOf(w)

MayPass(w) == LookupExcess(w) <= Burst[n[w]] * RateOf(w)
Charge(w) == charged' = [charged EXCEPT ![cur[w]][n[w]] = @ + 1]

\* max_delay as ngx_http_access_control_account first sets it, for excess e
\* in the last limit.
FirstDelay(w, e) ==
  IF e = 0 \/ NoDelay[n[w]] THEN 0 ELSE (e * 1000) \div RateOf(w)

\* The lookup answers v: BUSY and ERROR start the release of the earlier
\* limits' nodes, OK starts accounting them, AGAIN goes to the next limit.
Answer(w, v, e) ==
  /\ rc' = [rc EXCEPT ![w] = v]
  /\ maxtps' = [maxtps EXCEPT ![w] = RateOf(w)]
  /\ n' = [n EXCEPT ![w] = IF v = "AGAIN" THEN @ + 1 ELSE @ - 1]
  /\ pc' = [pc EXCEPT ![w] = CASE v = "AGAIN" -> "limit"
                               [] v = "OK" -> "account"
                               [] OTHER -> "release"]
  /\ set' = [set EXCEPT ![cur[w]] = v # "AGAIN"]
  /\ mdelay' = [mdelay EXCEPT ![w] = IF v = "OK" THEN FirstDelay(w, e) ELSE 0]
  /\ UNCHANGED <<clocks, cur, key, status, delay>>

\* Node found, but one more request exceeds the burst.
LookupBusy(w) ==
  LET z == n[w]  k == key[cur[w]]
  IN  /\ AtLookup(w, TRUE)
      /\ ~ MayPass(w)
      /\ queue' = [queue EXCEPT ![z] = MoveToHead(@, k)]
      /\ Answer(w, "BUSY", 0)
      /\ UNCHANGED <<node, ctxnode, charged>>

\* Node found in the last limit: accounted on the spot.
LookupAccount(w) ==
  LET z == n[w]  k == key[cur[w]]  e == LookupExcess(w)
  IN  /\ AtLookup(w, TRUE)
      /\ MayPass(w)
      /\ z = NLimits
      /\ queue' = [queue EXCEPT ![z] = MoveToHead(@, k)]
      /\ node' = [node EXCEPT ![z][k].excess = e, ![z][k].last = wtime[w]]
      /\ Charge(w)
      /\ Answer(w, "OK", e)
      /\ UNCHANGED ctxnode

\* Node found in an earlier limit: pinned, to be accounted later.
LookupPin(w) ==
  LET z == n[w]  k == key[cur[w]]
  IN  /\ AtLookup(w, TRUE)
      /\ MayPass(w)
      /\ z < NLimits
      /\ queue' = [queue EXCEPT ![z] = MoveToHead(@, k)]
      /\ node' = [node EXCEPT ![z][k] = Pin(@)]
      /\ ctxnode' = [ctxnode EXCEPT ![w][z] = k]
      /\ Answer(w, "AGAIN", 0)
      /\ UNCHANGED charged

\* No node yet, and the pool still has no room after expiring what it can.
LookupNoMemory(w) ==
  LET z == n[w]
      q == MakeRoom(queue[z], node[z], RateOf(w), wtime[w])
  IN  /\ AtLookup(w, FALSE)
      /\ Len(q) >= Slots
      /\ queue' = [queue EXCEPT ![z] = q]
      /\ node' = [node EXCEPT ![z] = Live(@, q)]
      /\ Answer(w, "ERROR", 0)
      /\ UNCHANGED <<ctxnode, charged>>

\* No node yet: a fresh one, accounted in the last limit, pinned in others.
LookupNew(w) ==
  LET z == n[w]  k == key[cur[w]]
      q == MakeRoom(queue[z], node[z], RateOf(w), wtime[w])
      fresh == IF z = NLimits
               THEN [excess |-> 0, last |-> wtime[w], count |-> 0]
               ELSE [excess |-> 0, last |-> 0, count |-> 1]
  IN  /\ AtLookup(w, FALSE)
      /\ Len(q) < Slots
      /\ queue' = [queue EXCEPT ![z] = <<k>> \o q]
      /\ node' = [node EXCEPT ![z] = [Live(@, q) EXCEPT ![k] = fresh]]
      /\ IF z = NLimits
         THEN /\ Charge(w)
              /\ Answer(w, "OK", 0)
              /\ UNCHANGED ctxnode
         ELSE /\ ctxnode' = [ctxnode EXCEPT ![w][z] = k]
              /\ Answer(w, "AGAIN", 0)
              /\ UNCHANGED charged

\* "while (n--)" after BUSY or ERROR: one earlier limit's node is released.
Release(w) ==
  LET z == n[w]  k == ctxnode[w][z]
  IN  /\ pc[w] = "release"
      /\ n[w] > 0
      /\ node' = IF k = NULL THEN node ELSE [node EXCEPT ![z][k] = Unpin(@)]
      /\ ctxnode' = [ctxnode EXCEPT ![w][z] = NULL]
      /\ n' = [n EXCEPT ![w] = z - 1]
      /\ UNCHANGED <<clocks, queue, pc, cur, rc, maxtps, mdelay, request>>

\* The handler returns status_code.
Limited(w) ==
  /\ pc[w] = "release"
  /\ n[w] = 0
  /\ Leave(w, "limited")
  /\ UNCHANGED <<clocks, shared, ctxnode, key, set, delay, charged>>

\* "while (n--)" of ngx_http_access_control_account: the node pinned in one
\* earlier limit is charged at the current rate and unpinned.
Account(w) ==
  LET z == n[w]  k == ctxnode[w][z]
      e == Excess(node[z][k], maxtps[w], wtime[w])
      d == IF NoDelay[z] THEN 0 ELSE (e * 1000) \div maxtps[w]
  IN  /\ pc[w] = "account"
      /\ n[w] > 0
      /\ IF k = NULL
         THEN UNCHANGED <<node, mdelay, charged>>
         ELSE /\ node' = [node EXCEPT ![z][k] =
                            Unpin([@ EXCEPT !.excess = e, !.last = wtime[w]])]
              /\ mdelay' = [mdelay EXCEPT ![w] = IF d > @ THEN d ELSE @]
              /\ Charge(w)
      /\ ctxnode' = [ctxnode EXCEPT ![w][z] = NULL]
      /\ n' = [n EXCEPT ![w] = z - 1]
      /\ UNCHANGED <<clocks, queue, pc, cur, rc, maxtps,
                     key, status, set, delay>>

\* The handler declines (the request goes on), or arms the delay timer, or
\* fails with 500 when the connection's read event cannot be armed.
Accounted(w) ==
  /\ pc[w] = "account"
  /\ n[w] = 0
  /\ \E s \in IF mdelay[w] = 0 THEN {"passed"} ELSE {"delayed", "failed"} :
        Leave(w, s)
  /\ delay' = [delay EXCEPT ![cur[w]] = mdelay[w]]
  /\ UNCHANGED <<clocks, shared, ctxnode, key, set, charged>>

\* Faulty variant of DelayOver: the delay timer was never armed.
DelayNeverOver(r) == FALSE /\ UNCHANGED vars

\* ngx_http_access_control_delay once the timer has fired: the phases run
\* again, so the request enters the handler a second time.
DelayOver(r) ==
  /\ status[r] = "delayed"
  /\ status' = [status EXCEPT ![r] = "new"]
  /\ UNCHANGED <<clocks, shared, worker, key, set, delay, charged>>

\* While it waits, ngx_http_test_reading finds that the client has gone, or
\* an event cannot be armed and the request is finalized with 500.
DelayAborted(r) ==
  /\ status[r] = "delayed"
  /\ status' = [status EXCEPT ![r] = "failed"]
  /\ UNCHANGED <<clocks, shared, worker, key, set, delay, charged>>

Step(w) ==
  \/ Refuse(w) \/ LookupBusy(w) \/ LookupAccount(w) \/ LookupPin(w)
  \/ LookupNoMemory(w) \/ LookupNew(w)
  \/ Release(w) \/ Limited(w) \/ Account(w) \/ Accounted(w)

Next ==
  \/ Tick
  \/ \E w \in Workers : TimeUpdate(w) \/ Step(w)
  \/ \E w \in Workers, r \in Requests : Handler(w, r)
  \/ \E r \in Requests : DelayOver(r) \/ DelayAborted(r)

Spec == Init /\ [][Next]_vars

\* A worker that is inside the handler runs on, an event loop turns and a
\* timer fires: each is a run-to-completion step of an nginx worker.
Fairness ==
  /\ \A w \in Workers : WF_vars(Step(w))
  /\ \A r \in Requests : WF_vars(\E w \in Workers : Handler(w, r))
  /\ \A r \in Requests : WF_vars(DelayOver(r))

FairSpec == Spec /\ Fairness

-----------------------------------------------------------------------------
(***************************************************************************)
(* Properties                                                              *)
(***************************************************************************)

NodeType == [excess : Nat, last : Nat, count : Int]

\* The types of the shared zones, of the workers' local variables and of the
\* requests; no excess and no delay the handler computes is negative.
TypeOK ==
  /\ now \in Nat
  /\ wtime \in [Workers -> Nat]
  /\ queue \in [Limits -> Seq(Keys)]
  /\ node \in [Limits -> [Keys -> NodeType]]
  /\ pc \in [Workers -> {"idle", "limit", "release", "account"}]
  /\ cur \in [Workers -> Requests \cup {NULL}]
  /\ n \in [Workers -> 0..NLimits]
  /\ rc \in [Workers -> {"DECLINED", "BUSY", "ERROR", "OK", "AGAIN"}]
  /\ ctxnode \in [Workers -> [Limits -> Keys \cup {NULL}]]
  /\ maxtps \in [Workers -> Nat]
  /\ mdelay \in [Workers -> Nat]
  /\ key \in [Requests -> Keys]
  /\ status \in [Requests -> {"new", "handling", "delayed", "passed",
                              "refused", "limited", "failed"}]
  /\ set \in [Requests -> BOOLEAN]
  /\ delay \in [Requests -> Nat]
  /\ charged \in [Requests -> [Limits -> Nat]]

\* The limits whose node worker w looked up in the request it is handling and
\* has neither accounted nor released.
Pinned(w) ==
  CASE pc[w] = "limit" -> {z \in Limits : z < n[w]}
    [] pc[w] \in {"release", "account"} -> {z \in Limits : z <= n[w]}
    [] OTHER -> {}

Holders(z, k) == {w \in Workers : z \in Pinned(w) /\ ctxnode[w][z] = k}

\* A node that some worker reached in ngx_http_access_control_lookup and will
\* still write through ctx->node is in the zone: ngx_http_access_control_expire,
\* run by any other worker after the mutex was dropped, has not freed it.
NoDanglingNode ==
  \A w \in Workers : \A z \in Pinned(w) :
    /\ ctxnode[w][z] \in Keys
    /\ InQueue(queue[z], ctxnode[w][z])

\* node->count covers every worker that holds the node between lookup and
\* accounting, so no release by one worker unpins the node of another.
PinsCounted ==
  \A z \in Limits, k \in Keys : Cardinality(Holders(z, k)) <= node[z][k].count

\* Where the handler can be: inside it a worker has a request, in the loop
\* over the limits n is one of them, and accounting has a rate to divide by.
ControlInv ==
  \A w \in Workers :
    /\ pc[w] # "idle" => cur[w] \in Requests
    /\ pc[w] = "limit" => n[w] \in Limits
    /\ pc[w] \in {"release", "account"} => n[w] < NLimits
    /\ pc[w] = "account" => maxtps[w] # 0

\* The inductive invariant: NoDanglingNode needs PinsCounted, because a node
\* may be freed as soon as its count is 0, and PinsCounted needs
\* NoDanglingNode, because a fresh node restarts its count.
IInv == TypeOK /\ ControlInv /\ NoDanglingNode /\ PinsCounted

\* When all limits loaded the same table no pin is ever left behind: a node's
\* count is exactly the number of workers inside the handler that hold it.
PinsExact ==
  \A z \in Limits, k \in Keys : Cardinality(Holders(z, k)) = node[z][k].count

\* A request is charged in all the zones or in none: it passes, waits or fails
\* after the limiter only when each zone was charged exactly once (also when
\* the delay timer sends it through the handler again), and a request limited
\* or refused by a later zone has not been charged by an earlier one.
ChargedOnce ==
  \A r \in Requests :
    /\ status[r] \in {"passed", "delayed", "failed"} =>
         \A z \in Limits : charged[r][z] = 1
    /\ status[r] \in {"refused", "limited"} =>
         \A z \in Limits : charged[r][z] = 0

\* The last zone checks and charges under one lock and never exceeds the
\* burst.  An earlier zone checks and charges in two critical sections: the
\* other workers may each have slipped one request in between.
ExcessBounded ==
  \A z \in Limits, k \in Keys :
    LET slack == IF z = NLimits THEN 0 ELSE 1000 * (Cardinality(Workers) - 1)
    IN  Fm[z][k] > 0 =>
          node[z][k].excess <= Burst[z] * MaxTps(Fm[z][k]) + slack

\* The pool of a zone refuses a node only because another worker, inside the
\* handler, holds the oldest one.
ErrorOnlyWhenPinned ==
  [][\A w \in Workers :
       rc'[w] = "ERROR" /\ rc[w] # "ERROR" =>
         \E v \in Workers \ {w} :
           /\ n[w] \in Pinned(v)
           /\ ctxnode[v][n[w]] = Tail1(queue'[n[w]])]_vars

\* Every request that reaches the limiter is answered or handed on.
EventuallyDecided ==
  \A r \in Requests :
    [](status[r] \in {"new", "handling", "delayed"} =>
         <>(status[r] \in {"passed", "refused", "limited", "failed"}))

\* The comment of ngx_http_access_control_expire on a pinned oldest entry:
\* lookups move nodes to the head, so an entry with a count at the tail is one
\* that a worker is working on.
PinnedTailIsInUse ==
  \A z \in Limits :
    LET q == queue[z]
    IN  Len(q) > 0 /\ node[z][Tail1(q)].count > 0 =>
          Holders(z, Tail1(q)) # {}

=============================================================================

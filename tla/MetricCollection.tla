-------------------------- MODULE MetricCollection --------------------------
(***************************************************************************)
(* The metric collection task (server/src/metric_collection): it collects  *)
(* from every remote on a timer and on demand, asks each remote for the    *)
(* data points after the most recent one it knows, hands them to the RRD   *)
(* task, and keeps the position of every remote in a state file.           *)
(*                                                                         *)
(* A data point is its time stamp, which is the remote's; a remote whose   *)
(* clock is wrong may date it ahead of ours.                               *)
(***************************************************************************)
EXTENDS Integers, FiniteSets

CONSTANTS
    Remotes, Waiters,
    MinInterval,  \* MIN_COLLECTION_INTERVAL
    Interval,     \* DEFAULT_COLLECTION_INTERVAL
    Tolerance,    \* FUTURE_DATAPOINT_TOLERANCE
    MaxSkew,      \* how far a remote's clock may be ahead
    MaxTime,      \* bound: the clock
    MaxPoints,    \* bound: the data points of a remote
    MaxCrashes,   \* bound: the restarts of the daemon
    Nothing

ASSUME MetricBounds ==
    /\ Interval \in Nat /\ MinInterval \in 1 .. Interval /\ Tolerance \in Nat /\ MaxSkew \in Nat
    /\ MaxTime \in Nat /\ MaxTime > Interval /\ MaxPoints \in Nat /\ MaxCrashes \in Nat
    /\ Nothing \notin Remotes

VARIABLES
    clock,
    config,   \* the remotes in remotes.cfg
    data,     \* data[m]: the data points that the remote has
    rrd,      \* rrd[m]: the data points in the RRD database
    status,   \* status[m]: the task's position at the remote, or Nothing
    saved,    \* the state file
    task,     \* the task's program counter, and the request it works on
    fetch,    \* fetch[m]: fetch_single_remote for the remote, or Nothing
    waiter,   \* waiter[w]: a caller of trigger_remote_metric_collection
    crashes

vars == <<clock, config, data, rrd, status, saved, task, fetch, waiter, crashes>>

\* The clock counts from long ago: a remote that was never collected is overdue.
Start == Interval + 1
Times == Start .. MaxTime
Points == Start .. MaxTime + MaxSkew

\* last: the time of the last successful collection, or 0.
Statuses == [recent : {0} \cup Points, last : {0} \cup Times, error : BOOLEAN]
Fresh == [recent |-> 0, last |-> 0, error |-> FALSE]

Fetches ==
    [pc : {"asking", "sent", "stored"}, status : Statuses, now : Times, points : SUBSET Points]
    \cup [pc : {"done"}, status : Statuses]

ASSUME NothingIsNoRecord == Nothing \notin Statuses \cup Fetches

\* pc: "sent" until the task takes the message, "served" while it works on it; targets:
\* the configured remotes that it then works on.
Requests ==
    [pc : {"sent", "served"}, remote : Remotes \cup {Nothing}, at : Times,
     targets : SUBSET Remotes]
    \cup [pc : {"answered", "failed"}]

\* The positions, the fetches and the requests have the shapes the task gives them.
TypeOK ==
    /\ clock \in Times /\ config \subseteq Remotes /\ crashes \in 0 .. MaxCrashes
    /\ data \in [Remotes -> SUBSET Points] /\ rrd \in [Remotes -> SUBSET Points]
    /\ status \in [Remotes -> Statuses \cup {Nothing}]
    /\ saved \in [Remotes -> Statuses \cup {Nothing}]
    /\ task \in {"start", "idle", "collect", "save"}
    /\ fetch \in [Remotes -> Fetches \cup {Nothing}]
    /\ waiter \in [Waiters -> Requests \cup {Nothing}]

Init ==
    /\ clock = Start /\ config = Remotes /\ crashes = 0
    /\ data = [m \in Remotes |-> {}] /\ rrd = [m \in Remotes |-> {}]
    /\ status = [m \in Remotes |-> Nothing] /\ saved = [m \in Remotes |-> Nothing]
    /\ task = "start"
    /\ fetch = [m \in Remotes |-> Nothing]
    /\ waiter = [w \in Waiters |-> Nothing]

-----------------------------------------------------------------------------
(***************************************************************************)
(* The environment: time, the remotes, the configuration, the callers.     *)
(***************************************************************************)
Tick ==
    /\ clock < MaxTime
    /\ clock' = clock + 1
    /\ UNCHANGED <<config, data, rrd, status, saved, task, fetch, waiter, crashes>>

\* A remote's data points are in the order of their time stamps.
Produce(m, p) ==
    /\ p \in {clock, clock + MaxSkew} /\ Cardinality(data[m]) < MaxPoints
    /\ \A q \in data[m] : q < p
    /\ data' = [data EXCEPT ![m] = @ \cup {p}]
    /\ UNCHANGED <<clock, config, rrd, status, saved, task, fetch, waiter, crashes>>

Reconfigure(m) ==
    /\ config' = IF m \in config THEN config \ {m} ELSE config \cup {m}
    /\ UNCHANGED <<clock, data, rrd, status, saved, task, fetch, waiter, crashes>>

\* trigger_remote_metric_collection with wait, for one remote or (Nothing) for all.
Trigger(w, m) ==
    /\ waiter[w] = Nothing
    /\ waiter' = [waiter EXCEPT ![w] = [pc |-> "sent", remote |-> m, at |-> clock,
                                         targets |-> {}]]
    /\ UNCHANGED <<clock, config, data, rrd, status, saved, task, fetch, crashes>>

-----------------------------------------------------------------------------
(***************************************************************************)
(* RemoteMetricCollectionTask.                                             *)
(***************************************************************************)
StatusOf(known, m) == IF known[m] = Nothing THEN Fresh ELSE known[m]

\* Mutant: a remote that was collected exactly MIN_COLLECTION_INTERVAL ago is left alone.
FetchRemotesLater(known, targets) ==
    fetch' = [m \in Remotes |->
                IF m \in targets \cap config /\ clock - StatusOf(known, m).last > MinInterval
                THEN [pc |-> "asking", status |-> StatusOf(known, m), now |-> clock,
                      points |-> {}]
                ELSE Nothing]

\* fetch_remotes: the remotes that were collected a moment ago are left alone, and so
\* are those that are not configured.
FetchRemotes(known, targets) ==
    fetch' = [m \in Remotes |->
                IF m \in targets \cap config /\ clock - StatusOf(known, m).last >= MinInterval
                THEN [pc |-> "asking", status |-> StatusOf(known, m), now |-> clock,
                      points |-> {}]
                ELSE Nothing]

Others == UNCHANGED <<clock, config, data, rrd, crashes>>

\* run: what would be overdue when the timer first fires, left from now, is fetched.
Startup(left) ==
    /\ task = "start"
    /\ task' = "collect"
    /\ FetchRemotes(status,
          {m \in config : clock - StatusOf(status, m).last + left > Interval})
    /\ Others /\ UNCHANGED <<status, saved, waiter>>

\* handle_tick: what is known of removed remotes is dropped, all others are fetched.
HandleTick ==
    /\ task = "idle"
    /\ task' = "collect"
    /\ status' = [m \in Remotes |-> IF m \in config THEN status[m] ELSE Nothing]
    /\ FetchRemotes(status', config)
    /\ Others /\ UNCHANGED <<saved, waiter>>

HandleControlMessage(w) ==
    /\ task = "idle" /\ waiter[w] # Nothing /\ waiter[w].pc = "sent"
    /\ task' = "collect"
    /\ LET targets == IF waiter[w].remote = Nothing THEN config
                      ELSE config \cap {waiter[w].remote}
       IN  /\ waiter' = [waiter EXCEPT ![w] = [@ EXCEPT !.pc = "served", !.targets = targets]]
           /\ FetchRemotes(status, targets)
    /\ Others /\ UNCHANGED <<status, saved>>

\* load_remote_config fails: the tick is over; the message is dropped, and with it the
\* sender that the caller waits on.
ConfigUnreadable ==
    /\ task = "idle" /\ task' = "save"
    /\ \/ UNCHANGED waiter
       \/ \E w \in Waiters :
             /\ waiter[w] # Nothing /\ waiter[w].pc = "sent"
             /\ waiter' = [waiter EXCEPT ![w] = [pc |-> "failed"]]
    /\ Others /\ UNCHANGED <<status, saved, fetch>>

\* The remote answers with what it has after the most recent point we know.
RemoteAnswers(m) ==
    /\ fetch[m] # Nothing /\ fetch[m].pc = "asking"
    /\ fetch' = [fetch EXCEPT ![m] =
          [@ EXCEPT !.pc = "sent", !.points = {p \in data[m] : p > fetch[m].status.recent}]]
    /\ Others /\ UNCHANGED <<status, saved, task, waiter>>

\* store_datapoints: the most recent of the points that are kept, 0 without any.
Kept(f) == {p \in f.points : p <= f.now + Tolerance}
\* Mutant: the most recent of all points, the ones that are dropped included.
MostRecentOfAll(f) ==
    IF f.points = {} THEN 0 ELSE CHOOSE p \in f.points : \A q \in f.points : q <= p

MostRecent(f) == IF Kept(f) = {} THEN 0 ELSE CHOOSE p \in Kept(f) : \A q \in Kept(f) : q <= p

\* store_in_rrd_task takes the request of this remote from its channel.
RrdStore(m) ==
    /\ fetch[m] # Nothing /\ fetch[m].pc = "sent"
    /\ rrd' = [rrd EXCEPT ![m] = @ \cup Kept(fetch[m])]
    /\ fetch' = [fetch EXCEPT ![m].pc = "stored"]
    /\ UNCHANGED <<clock, config, data, status, saved, task, waiter, crashes>>

Done(m, s) == fetch' = [fetch EXCEPT ![m] = [pc |-> "done", status |-> s]]

FetchSucceeds(m) ==
    /\ fetch[m] # Nothing /\ fetch[m].pc = "stored"
    /\ Done(m, [recent |-> MostRecent(fetch[m]), last |-> fetch[m].now, error |-> FALSE])
    /\ Others /\ UNCHANGED <<status, saved, task, waiter>>

\* The remote cannot be reached, or its answer comes to nothing on the way to the RRD.
FetchFails(m) ==
    /\ fetch[m] # Nothing /\ fetch[m].pc \in {"asking", "sent"}
    /\ Done(m, [fetch[m].status EXCEPT !.error = TRUE])
    /\ Others /\ UNCHANGED <<status, saved, task, waiter>>

\* Mutant: a caller is told only when there was something to fetch.
CollectedSilently ==
    /\ task = "collect"
    /\ \A m \in Remotes : fetch[m] # Nothing => fetch[m].pc = "done"
    /\ status' = [m \in Remotes |-> IF fetch[m] = Nothing THEN status[m] ELSE fetch[m].status]
    /\ fetch' = [m \in Remotes |-> Nothing]
    /\ waiter' = [w \in Waiters |->
                    IF waiter[w] # Nothing /\ waiter[w].pc = "served"
                       /\ \E m \in Remotes : fetch[m] # Nothing
                    THEN [pc |-> "answered"] ELSE waiter[w]]
    /\ task' = "save"
    /\ Others /\ UNCHANGED saved

\* All fetches are joined: the new positions are noted, a caller is told.
Collected ==
    /\ task = "collect"
    /\ \A m \in Remotes : fetch[m] # Nothing => fetch[m].pc = "done"
    /\ status' = [m \in Remotes |-> IF fetch[m] = Nothing THEN status[m] ELSE fetch[m].status]
    /\ fetch' = [m \in Remotes |-> Nothing]
    /\ waiter' = [w \in Waiters |->
                    IF waiter[w] # Nothing /\ waiter[w].pc = "served"
                    THEN [pc |-> "answered"] ELSE waiter[w]]
    /\ task' = "save"
    /\ Others /\ UNCHANGED saved

\* state.save() at the end of the loop's body; its failure is only logged.
Save ==
    /\ task = "save" /\ task' = "idle"
    /\ saved' = status \/ UNCHANGED saved
    /\ Others /\ UNCHANGED <<status, fetch, waiter>>

\* The daemon stops, between any two steps, and comes back with the state file; the
\* callers that wait are its own.
Crash ==
    /\ crashes < MaxCrashes /\ crashes' = crashes + 1
    /\ task' = "start"
    /\ status' = saved
    /\ fetch' = [m \in Remotes |-> Nothing]
    /\ waiter' = [w \in Waiters |-> Nothing]
    /\ UNCHANGED <<clock, config, data, rrd, saved>>

TaskStep ==
    \/ \E left \in 0 .. Interval : Startup(left)
    \/ \E w \in Waiters : HandleControlMessage(w)
    \/ \E m \in Remotes :
          RemoteAnswers(m) \/ RrdStore(m) \/ FetchSucceeds(m) \/ FetchFails(m)
    \/ Collected \/ Save

Next ==
    \/ Tick
    \/ \E m \in Remotes : Reconfigure(m) \/ \E p \in Points : Produce(m, p)
    \/ \E w \in Waiters, m \in Remotes \cup {Nothing} : Trigger(w, m)
    \/ TaskStep \/ HandleTick \/ ConfigUnreadable \/ Crash

Spec == Init /\ [][Next]_vars

\* The task runs while it has something to do, a request to a remote ends (the client
\* has a timeout), and select! takes a ready branch again and again.
FairSpec ==
    /\ Spec
    /\ WF_vars(TaskStep)
    /\ \A w \in Waiters : SF_vars(HandleControlMessage(w))

-----------------------------------------------------------------------------
(***************************************************************************)
(* Properties.                                                             *)
(***************************************************************************)

\* What the remote has up to t is in the database.
StoredUpTo(m, t) == {p \in data[m] : p <= t} \subseteq rrd[m]

\* No data point is skipped: whatever lies at or before the position that the task or
\* the state file has for a remote is in the RRD database, across restarts, failed
\* fetches, remotes that come and go, and points dated too far ahead, which are
\* dropped now and asked for again later (store_datapoints, fetch_single_remote).
NoPointSkipped ==
    \A m \in Remotes : \A s \in {status[m], saved[m]} \ {Nothing} :
        StoredUpTo(m, s.recent)

\* A caller that waited for a collection finds every remote it was for collected no
\* earlier than MIN_COLLECTION_INTERVAL before its request, or an error noted for it.
TriggerIsServed ==
    [][\A w \in Waiters :
          waiter[w] # Nothing /\ waiter[w].pc = "served" /\ waiter'[w] # Nothing =>
              \A m \in waiter[w].targets :
                  /\ waiter'[w].pc = "answered" => status'[m] # Nothing
                  /\ waiter'[w].pc = "answered" =>
                        status'[m].error \/ status'[m].last > waiter[w].at - MinInterval]_vars

NobodyWaits == \A w \in Waiters : waiter[w] = Nothing \/ waiter[w].pc \in {"answered", "failed"}

\* A caller that waits is told: its request is served, or dropped with an error, or the
\* daemon stops, however often the timer fires meanwhile.
TriggerIsAnswered == []<>NobodyWaits

=============================================================================

----------------------- MODULE MetricCollectionProofs -----------------------
(***************************************************************************)
(* Metric collection, for any number of remotes, callers and restarts: it  *)
(* skips no data point, and who is told that a remote was collected has    *)
(* its metrics up to date.                                                 *)
(***************************************************************************)
EXTENDS MetricCollection, WellFoundedInduction, TLAPS

\* A set of natural numbers that is not empty has a least one.
LEMMA LeastExists ==
    ASSUME NEW D \in SUBSET Nat, D # {}
    PROVE  \E n \in D : \A k \in D : n <= k
<1>. DEFINE R == OpToRel(<, Nat)
<1>1. IsWellFoundedOn(R, Nat)
    BY NatLessThanWellFounded, Zenon
<1>2. \E n \in D : \A k \in D : <<k, n>> \notin R
    <2>. HIDE DEF R
    <2>. QED  BY <1>1, WFMin, Zenon
<1>3. PICK n \in D : \A k \in D : <<k, n>> \notin R
    BY <1>2, Zenon
<1>4. ASSUME NEW k \in D PROVE n <= k
    <2>1. n \in Nat /\ k \in Nat /\ <<k, n>> \notin R
        <3>. HIDE DEF R
        <3>. QED  BY <1>3
    <2>2. ~(k < n)
        BY <2>1 DEF OpToRel
    <2>. HIDE DEF R
    <2>. QED  BY <2>1, <2>2
<1>. QED  BY <1>4

\* A set of points that is not empty has a most recent one.
LEMMA MostRecentExists ==
    ASSUME NEW S \in SUBSET Points, S # {}
    PROVE  \E p \in S : \A q \in S : q <= p
<1>. DEFINE B == MaxTime + MaxSkew
            D == {B - p : p \in S}
<1>1. B \in Nat /\ \A p \in S : p \in Nat /\ p <= B
    BY MetricBounds DEF Points, Start
<1>2. D \in SUBSET Nat /\ D # {}
    BY <1>1
<1>3. PICK n \in D : \A k \in D : n <= k
    <2>. HIDE DEF D
    <2>. QED  BY <1>2, LeastExists
<1>4. PICK p \in S : n = B - p
    BY <1>3
<1>5. ASSUME NEW q \in S PROVE q <= p
    <2>1. B - p <= B - q
        BY <1>3, <1>4
    <2>. QED  BY <2>1, <1>1
<1>. QED  BY <1>5

\* store_datapoints returns 0, or the most recent of the points that it stores.
LEMMA MostRecentIsKept ==
    ASSUME NEW f, f.points \in SUBSET Points
    PROVE  \/ Kept(f) = {} /\ MostRecent(f) = 0
           \/ MostRecent(f) \in Kept(f) /\ \A q \in Kept(f) : q <= MostRecent(f)
<1>1. CASE Kept(f) = {}
    BY <1>1 DEF MostRecent
<1>2. CASE Kept(f) # {}
    <2>1. Kept(f) \in SUBSET Points
        BY DEF Kept
    <2>2. \E p \in Kept(f) : \A q \in Kept(f) : q <= p
        BY <1>2, <2>1, MostRecentExists
    <2>. QED  BY <1>2, <2>2 DEF MostRecent
<1>. QED  BY <1>1, <1>2

-----------------------------------------------------------------------------
(***************************************************************************)
(* The invariant: a position is a data point of the remote, or 0, so that   *)
(* what the remote has later lies after it; NoPointSkipped also holds of   *)
(* the position that a fetch started from; and an answer on its way to the *)
(* database holds all that is missing up to its most recent point.         *)
(***************************************************************************)
Types ==
    /\ clock \in Times
    /\ data \in [Remotes -> SUBSET Points] /\ rrd \in [Remotes -> SUBSET Points]
    /\ status \in [Remotes -> Statuses \cup {Nothing}]
    /\ saved \in [Remotes -> Statuses \cup {Nothing}]
    /\ fetch \in [Remotes -> Fetches \cup {Nothing}]

Position(m, t) == (t = 0 \/ t \in data[m]) /\ StoredUpTo(m, t)

Positions ==
    \A m \in Remotes : \A s \in {status[m], saved[m]} \ {Nothing} : Position(m, s.recent)

FetchSound(m) ==
    /\ Position(m, fetch[m].status.recent)
    /\ fetch[m].pc \in {"sent", "stored"} =>
          /\ fetch[m].points \subseteq data[m]
          /\ {p \in data[m] : p <= MostRecent(fetch[m])} \subseteq rrd[m] \cup Kept(fetch[m])
    /\ fetch[m].pc = "stored" => Kept(fetch[m]) \subseteq rrd[m]

CollectInv ==
    /\ Types
    /\ Positions
    /\ \A m \in Remotes : fetch[m] # Nothing => FetchSound(m)

Unfinished ==
    [pc : {"asking", "sent", "stored"}, status : Statuses, now : Times, points : SUBSET Points]

\* A fetch has a position and, until it is done, points.
LEMMA FetchRecord ==
    ASSUME NEW f \in Fetches
    PROVE  /\ f.status \in Statuses
           /\ f.pc # "done" => f \in Unfinished
BY DEF Fetches, Unfinished

\* Points are positive, so that nothing lies before the position 0.
LEMMA NothingBeforeZero ==
    ASSUME NEW S \in SUBSET Points
    PROVE  {p \in S : p <= 0} = {}
<1>1. ASSUME NEW p \in S PROVE ~(p <= 0)
    <2>1. p \in Int /\ p >= Interval + 1
        BY DEF Points, Start
    <2>. QED  BY <2>1, MetricBounds
<1>. QED  BY <1>1

\* The position of a remote that is not known yet is 0.
LEMMA StatusOfSound ==
    ASSUME Types, Positions, NEW m \in Remotes
    PROVE  StatusOf(status, m) \in Statuses /\ Position(m, StatusOf(status, m).recent)
<1>1. CASE status[m] = Nothing
    <2>1. StatusOf(status, m) = Fresh
        BY <1>1 DEF StatusOf
    <2>2. Position(m, 0)
        BY NothingBeforeZero DEF Position, StoredUpTo, Types
    <2>. QED  BY <2>1, <2>2 DEF Fresh, Statuses
<1>2. CASE status[m] # Nothing
    BY <1>2 DEF StatusOf, Types, Positions
<1>. QED  BY <1>1, <1>2

\* fetch_remotes starts every fetch from a sound position.
LEMMA StartFetches ==
    ASSUME Types, Types', NEW known, NEW targets, FetchRemotes(known, targets),
           UNCHANGED <<data, rrd>>,
           \A m \in Remotes : /\ StatusOf(known, m) \in Statuses
                              /\ Position(m, StatusOf(known, m).recent)
    PROVE  \A m \in Remotes : fetch'[m] # Nothing => FetchSound(m)'
<1>. SUFFICES ASSUME NEW m \in Remotes, fetch'[m] # Nothing
              PROVE  FetchSound(m)'
    OBVIOUS
<1>1. fetch'[m].pc = "asking" /\ fetch'[m].status = StatusOf(known, m)
    BY DEF FetchRemotes
<1>. QED  BY <1>1 DEF FetchSound, Position, StoredUpTo

\* The types of what fetch_remotes starts.
LEMMA StartTypes ==
    ASSUME clock \in Times, NEW known, NEW targets, FetchRemotes(known, targets),
           \A m \in Remotes : StatusOf(known, m) \in Statuses
    PROVE  fetch' \in [Remotes -> Fetches \cup {Nothing}]
<1>1. ASSUME NEW m \in Remotes
      PROVE  [pc |-> "asking", status |-> StatusOf(known, m), now |-> clock, points |-> {}]
                \in Fetches
    BY DEF Fetches
<1>. QED  BY <1>1 DEF FetchRemotes

\* What stays sound when the positions, the data and the database do not change.
LEMMA Unmoved ==
    ASSUME UNCHANGED <<data, rrd, status, saved>>, Positions
    PROVE  Positions'
BY DEF Positions, Position, StoredUpTo

\* The fetches of the remotes that are overdue at the start are sound.
LEMMA StartupStep ==
    ASSUME CollectInv, NEW left \in 0 .. Interval, Startup(left)
    PROVE  CollectInv'
<1>. USE DEF CollectInv
<1>1. \A m \in Remotes : /\ StatusOf(status, m) \in Statuses
                         /\ Position(m, StatusOf(status, m).recent)
    BY StatusOfSound
<1>2. Types'
    BY <1>1, StartTypes DEF Startup, Others, Types
<1>3. Positions'
    BY Unmoved DEF Startup, Others
<1>. QED  BY <1>1, <1>2, <1>3, StartFetches DEF Startup, Others

\* The fetches for a control message are sound.
LEMMA ControlStep ==
    ASSUME CollectInv, NEW w \in Waiters, HandleControlMessage(w)
    PROVE  CollectInv'
<1>. USE DEF CollectInv
<1>1. \A m \in Remotes : /\ StatusOf(status, m) \in Statuses
                         /\ Position(m, StatusOf(status, m).recent)
    BY StatusOfSound
<1>2. PICK targets : FetchRemotes(status, targets)
    BY DEF HandleControlMessage
<1>3. Types'
    BY <1>1, <1>2, StartTypes DEF HandleControlMessage, Others, Types
<1>4. Positions'
    BY Unmoved DEF HandleControlMessage, Others
<1>. QED  BY <1>1, <1>2, <1>3, <1>4, StartFetches DEF HandleControlMessage, Others

\* The fetches of a tick are sound, without what was known of removed remotes.
LEMMA TickStep ==
    ASSUME CollectInv, HandleTick
    PROVE  CollectInv'
<1>. USE DEF CollectInv
<1>1. /\ status' \in [Remotes -> Statuses \cup {Nothing}]
      /\ \A m \in Remotes : status'[m] \in {status[m], Nothing}
      /\ UNCHANGED <<clock, data, rrd, saved>>
      /\ FetchRemotes(status', config)
    BY DEF HandleTick, Others, Types
<1>2. Positions'
    BY <1>1 DEF Positions, Position, StoredUpTo
<1>3. ASSUME NEW m \in Remotes
      PROVE  StatusOf(status', m) \in Statuses /\ Position(m, StatusOf(status', m).recent)
    <2>1. CASE status'[m] = Nothing
        <3>1. StatusOf(status', m) = Fresh
            BY <2>1 DEF StatusOf
        <3>2. Position(m, 0)
            BY NothingBeforeZero DEF Position, StoredUpTo, Types
        <3>. QED  BY <3>1, <3>2 DEF Fresh, Statuses
    <2>2. CASE status'[m] # Nothing
        <3>1. StatusOf(status', m) = status[m] /\ status[m] # Nothing
            BY <1>1, <2>2 DEF StatusOf
        <3>. QED  BY <3>1 DEF Types, Positions
    <2>. QED  BY <2>1, <2>2
<1>4. Types'
    BY <1>1, <1>3, StartTypes DEF Types
<1>. QED  BY <1>1, <1>2, <1>3, <1>4, StartFetches

\* A remote has a new data point: it is dated after all others.
LEMMA ProduceStep ==
    ASSUME CollectInv, NEW m \in Remotes, NEW p \in Points, Produce(m, p)
    PROVE  CollectInv'
<1>. USE DEF CollectInv
<1>1. Types'
    BY DEF Produce, Types
<1>2. /\ UNCHANGED <<rrd, status, saved, fetch>>
      /\ \A n \in Remotes : data'[n] = IF n = m THEN data[m] \cup {p} ELSE data[n]
      /\ \A n \in Remotes : \A q \in data[n] : q \in Int /\ q > 0
      /\ p \in Int /\ p > 0 /\ \A q \in data[m] : q < p
    BY MetricBounds DEF Produce, Types, Points, Start
<1>3. ASSUME NEW n \in Remotes, NEW t, t = 0 \/ t \in data[n]
      PROVE  {q \in data'[n] : q <= t} = {q \in data[n] : q <= t}
    BY <1>2, <1>3
<1>4. ASSUME NEW n \in Remotes, NEW t, Position(n, t)
      PROVE  Position(n, t)'
    BY <1>2, <1>3, <1>4 DEF Position, StoredUpTo
<1>5. Positions'
    BY <1>2, <1>4 DEF Positions
<1>6. ASSUME NEW n \in Remotes, fetch'[n] # Nothing
      PROVE  FetchSound(n)'
    <2>1. fetch[n] \in Fetches /\ FetchSound(n) /\ fetch' = fetch
        BY <1>2, <1>6 DEF Types
    <2>2. Position(n, fetch[n].status.recent)'
        BY <1>2, <1>4, <2>1 DEF FetchSound
    <2>3. ASSUME fetch[n].pc \in {"sent", "stored"}
          PROVE  {q \in data'[n] : q <= MostRecent(fetch[n])} \subseteq rrd[n] \cup Kept(fetch[n])
        <3>1. fetch[n].points \subseteq data[n] /\ fetch[n].points \in SUBSET Points
            BY <2>1, <2>3, FetchRecord DEF FetchSound, Unfinished
        <3>2. MostRecent(fetch[n]) = 0 \/ MostRecent(fetch[n]) \in data[n]
            BY <3>1, MostRecentIsKept DEF Kept
        <3>. QED  BY <1>3, <2>1, <2>3, <3>2 DEF FetchSound
    <2>. QED  BY <1>2, <2>1, <2>2, <2>3 DEF FetchSound
<1>. QED  BY <1>1, <1>5, <1>6

\* A step of one fetch touches nothing of the others.
LEMMA OneFetch ==
    ASSUME CollectInv, NEW m \in Remotes, NEW f \in Fetches,
           fetch' = [fetch EXCEPT ![m] = f],
           UNCHANGED <<clock, data, status, saved>>,
           rrd' \in [Remotes -> SUBSET Points],
           \A n \in Remotes : rrd[n] \subseteq rrd'[n],
           FetchSound(m)'
    PROVE  CollectInv'
<1>. USE DEF CollectInv
<1>1. Types'
    BY Zenon DEF Types
<1>2. Positions'
    BY Zenon DEF Positions, Position, StoredUpTo, Types
<1>3. ASSUME NEW n \in Remotes, n # m, fetch'[n] # Nothing
      PROVE  FetchSound(n)'
    <2>1. fetch'[n] = fetch[n] /\ FetchSound(n)
        BY <1>3 DEF Types
    <2>. QED  BY <2>1 DEF FetchSound, Position, StoredUpTo
<1>. QED  BY <1>1, <1>2, <1>3

\* The answer of the remote holds what is missing.
LEMMA AnswerStep ==
    ASSUME CollectInv, NEW m \in Remotes, RemoteAnswers(m)
    PROVE  CollectInv'
<1>. DEFINE f == [fetch[m] EXCEPT !.pc = "sent",
                      !.points = {p \in data[m] : p > fetch[m].status.recent}]
<1>1. /\ fetch[m] \in Unfinished /\ FetchSound(m) /\ data[m] \in SUBSET Points
      /\ fetch' = [fetch EXCEPT ![m] = f]
      /\ UNCHANGED <<clock, data, rrd, status, saved>>
    BY FetchRecord DEF CollectInv, Types, RemoteAnswers, Others
<1>2. /\ f \in Unfinished /\ f.pc = "sent" /\ f.status = fetch[m].status /\ f.now = fetch[m].now
      /\ f.points = {p \in data[m] : p > fetch[m].status.recent}
    BY <1>1, Zenon DEF Unfinished
<1>3. f \in Fetches
    BY <1>2, Zenon DEF Unfinished, Fetches
<1>4. ASSUME NEW q \in data[m], q <= MostRecent(f) PROVE q \in rrd[m] \cup Kept(f)
    <2>1. q \in Int /\ q > 0 /\ f.now \in Int /\ fetch[m].status.recent \in Int
        BY <1>1, MetricBounds DEF Unfinished, Statuses, Points, Start, Times
    <2>2. CASE q <= fetch[m].status.recent
        BY <1>1, <2>2 DEF FetchSound, Position, StoredUpTo
    <2>3. CASE q > fetch[m].status.recent
        <3>1. q \in f.points
            BY <1>2, <2>3
        <3>. HIDE DEF f
        <3>2. f.points \in SUBSET Points
            BY <1>2 DEF Unfinished
        <3>3. MostRecent(f) \in Kept(f)
            <4>1. MostRecent(f) # 0
                BY <1>4, <2>1
            <4>. QED  BY <3>2, <4>1, MostRecentIsKept
        <3>4. MostRecent(f) <= f.now + Tolerance /\ MostRecent(f) \in Points
            BY <3>2, <3>3 DEF Kept
        <3>5. MostRecent(f) \in Int
            BY <3>4, MetricBounds DEF Points, Start
        <3>. QED  BY <1>4, <2>1, <3>1, <3>4, <3>5, MetricBounds DEF Kept
    <2>. QED  BY <2>1, <2>2, <2>3
<1>5. FetchSound(m)'
    <2>1. fetch'[m] = f
        BY <1>1 DEF CollectInv, Types
    <2>. HIDE DEF f
    <2>. QED  BY <1>1, <1>2, <1>4, <2>1 DEF FetchSound, Position, StoredUpTo
<1>. HIDE DEF f
<1>. QED  BY <1>1, <1>3, <1>5, OneFetch, Zenon DEF CollectInv, Types

\* The RRD task stores what it keeps of an answer.
LEMMA RrdStep ==
    ASSUME CollectInv, NEW m \in Remotes, RrdStore(m)
    PROVE  CollectInv'
<1>. DEFINE f == [fetch[m] EXCEPT !.pc = "stored"]
<1>1. /\ fetch[m] \in Unfinished /\ FetchSound(m) /\ fetch[m].pc = "sent"
      /\ fetch' = [fetch EXCEPT ![m] = f]
      /\ rrd' = [rrd EXCEPT ![m] = @ \cup Kept(fetch[m])]
      /\ UNCHANGED <<clock, data, status, saved>>
    BY FetchRecord DEF CollectInv, Types, RrdStore
<1>2. /\ f \in Unfinished /\ f.pc = "stored" /\ f.status = fetch[m].status
      /\ f.points = fetch[m].points /\ f.now = fetch[m].now
    BY <1>1 DEF Unfinished
<1>3. f \in Fetches
    BY <1>2 DEF Unfinished, Fetches
<1>4. Kept(f) = Kept(fetch[m]) /\ MostRecent(f) = MostRecent(fetch[m])
    BY <1>2 DEF Kept, MostRecent
<1>5. /\ rrd' \in [Remotes -> SUBSET Points]
      /\ \A n \in Remotes : rrd[n] \subseteq rrd'[n]
      /\ rrd'[m] = rrd[m] \cup Kept(fetch[m])
    BY <1>1 DEF CollectInv, Types, Kept, Unfinished
<1>. HIDE DEF f
<1>6. FetchSound(m)'
    <2>1. fetch'[m] = f
        BY <1>1 DEF CollectInv, Types
    <2>. QED  BY <1>1, <1>2, <1>4, <1>5, <2>1 DEF FetchSound, Position, StoredUpTo
<1>. QED  BY <1>1, <1>3, <1>5, <1>6, OneFetch, Zenon

\* fetch_single_remote ends, with a new position or with the old one.
LEMMA FetchEnds ==
    ASSUME CollectInv, NEW m \in Remotes, FetchSucceeds(m) \/ FetchFails(m)
    PROVE  CollectInv'
<1>1. PICK s : fetch' = [fetch EXCEPT ![m] = [pc |-> "done", status |-> s]]
               /\ s \in Statuses /\ Position(m, s.recent)
    <2>1. fetch[m] \in Unfinished /\ FetchSound(m)
        BY FetchRecord DEF CollectInv, Types, FetchSucceeds, FetchFails
    <2>2. CASE FetchSucceeds(m)
        <3>1. /\ fetch[m].pc = "stored" /\ fetch[m].points \in SUBSET Points
              /\ fetch[m].points \subseteq data[m]
            BY <2>1, <2>2 DEF FetchSucceeds, FetchSound, Unfinished
        <3>2. MostRecent(fetch[m]) = 0 \/ MostRecent(fetch[m]) \in fetch[m].points
            BY <3>1, MostRecentIsKept DEF Kept
        <3>3. Position(m, MostRecent(fetch[m]))
            BY <2>1, <3>1, <3>2 DEF FetchSound, Position, StoredUpTo
        <3>. DEFINE t == [recent |-> MostRecent(fetch[m]), last |-> fetch[m].now,
                          error |-> FALSE]
        <3>4. t \in Statuses /\ t.recent = MostRecent(fetch[m])
            BY <2>1, <3>1, <3>2 DEF Statuses, Unfinished
        <3>5. fetch' = [fetch EXCEPT ![m] = [pc |-> "done", status |-> t]]
            BY <2>2 DEF FetchSucceeds, Done
        <3>. HIDE DEF t
        <3>. QED  BY <3>3, <3>4, <3>5, Zenon
    <2>3. CASE FetchFails(m)
        <3>. DEFINE t == [fetch[m].status EXCEPT !.error = TRUE]
        <3>1. t \in Statuses /\ t.recent = fetch[m].status.recent
            BY <2>1, Zenon DEF Statuses, Unfinished
        <3>2. fetch' = [fetch EXCEPT ![m] = [pc |-> "done", status |-> t]]
            BY <2>3 DEF FetchFails, Done
        <3>. HIDE DEF t
        <3>. QED  BY <2>1, <3>1, <3>2, Zenon DEF FetchSound
    <2>. QED  BY <2>2, <2>3
<1>. DEFINE f == [pc |-> "done", status |-> s]
<1>2. f \in Fetches
    BY <1>1 DEF Fetches
<1>3. UNCHANGED <<clock, data, rrd, status, saved>>
    BY DEF FetchSucceeds, FetchFails, Others
<1>4. fetch'[m] = f
    BY <1>1 DEF CollectInv, Types
<1>5. FetchSound(m)'
    BY <1>1, <1>3, <1>4 DEF FetchSound, Position, StoredUpTo
<1>. QED  BY <1>1, <1>2, <1>3, <1>5, OneFetch, Zenon DEF CollectInv, Types

\* The positions of finished fetches are noted.
LEMMA CollectedStep ==
    ASSUME CollectInv, Collected
    PROVE  CollectInv'
<1>. USE DEF CollectInv
<1>1. /\ \A m \in Remotes : fetch[m] # Nothing => fetch[m] \in Fetches /\ FetchSound(m)
      /\ status' = [m \in Remotes |-> IF fetch[m] = Nothing THEN status[m] ELSE fetch[m].status]
      /\ fetch' = [m \in Remotes |-> Nothing]
      /\ UNCHANGED <<clock, data, rrd, saved>>
    BY DEF Collected, Types, Others
<1>2. \A m \in Remotes : fetch[m] # Nothing => fetch[m].status \in Statuses
    BY <1>1, FetchRecord
<1>3. Types'
    BY <1>1, <1>2 DEF Types
<1>4. Positions'
    BY <1>1 DEF Positions, Position, StoredUpTo, FetchSound
<1>. QED  BY <1>1, <1>3, <1>4

\* The state file takes the positions of the task, or the task those of the file.
LEMMA FileStep ==
    ASSUME CollectInv, Save \/ Crash
    PROVE  CollectInv'
<1>. USE DEF CollectInv
<1>1. /\ UNCHANGED <<clock, data, rrd>>
      /\ saved' \in {saved, status} /\ status' \in {saved, status}
      /\ fetch' = fetch \/ fetch' = [m \in Remotes |-> Nothing]
    BY DEF Save, Crash, Others
<1>2. Types'
    BY <1>1 DEF Types
<1>3. Positions'
    BY <1>1 DEF Positions, Position, StoredUpTo
<1>4. \A m \in Remotes : fetch'[m] # Nothing => FetchSound(m)'
    BY <1>1, Zenon DEF FetchSound, Position, StoredUpTo
<1>. QED  BY <1>2, <1>3, <1>4

\* The steps that touch neither data, positions nor fetches.
LEMMA OtherStep ==
    ASSUME CollectInv, UNCHANGED <<data, rrd, status, saved, fetch>>, clock' \in Times
    PROVE  CollectInv'
BY DEF CollectInv, Types, Positions, Position, StoredUpTo, FetchSound

\* The initial state has no positions.
LEMMA CollectInit == Init => CollectInv
BY MetricBounds DEF Init, CollectInv, Types, Positions, Times, Start

\* Every step keeps the positions sound.
LEMMA CollectStep == CollectInv /\ [Next]_vars => CollectInv'
<1>. SUFFICES ASSUME CollectInv, [Next]_vars PROVE CollectInv'
    OBVIOUS
<1>. clock \in Times
    BY DEF CollectInv, Types
<1>1. CASE UNCHANGED vars
    BY <1>1, OtherStep DEF vars
<1>2. CASE Tick
    BY <1>2, OtherStep, MetricBounds DEF Tick, Times, Start
<1>3. ASSUME NEW m \in Remotes, Reconfigure(m) PROVE CollectInv'
    BY <1>3, OtherStep DEF Reconfigure
<1>4. ASSUME NEW m \in Remotes, NEW p \in Points, Produce(m, p) PROVE CollectInv'
    BY <1>4, ProduceStep
<1>5. ASSUME NEW w \in Waiters, NEW m \in Remotes \cup {Nothing}, Trigger(w, m)
      PROVE  CollectInv'
    BY <1>5, OtherStep DEF Trigger
<1>6. CASE TaskStep
    BY <1>6, StartupStep, ControlStep, AnswerStep, RrdStep, FetchEnds, CollectedStep,
       FileStep DEF TaskStep
<1>7. CASE HandleTick
    BY <1>7, TickStep
<1>8. CASE ConfigUnreadable
    BY <1>8, OtherStep DEF ConfigUnreadable, Others
<1>9. CASE Crash
    BY <1>9, FileStep
<1>. QED  BY <1>1, <1>2, <1>3, <1>4, <1>5, <1>6, <1>7, <1>8, <1>9 DEF Next

\* Metric collection skips no data point: what lies at or before the position noted for
\* a remote, in memory or in the state file, is in the database.
THEOREM NothingSkipped == Spec => []NoPointSkipped
<1>1. CollectInv => NoPointSkipped
    BY DEF CollectInv, Positions, Position, NoPointSkipped
<1>. QED  BY <1>1, CollectInit, CollectStep, PTL DEF Spec

-----------------------------------------------------------------------------
(***************************************************************************)
(* Serving the callers.  A request is served only while the task collects, *)
(* and then every remote it is for was left alone because it was collected *)
(* a moment ago, or is being fetched since, or has been.                   *)
(***************************************************************************)
Late(last, at) == last > at - MinInterval

Promise(m, at) ==
    /\ fetch[m] = Nothing => status[m] # Nothing /\ Late(status[m].last, at)
    /\ fetch[m] # Nothing /\ fetch[m].pc # "done" => fetch[m].now >= at
    /\ fetch[m] # Nothing /\ fetch[m].pc = "done" =>
          fetch[m].status.error \/ Late(fetch[m].status.last, at)

Served(w) == waiter[w] # Nothing /\ waiter[w].pc = "served"
Pending(w) == waiter[w] # Nothing /\ waiter[w].pc \in {"sent", "served"}

ServedInv ==
    /\ config \subseteq Remotes
    /\ waiter \in [Waiters -> Requests \cup {Nothing}]
    /\ \A w \in Waiters : Pending(w) => waiter[w].at <= clock
    /\ \A w \in Waiters : Served(w) =>
          task = "collect" /\ \A m \in waiter[w].targets : Promise(m, waiter[w].at)

\* A pending request says for whom and since when.
LEMMA PendingRequest ==
    ASSUME ServedInv, NEW w \in Waiters, Pending(w)
    PROVE  /\ waiter[w].at \in Times /\ waiter[w].targets \subseteq Remotes
           /\ waiter[w].remote \in Remotes \cup {Nothing}
<1>1. waiter[w] \in Requests
    BY Zenon DEF ServedInv, Pending
<1>. QED  BY <1>1 DEF Requests, Pending

\* The steps that concern no request: they keep every promise, while the task collects.
LEMMA PromisesKept ==
    ASSUME ServedInv, UNCHANGED waiter, clock' \in Times, clock \in Times, clock <= clock',
           config' \subseteq Remotes,
           task = "collect" => /\ task' = "collect"
                               /\ \A m \in Remotes, at \in Times : Promise(m, at) => Promise(m, at)'
    PROVE  ServedInv' /\ \A w \in Waiters : Served(w) => waiter'[w] = waiter[w]
<1>1. ASSUME NEW w \in Waiters, Pending(w)' PROVE waiter'[w].at <= clock'
    <2>1. Pending(w) /\ waiter'[w].at = waiter[w].at
        BY <1>1 DEF Pending
    <2>2. waiter[w].at \in Times /\ waiter[w].at <= clock
        BY <2>1, PendingRequest, Zenon DEF ServedInv
    <2>. QED  BY <2>1, <2>2 DEF Times, Start
<1>2. ASSUME NEW w \in Waiters, Served(w)'
      PROVE  task' = "collect" /\ \A m \in waiter'[w].targets : Promise(m, waiter[w].at)'
    <2>1. Served(w) /\ Pending(w) /\ waiter'[w] = waiter[w]
        BY <1>2 DEF Served, Pending
    <2>2. waiter[w].at \in Times /\ waiter[w].targets \subseteq Remotes
        BY <2>1, PendingRequest
    <2>. QED  BY <2>1, <2>2 DEF ServedInv
<1>. QED  BY <1>1, <1>2 DEF ServedInv

\* While the task does not collect, nobody is being served.
LEMMA NobodyServed ==
    ASSUME ServedInv, task # "collect", NEW w \in Waiters
    PROVE  ~Served(w)
BY Zenon DEF ServedInv

\* trigger_remote_metric_collection sends its message.
LEMMA TriggerServed ==
    ASSUME ServedInv, clock \in Times, NEW v \in Waiters, NEW r \in Remotes \cup {Nothing},
           Trigger(v, r)
    PROVE  ServedInv' /\ \A w \in Waiters : Served(w) => waiter'[w] = waiter[w]
<1>. DEFINE k == [pc |-> "sent", remote |-> r, at |-> clock, targets |-> {}]
<1>1. /\ UNCHANGED <<clock, config, status, task, fetch>> /\ waiter[v] = Nothing
      /\ waiter' = [waiter EXCEPT ![v] = k]
    BY Zenon DEF Trigger
<1>2. k \in Requests /\ k.pc = "sent" /\ k.at = clock
    BY Zenon DEF Requests
<1>. HIDE DEF k
<1>3. /\ waiter' \in [Waiters -> Requests \cup {Nothing}] /\ waiter'[v] = k
      /\ \A w \in Waiters \ {v} : waiter'[w] = waiter[w]
    BY <1>1, <1>2 DEF ServedInv
<1>4. ASSUME NEW w \in Waiters, Pending(w)' PROVE waiter'[w].at <= clock'
    <2>1. CASE w = v
        BY <1>1, <1>2, <1>3, <2>1 DEF Times, Start
    <2>2. CASE w # v
        BY <1>1, <1>3, <1>4, <2>2, Zenon DEF ServedInv, Pending
    <2>. QED  BY <2>1, <2>2
<1>5. ASSUME NEW w \in Waiters, Served(w)'
      PROVE  task' = "collect" /\ \A m \in waiter'[w].targets : Promise(m, waiter[w].at)'
    <2>1. w # v
        BY <1>2, <1>3, <1>5 DEF Served
    <2>2. Served(w) /\ waiter'[w] = waiter[w]
        BY <1>3, <1>5, <2>1 DEF Served
    <2>. QED  BY <1>1, <2>2 DEF ServedInv, Promise
<1>. QED  BY <1>1, <1>3, <1>4, <1>5, Zenon DEF ServedInv, Served

\* handle_control_message: the remotes are fetched, or were collected a moment ago.
LEMMA ControlServes ==
    ASSUME CollectInv, ServedInv, NEW v \in Waiters, HandleControlMessage(v)
    PROVE  ServedInv' /\ \A w \in Waiters : ~Served(w)
<1>. DEFINE targets == IF waiter[v].remote = Nothing THEN config ELSE config \cap {waiter[v].remote}
            k == [waiter[v] EXCEPT !.pc = "served", !.targets = targets]
<1>1. /\ UNCHANGED <<clock, config, status>> /\ task' = "collect" /\ task = "idle"
      /\ waiter[v] # Nothing /\ waiter[v].pc = "sent"
      /\ waiter' = [waiter EXCEPT ![v] = k] /\ FetchRemotes(status, targets)
    BY DEF HandleControlMessage, Others
<1>2. \A w \in Waiters : ~Served(w)
    BY <1>1, NobodyServed
<1>3. targets \subseteq config /\ targets \subseteq Remotes
    BY DEF ServedInv
<1>. HIDE DEF targets
<1>4. k \in Requests /\ k.pc = "served" /\ k.at = waiter[v].at /\ k.targets = targets
    <2>1. waiter[v] \in [pc : {"sent", "served"}, remote : Remotes \cup {Nothing}, at : Times,
                         targets : SUBSET Remotes]
        BY <1>1 DEF ServedInv, Requests
    <2>2. k \in [pc : {"served"}, remote : Remotes \cup {Nothing}, at : {waiter[v].at},
                 targets : {targets}]
        BY <2>1, Zenon
    <2>. HIDE DEF k
    <2>. QED  BY <1>3, <2>1, <2>2 DEF Requests
<1>. HIDE DEF k
<1>5. /\ waiter' \in [Waiters -> Requests \cup {Nothing}] /\ waiter'[v] = k
      /\ \A w \in Waiters \ {v} : waiter'[w] = waiter[w]
    BY <1>1, <1>4, Zenon DEF ServedInv
<1>6. /\ clock \in Times /\ waiter[v].at \in Times /\ waiter[v].at <= clock
    BY <1>1, PendingRequest DEF ServedInv, Pending, CollectInv, Types
<1>7. ASSUME NEW w \in Waiters, Pending(w)' PROVE waiter'[w].at <= clock'
    <2>1. CASE w = v
        BY <1>1, <1>4, <1>5, <1>6, <2>1
    <2>2. CASE w # v
        BY <1>1, <1>5, <1>7, <2>2 DEF ServedInv, Pending
    <2>. QED  BY <2>1, <2>2
<1>8. ASSUME NEW m \in targets PROVE Promise(m, waiter[v].at)'
    <2>1. m \in Remotes /\ m \in config /\ m \in targets \cap config
        BY <1>3, Zenon
    <2>2. CASE clock - StatusOf(status, m).last >= MinInterval
        <3>. DEFINE g == [pc |-> "asking", status |-> StatusOf(status, m), now |-> clock, points |-> {}]
        <3>1. fetch'[m] = g
            BY <1>1, <2>1, <2>2, SMTT(20) DEF FetchRemotes
        <3>2. g \in Fetches
            BY <1>6, <2>1, StatusOfSound, Zenon DEF CollectInv, Fetches
        <3>3. g # Nothing
            <4>. HIDE DEF g
            <4>. QED  BY <3>2, NothingIsNoRecord, Zenon
        <3>4. fetch'[m] # Nothing /\ fetch'[m].pc = "asking" /\ fetch'[m].now = clock
            BY <3>1, <3>3
        <3>5. waiter'[v].at = waiter[v].at
            BY <1>4, <1>5, Zenon
        <3>. HIDE DEF g
        <3>. QED  BY <1>6, <3>4, <3>5 DEF Promise
    <2>3. CASE ~(clock - StatusOf(status, m).last >= MinInterval)
        <3>1. fetch'[m] = Nothing
            BY <1>1, <2>1, <2>3 DEF FetchRemotes
        <3>2. status[m] # Nothing
            <4>1. SUFFICES ASSUME status[m] = Nothing PROVE FALSE
                OBVIOUS
            <4>2. StatusOf(status, m).last = 0
                BY <4>1 DEF StatusOf, Fresh
            <4>. QED  BY <1>6, <2>3, <4>2, MetricBounds DEF Times, Start
        <3>3. StatusOf(status, m) = status[m] /\ status[m].last \in {0} \cup Times
            BY <2>1, <3>2 DEF StatusOf, CollectInv, Types, Statuses
        <3>4. status[m].last > waiter[v].at - MinInterval
            BY <1>6, <2>3, <3>3, MetricBounds DEF Times, Start
        <3>. QED  BY <1>1, <1>4, <1>5, <3>1, <3>2, <3>4 DEF Promise, Late
    <2>. QED  BY <2>2, <2>3
<1>9. ASSUME NEW w \in Waiters, Served(w)'
      PROVE  task' = "collect" /\ \A m \in waiter'[w].targets : Promise(m, waiter[w].at)'
    <2>1. w = v
        BY <1>2, <1>5, <1>9 DEF Served
    <2>. QED  BY <1>1, <1>4, <1>5, <1>8, <2>1
<1>. QED  BY <1>1, <1>2, <1>5, <1>7, <1>9 DEF ServedInv

\* A step of one fetch keeps the promises: its request keeps its time, and when it is
\* done it leaves that time or an error.
LEMMA FetchPromises ==
    ASSUME CollectInv, ServedInv, NEW r \in Remotes, NEW g, fetch[r] # Nothing, fetch[r].pc # "done",
           fetch' = [fetch EXCEPT ![r] = g], g # Nothing,
           g.pc # "done" => g.now = fetch[r].now,
           g.pc = "done" => g.status.error \/ g.status.last = fetch[r].now,
           UNCHANGED <<clock, config, status, task, waiter>>
    PROVE  ServedInv' /\ \A w \in Waiters : Served(w) => waiter'[w] = waiter[w]
<1>1. ASSUME NEW m \in Remotes, NEW at \in Times, Promise(m, at) PROVE Promise(m, at)'
    <2>1. CASE m = r
        <3>1. fetch'[m] = g
            BY <2>1, Zenon DEF CollectInv, Types
        <3>2. fetch[r].now >= at
            BY <1>1, <2>1, Zenon DEF Promise
        <3>3. fetch[r].now \in Times
            BY FetchRecord DEF CollectInv, Types, Unfinished
        <3>4. fetch[r].now > at - MinInterval
            BY <3>2, <3>3, MetricBounds DEF Times, Start
        <3>. QED  BY <3>1, <3>2, <3>4, Zenon DEF Promise, Late
    <2>2. CASE m # r
        <3>1. fetch'[m] = fetch[m]
            BY <2>2, Zenon DEF CollectInv, Types
        <3>. QED  BY <1>1, <3>1, Zenon DEF Promise
    <2>. QED  BY <2>1, <2>2
<1>2. clock \in Times /\ clock <= clock /\ config \subseteq Remotes
    <2>1. clock \in Times /\ config \subseteq Remotes
        BY Zenon DEF CollectInv, Types, ServedInv
    <2>. QED  BY <2>1, MetricBounds DEF Times, Start
<1>. QED  BY <1>1, <1>2, PromisesKept

\* fetch_single_remote, from the remote's answer to its end.
LEMMA FetchServes ==
    ASSUME CollectInv, ServedInv, NEW r \in Remotes,
           RemoteAnswers(r) \/ RrdStore(r) \/ FetchSucceeds(r) \/ FetchFails(r)
    PROVE  ServedInv' /\ \A w \in Waiters : Served(w) => waiter'[w] = waiter[w]
<1>1. /\ fetch[r] # Nothing /\ fetch[r].pc \in {"asking", "sent", "stored"} /\ fetch[r].pc # "done"
      /\ UNCHANGED <<clock, config, status, task, waiter>>
    BY DEF RemoteAnswers, RrdStore, FetchSucceeds, FetchFails, Others
<1>2. fetch[r] \in Unfinished
    BY <1>1, FetchRecord DEF CollectInv, Types
<1>3. ASSUME NEW pc \in {"sent", "stored"}, NEW P \in SUBSET Points
      PROVE  [fetch[r] EXCEPT !.pc = pc, !.points = P]
                \in [pc : {pc}, status : Statuses, now : {fetch[r].now}, points : SUBSET Points]
    BY <1>2, Zenon DEF Unfinished
<1>4. CASE RemoteAnswers(r)
    <2>. DEFINE P == {p \in data[r] : p > fetch[r].status.recent}
                g == [fetch[r] EXCEPT !.pc = "sent", !.points = P]
    <2>1. fetch' = [fetch EXCEPT ![r] = g]
        BY <1>4 DEF RemoteAnswers
    <2>2. P \in SUBSET Points
        BY DEF CollectInv, Types
    <2>. HIDE DEF P
    <2>3. g \in Fetches /\ g.pc = "sent" /\ g.now = fetch[r].now
        <3>1. g \in [pc : {"sent"}, status : Statuses, now : {fetch[r].now}, points : SUBSET Points]
            BY <1>3, <2>2, Zenon
        <3>. HIDE DEF g
        <3>. QED  BY <1>2, <3>1 DEF Fetches, Unfinished
    <2>. HIDE DEF g
    <2>4. g # Nothing
        BY <2>3, NothingIsNoRecord
    <2>. QED  BY <1>1, <2>1, <2>3, <2>4, FetchPromises, Zenon
<1>5. CASE RrdStore(r)
    <2>. DEFINE g == [fetch[r] EXCEPT !.pc = "stored"]
    <2>1. fetch' = [fetch EXCEPT ![r] = g]
        BY <1>5 DEF RrdStore, CollectInv, Types
    <2>2. g \in [pc : {"stored"}, status : Statuses, now : {fetch[r].now}, points : SUBSET Points]
        BY <1>2, Zenon DEF Unfinished
    <2>. HIDE DEF g
    <2>3. g \in Fetches /\ g.pc = "stored" /\ g.now = fetch[r].now
        BY <1>2, <2>2 DEF Fetches, Unfinished
    <2>4. g # Nothing
        BY <2>3, NothingIsNoRecord
    <2>. QED  BY <1>1, <2>1, <2>3, <2>4, FetchPromises, Zenon
<1>6. ASSUME NEW s \in Statuses, Done(r, s), s.error \/ s.last = fetch[r].now
      PROVE  ServedInv' /\ \A w \in Waiters : Served(w) => waiter'[w] = waiter[w]
    <2>. DEFINE g == [pc |-> "done", status |-> s]
    <2>1. fetch' = [fetch EXCEPT ![r] = g] /\ g \in Fetches /\ g.pc = "done" /\ g.status = s
        BY <1>6 DEF Done, Fetches
    <2>. HIDE DEF g
    <2>2. g # Nothing
        BY <2>1, NothingIsNoRecord, Zenon
    <2>. QED  BY <1>1, <1>6, <2>1, <2>2, FetchPromises, Zenon
<1>7. CASE FetchSucceeds(r)
    <2>. DEFINE s == [recent |-> MostRecent(fetch[r]), last |-> fetch[r].now, error |-> FALSE]
    <2>1. Done(r, s)
        BY <1>7 DEF FetchSucceeds
    <2>2. fetch[r].points \in SUBSET Points /\ fetch[r].now \in Times
        BY <1>2, Zenon DEF Unfinished
    <2>3. MostRecent(fetch[r]) \in {0} \cup Points
        BY <2>2, MostRecentIsKept, Zenon DEF Kept
    <2>4. s \in Statuses /\ s.last = fetch[r].now
        BY <2>2, <2>3, Zenon DEF Statuses
    <2>. HIDE DEF s
    <2>. QED  BY <1>6, <2>1, <2>4, Zenon
<1>8. CASE FetchFails(r)
    <2>. DEFINE s == [fetch[r].status EXCEPT !.error = TRUE]
    <2>1. Done(r, s)
        BY <1>8 DEF FetchFails
    <2>2. fetch[r].status \in Statuses
        BY <1>2 DEF Unfinished
    <2>3. s \in Statuses /\ s.error
        BY <2>2, Zenon DEF Statuses
    <2>. HIDE DEF s
    <2>. QED  BY <1>6, <2>1, <2>3
<1>. QED  BY <1>4, <1>5, <1>7, <1>8, Zenon

\* The promise of TriggerIsServed to one caller.
Answered(w) ==
    waiter[w] # Nothing /\ waiter[w].pc = "served" /\ waiter'[w] # Nothing =>
        \A m \in waiter[w].targets :
            /\ waiter'[w].pc = "answered" => status'[m] # Nothing
            /\ waiter'[w].pc = "answered" =>
                  status'[m].error \/ status'[m].last > waiter[w].at - MinInterval

\* A caller that is not told anything has been promised nothing.
LEMMA NotTold ==
    ASSUME NEW w \in Waiters, Served(w) => waiter'[w] = waiter[w] \/ waiter'[w] = Nothing
    PROVE  Answered(w)
BY Zenon DEF Answered, Served

\* All fetches are joined: whoever is told finds the promise kept.
LEMMA CollectedServes ==
    ASSUME CollectInv, ServedInv, Collected
    PROVE  ServedInv' /\ \A w \in Waiters : Answered(w)
<1>1. /\ UNCHANGED <<clock, config>>
      /\ \A m \in Remotes : fetch[m] # Nothing => fetch[m].pc = "done"
      /\ status' = [m \in Remotes |-> IF fetch[m] = Nothing THEN status[m] ELSE fetch[m].status]
      /\ waiter' = [w \in Waiters |-> IF waiter[w] # Nothing /\ waiter[w].pc = "served"
                                      THEN [pc |-> "answered"] ELSE waiter[w]]
    BY DEF Collected, Others
<1>2. [pc |-> "answered"] \in Requests
    BY Zenon DEF Requests
<1>3. \A w \in Waiters : IF Served(w) THEN waiter'[w].pc = "answered" ELSE waiter'[w] = waiter[w]
    BY <1>1, Zenon DEF Served
<1>4. ServedInv'
    <2>1. waiter' \in [Waiters -> Requests \cup {Nothing}]
        BY <1>1, <1>2 DEF ServedInv
    <2>2. \A w \in Waiters : ~Served(w)'
        BY <1>3, Zenon DEF Served
    <2>3. ASSUME NEW w \in Waiters, Pending(w)' PROVE waiter'[w].at <= clock'
        <3>1. Pending(w) /\ waiter'[w] = waiter[w]
            BY <1>3, <2>3, Zenon DEF Pending, Served
        <3>. QED  BY <1>1, <3>1 DEF ServedInv
    <2>. QED  BY <1>1, <2>1, <2>2, <2>3, Zenon DEF ServedInv
<1>5. ASSUME NEW w \in Waiters, Served(w), NEW m \in waiter[w].targets
      PROVE  status'[m] # Nothing /\ (status'[m].error \/ Late(status'[m].last, waiter[w].at))
    <2>1. m \in Remotes /\ Promise(m, waiter[w].at)
        BY <1>5, PendingRequest, Zenon DEF ServedInv, Served, Pending
    <2>2. CASE fetch[m] = Nothing
        BY <1>1, <2>1, <2>2, Zenon DEF Promise
    <2>3. CASE fetch[m] # Nothing
        <3>1. status'[m] = fetch[m].status /\ fetch[m].pc = "done" /\ fetch[m] \in Fetches
            BY <1>1, <2>1, <2>3, Zenon DEF CollectInv, Types
        <3>2. fetch[m].status \in Statuses
            BY <3>1, FetchRecord
        <3>. QED  BY <2>1, <2>3, <3>1, <3>2, NothingIsNoRecord, Zenon DEF Promise
    <2>. QED  BY <2>2, <2>3, Zenon
<1>. QED  BY <1>4, <1>5, Zenon DEF Answered, Served, Late

\* Every step keeps the promises, and tells a caller only what is true.
LEMMA ServedStep ==
    ASSUME CollectInv, ServedInv, [Next]_vars
    PROVE  ServedInv' /\ \A w \in Waiters : Answered(w)
<1>1. clock \in Times /\ clock <= clock /\ config \subseteq Remotes
    BY DEF CollectInv, Types, ServedInv, Times, Start
<1>2. ASSUME UNCHANGED <<waiter, status, task, fetch>>, clock' \in Times, clock <= clock',
             config' \subseteq Remotes
      PROVE  ServedInv' /\ \A w \in Waiters : Answered(w)
    <2>1. \A m \in Remotes, at \in Times : Promise(m, at) => Promise(m, at)'
        BY <1>2 DEF Promise
    <2>. QED  BY <1>1, <1>2, <2>1, PromisesKept, NotTold, Zenon
<1>3. ASSUME task # "collect", UNCHANGED <<waiter, clock, config>>
      PROVE  ServedInv' /\ \A w \in Waiters : Answered(w)
    BY <1>1, <1>3, PromisesKept, NotTold
<1>4. CASE UNCHANGED vars
    BY <1>1, <1>2, <1>4 DEF vars
<1>5. CASE Tick
    BY <1>1, <1>2, <1>5, MetricBounds DEF Tick, Times, Start
<1>6. ASSUME NEW r \in Remotes, Reconfigure(r) \/ \E p \in Points : Produce(r, p)
      PROVE  ServedInv' /\ \A w \in Waiters : Answered(w)
    <2>1. config' \subseteq Remotes /\ UNCHANGED <<waiter, status, task, fetch, clock>>
        BY <1>1, <1>6, Zenon DEF Reconfigure, Produce
    <2>. QED  BY <1>1, <1>2, <2>1, Zenon
<1>7. ASSUME NEW v \in Waiters, NEW r \in Remotes \cup {Nothing}, Trigger(v, r)
      PROVE  ServedInv' /\ \A w \in Waiters : Answered(w)
    BY <1>1, <1>7, TriggerServed, NotTold
<1>8. CASE TaskStep
    <2>1. ASSUME NEW left \in 0 .. Interval, Startup(left)
          PROVE  ServedInv' /\ \A w \in Waiters : Answered(w)
        BY <1>3, <2>1 DEF Startup, Others
    <2>2. ASSUME NEW v \in Waiters, HandleControlMessage(v)
          PROVE  ServedInv' /\ \A w \in Waiters : Answered(w)
        BY <2>2, ControlServes, NotTold, Zenon
    <2>3. ASSUME NEW r \in Remotes,
                 RemoteAnswers(r) \/ RrdStore(r) \/ FetchSucceeds(r) \/ FetchFails(r)
          PROVE  ServedInv' /\ \A w \in Waiters : Answered(w)
        BY <2>3, FetchServes, NotTold
    <2>4. CASE Save
        BY <1>3, <2>4 DEF Save, Others
    <2>. QED  BY <1>8, <2>1, <2>2, <2>3, <2>4, CollectedServes DEF TaskStep
<1>9. CASE HandleTick
    BY <1>3, <1>9, Zenon DEF HandleTick, Others
<1>10. CASE ConfigUnreadable
    <2>1. task = "idle" /\ UNCHANGED <<clock, config>>
        BY <1>10 DEF ConfigUnreadable, Others
    <2>2. \A w \in Waiters : ~Served(w)
        BY <2>1, NobodyServed
    <2>3. CASE UNCHANGED waiter
        BY <1>3, <2>1, <2>3, Zenon
    <2>4. ASSUME NEW v \in Waiters, waiter' = [waiter EXCEPT ![v] = [pc |-> "failed"]]
          PROVE  ServedInv'
        <3>1. [pc |-> "failed"] \in Requests
            BY Zenon DEF Requests
        <3>2. /\ waiter' \in [Waiters -> Requests \cup {Nothing}] /\ waiter'[v].pc = "failed"
              /\ \A w \in Waiters \ {v} : waiter'[w] = waiter[w]
            BY <2>4, <3>1, Zenon DEF ServedInv
        <3>3. \A w \in Waiters : ~Served(w)' /\ (Pending(w)' => Pending(w) /\ waiter'[w] = waiter[w])
            BY <2>2, <3>2, Zenon DEF Served, Pending
        <3>. QED  BY <1>1, <2>1, <3>2, <3>3 DEF ServedInv
    <2>. QED  BY <1>10, <2>2, <2>3, <2>4, NotTold DEF ConfigUnreadable
<1>11. CASE Crash
    <2>1. UNCHANGED <<clock, config>> /\ \A w \in Waiters : waiter'[w] = Nothing
        BY <1>11 DEF Crash
    <2>2. waiter' \in [Waiters -> Requests \cup {Nothing}]
        BY <1>11, SMTT(20) DEF Crash
    <2>3. ServedInv'
        BY <1>1, <2>1, <2>2, Zenon DEF ServedInv, Served, Pending
    <2>. QED  BY <2>1, <2>3, NotTold
<1>. QED  BY <1>4, <1>5, <1>6, <1>7, <1>8, <1>9, <1>10, <1>11, Zenon DEF Next

\* A caller that waited for a collection and is told that it is over finds every remote
\* it was for collected no earlier than MIN_COLLECTION_INTERVAL before its request, or an
\* error noted for it (handle_control_message, fetch_remotes).
THEOREM CallersServed == Spec => TriggerIsServed
<1>1. Init => ServedInv
    BY DEF Init, ServedInv, Pending, Served
<1>2. CollectInv /\ ServedInv /\ [Next]_vars => ServedInv'
    BY ServedStep, Zenon
<1>3. CollectInv /\ ServedInv /\ [Next]_vars =>
          [\A w \in Waiters :
              waiter[w] # Nothing /\ waiter[w].pc = "served" /\ waiter'[w] # Nothing =>
                  \A m \in waiter[w].targets :
                      /\ waiter'[w].pc = "answered" => status'[m] # Nothing
                      /\ waiter'[w].pc = "answered" =>
                            status'[m].error \/ status'[m].last > waiter[w].at - MinInterval]_vars
    BY ServedStep DEF Answered
<1>. QED  BY <1>1, <1>2, <1>3, CollectInit, CollectStep, PTL DEF Spec, TriggerIsServed
=============================================================================

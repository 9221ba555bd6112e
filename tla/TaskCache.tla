----------------------------- MODULE TaskCache -----------------------------
(***************************************************************************)
(* The files of the remote task cache and the operations that rewrite      *)
(* them: server/src/remote_tasks/task_cache.rs.                            *)
(*                                                                         *)
(* Finished tasks are appended to a journal and merged from there into     *)
(* archive files, one per period; running tasks are in the active file;    *)
(* the state file has, for each node, the start time from which tasks are  *)
(* fetched next (the cutoff) and the tasks that are polled.                *)
(*                                                                         *)
(* Every operation holds the lock from its first read to its last write,   *)
(* so only a crash shows what is on disk in between.  An operation is      *)
(* therefore a function from the disk to the sequence of disks its writes  *)
(* leave, one for each file it appends to, replaces, creates or removes.   *)
(***************************************************************************)
EXTENDS Integers, SequencesExt, FiniteSetsExt

CONSTANTS
    Tasks, Nodes,
    NodeOf,        \* node a task runs on
    Start,         \* start time of a task
    MaxFiles,      \* KEEP_OLD_FILES
    Uncompressed,  \* NUMBER_OF_UNCOMPRESSED_FILES
    RotateAfter    \* ROTATE_AFTER, in ticks of the clock

ASSUME CacheAssumption ==
    /\ NodeOf \in [Tasks -> Nodes]
    /\ Start \in [Tasks -> Nat]
    /\ {MaxFiles, RotateAfter} \subseteq Nat \ {0}
    /\ Uncompressed \in Nat

NoCutoff == -1

(* A file is named by its start time and whether it is compressed.         *)
FileId == [start : Int, zst : BOOLEAN]
FileData == [tasks : SUBSET Tasks, bad : BOOLEAN]

Disk == [files : UNION {[ids -> FileData] : ids \in SUBSET FileId},
         journal : SUBSET Tasks, torn : BOOLEAN, active : SUBSET Tasks,
         cutoff : [Nodes -> Int], tracked : SUBSET Tasks]

EmptyDisk == [files |-> [f \in {} |-> {}], journal |-> {}, torn |-> FALSE, active |-> {},
              cutoff |-> [n \in Nodes |-> NoCutoff], tracked |-> {}]

-----------------------------------------------------------------------------
(* Archive files                                                           *)

Starts(d) == {f.start : f \in DOMAIN d.files}

(* Of two files with one start time the compressed one is used.            *)
archive_file(d, s) == [start |-> s, zst |-> [start |-> s, zst |-> TRUE] \in DOMAIN d.files]

archive_files(d) == SetToSortSeq(Starts(d), >)

SetFile(d, f, data) ==
    [d EXCEPT !.files = [g \in DOMAIN d.files \cup {f} |-> IF g = f THEN data ELSE d.files[g]]]

RemoveFiles(d, ids) ==
    [d EXCEPT !.files = [g \in DOMAIN d.files \ ids |-> d.files[g]]]

new_file(d, s, zst) == SetFile(d, [start |-> s, zst |-> zst], [tasks |-> {}, bad |-> FALSE])

(* The finished tasks a reader of the cache finds                          *)
Recorded(d) ==
    d.journal \cup UNION {d.files[archive_file(d, s)].tasks : s \in Starts(d)}

init(d, now) ==
    IF DOMAIN d.files # {} THEN <<>>
    ELSE Tail(FoldLeftDomain(
            LAMBDA ds, i : Append(ds, new_file(Last(ds), now - (i - 1) * RotateAfter,
                                               i > Uncompressed)),
            <<d>>, [i \in 1..MaxFiles |-> i]))

-----------------------------------------------------------------------------
(* The state file                                                          *)

Raise(c, s) == IF c < s THEN s ELSE c
Lower(c, s) == IF c = NoCutoff \/ s < c THEN s ELSE c

Earliest(ts) == Min({Start[t] : t \in ts})
Latest(ts) == Max({Start[t] : t \in ts})

(* Every known cutoff goes back to the start of the oldest corrupted file. *)
request_repair(d, bad) ==
    IF bad = {} THEN <<>>
    ELSE <<[d EXCEPT !.cutoff = [n \in Nodes |-> IF @[n] = NoCutoff THEN NoCutoff
                                                 ELSE Lower(@[n], Min(bad))]]>>

-----------------------------------------------------------------------------
(* The journal                                                             *)

(* The period a task falls in: the newest file not younger than the task.  *)
(* A task older than every file is dropped.                                *)
Period(d, t) ==
    IF \E s \in Starts(d) : s <= Start[t]
    THEN Max({s \in Starts(d) : s <= Start[t]})
    ELSE NoCutoff

(* The readable lines of the file and the new tasks replace the file.      *)
merge_single_archive_file(d, s, ts) ==
    LET f == archive_file(d, s)
    IN  SetFile(d, f, [tasks |-> d.files[f].tasks \cup ts, bad |-> FALSE])

(* The files that get tasks are rewritten, newest first.                   *)
merge_tasks_into_archive(d, ts) ==
    LET In(s) == {t \in ts : Period(d, t) = s}
    IN  Tail(FoldLeft(LAMBDA ds, s : Append(ds, merge_single_archive_file(Last(ds), s, In(s))),
                      <<d>>, SelectSeq(archive_files(d), LAMBDA s : In(s) # {})))

apply_journal_truncate_first(d) ==
    LET merged == merge_tasks_into_archive([d EXCEPT !.journal = {}, !.torn = FALSE], d.journal)
        bad == {s \in {Period(d, t) : t \in d.journal} \cap Starts(d) :
                    d.files[archive_file(d, s)].bad}
        all == <<[d EXCEPT !.journal = {}, !.torn = FALSE]>> \o merged
    IN  all \o request_repair(Last(all), bad)

(* Merge, truncate, and only then reset the cutoffs if a merged file had   *)
(* unreadable lines.                                                       *)
apply_journal(d) ==
    LET merged == merge_tasks_into_archive(d, d.journal)
        last == IF merged = <<>> THEN d ELSE Last(merged)
        empty == [last EXCEPT !.journal = {}, !.torn = FALSE]
        bad == {s \in {Period(d, t) : t \in d.journal} \cap Starts(d) :
                    d.files[archive_file(d, s)].bad}
    IN  IF d.journal = {} /\ ~d.torn THEN <<>>
        ELSE merged \o <<empty>> \o request_repair(empty, bad)

-----------------------------------------------------------------------------
(* Rotation                                                                *)

(* The compressed copy replaces the file, then the file is removed.        *)
compress_archive_file(d, s) ==
    LET plain == [start |-> s, zst |-> FALSE]
        done == SetFile(d, [start |-> s, zst |-> TRUE],
                        [tasks |-> d.files[plain].tasks, bad |-> FALSE])
    IN  <<done, RemoveFiles(done, {plain})>>

(* Steps that follow others: f on the disk those leave                     *)
Then(d, ds, f(_)) == ds \o f(IF ds = <<>> THEN d ELSE Last(ds))

Dupes(d) == {f \in DOMAIN d.files : f # archive_file(d, f.start)}

remove_dupes(d) == IF Dupes(d) = {} THEN <<>> ELSE <<RemoveFiles(d, Dupes(d))>>

start_new_file(d, now) ==
    IF Starts(d) # {} /\ now - Max(Starts(d)) < RotateAfter THEN <<>>
    ELSE Then(d, <<new_file(d, now, Uncompressed = 0)>>, apply_journal)

remove_oldest(d) ==
    LET files == archive_files(d)
    IN  [i \in 1..(Len(files) - Min({Len(files), MaxFiles})) |->
            RemoveFiles(d, {f \in DOMAIN d.files :
                               \E j \in (Len(files) - i + 1)..Len(files) : f.start = files[j]})]

compress_old(d) ==
    LET files == archive_files(d)
        todo == SelectSeq(SubSeq(files, Uncompressed + 1, Len(files)),
                          LAMBDA s : ~archive_file(d, s).zst)
        bad == {s \in ToSet(todo) : d.files[archive_file(d, s)].bad}
        steps == Tail(FoldLeft(LAMBDA ds, s : ds \o compress_archive_file(Last(ds), s),
                               <<d>>, todo))
    IN  IF todo = <<>> THEN <<>> ELSE steps \o request_repair(Last(steps), bad)

rotate(d, now) ==
    Then(d, Then(d, Then(d, remove_dupes(d), LAMBDA e : start_new_file(e, now)),
                 remove_oldest), compress_old)

-----------------------------------------------------------------------------
(* Adding tasks                                                            *)

add_tracked_task(d, t) ==
    LET listed == [d EXCEPT !.active = @ \cup {t}]
    IN  <<listed, [listed EXCEPT !.tracked = @ \cup {t}]>>

CutoffIgnoringActive(d, n, fin, active) ==
    IF \E t \in fin : NodeOf[t] = n
    THEN Raise(d.cutoff[n], Latest({t \in fin : NodeOf[t] = n}))
    ELSE d.cutoff[n]

(* The cutoff of a node that was fetched moves to its latest finished      *)
(* task and back to the earliest one still running.                        *)
NextCutoff(d, n, fin, active) ==
    LET ended == {t \in fin : NodeOf[t] = n}
        running == {t \in active : NodeOf[t] = n}
        raised == IF ended = {} THEN d.cutoff[n] ELSE Raise(d.cutoff[n], Latest(ended))
    IN  IF running = {} THEN raised ELSE Lower(raised, Earliest(running))

(* One appended line is unreadable when the journal ended in a torn line.  *)
append_journal(d, fin, first) ==
    [d EXCEPT !.journal = @ \cup (IF d.torn THEN fin \ {first} ELSE fin),
              !.torn = @ /\ fin = {}]

update_state_first(d, run, fin, ok, drop, first, early) ==
    LET active == ((d.active \ drop) \cup run) \ fin
        saved == [d EXCEPT
                     !.cutoff = [n \in Nodes |-> IF n \in ok THEN NextCutoff(d, n, fin, active) ELSE @[n]],
                     !.tracked = @ \ drop]
        journaled == append_journal(saved, fin, first)
    IN  <<saved, journaled, [journaled EXCEPT !.active = active]>>

(* run, fin: tasks fetched, still running and finished; ok: nodes whose    *)
(* fetch succeeded; drop: polled tasks that are finished, gone or whose    *)
(* poll failed; early: the journal is over its maximum size.               *)
update(d, run, fin, ok, drop, first, early) ==
    LET active == ((d.active \ drop) \cup run) \ fin
        journaled == append_journal(d, fin, first)
        listed == [journaled EXCEPT !.active = active]
        saved == [listed EXCEPT
                     !.cutoff = [n \in Nodes |-> IF n \in ok THEN NextCutoff(d, n, fin, active) ELSE @[n]],
                     !.tracked = @ \ drop]
    IN  <<journaled, listed, saved>> \o (IF early THEN apply_journal(saved) ELSE <<>>)
=============================================================================

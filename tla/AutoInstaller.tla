---------------------------- MODULE AutoInstaller ----------------------------
(***************************************************************************)
(* The automated installations (server/src/api/auto_installer/mod.rs) and  *)
(* the files they live in (lib/pdm-config/src/auto_install.rs): prepared   *)
(* answers, access tokens and their secrets, one state file for each       *)
(* installation, and the single file older versions kept them in.          *)
(*                                                                         *)
(* A file is replaced atomically.  A handler that changes one file under   *)
(* its lock is one action; a handler that uses several files is a call of  *)
(* its own, which other calls and the end of the process can come between. *)
(* The locks are had in time: the handlers do not look at the result of    *)
(* taking one.                                                             *)
(***************************************************************************)
EXTENDS Integers, Sequences, FiniteSets

CONSTANTS
    Calls,       \* the calls; an installation has the identity of its call
    Ids,         \* the identities of prepared answers
    Tokens,      \* the identities of access tokens
    Machines,    \* the machines, as far as a target filter tells them apart
    Legacy,      \* the installations in the legacy file
    MaxCounter,  \* i32::MAX, where a template counter saturates
    Seeds,       \* the values that a template counter is given
    MaxEdits,    \* bound: the changes of prepared answers
    MaxCrashes,  \* bound: the calls that are cut short
    Absent

\* The statuses that the file of an installation can show (InstallationStatus).
Statuses == {"no-answer", "answer-sent", "in-progress", "finished"}

ASSUME InstallerAssumption == MaxCounter \in Nat /\ MaxEdits \in Nat /\ Absent \notin Statuses

VARIABLES
    prepared,   \* prepared.cfg, a sequence of sections
    tokens,     \* the sections of tokens.cfg
    shadow,     \* the tokens with a secret in tokens.shadow
    legacy,     \* the legacy file: its installations, Absent when there is none
    aside,      \* the installations in a legacy file that was set aside as broken
    readable,   \* whether the legacy file can be parsed
    dir,        \* dir[u]: the status in the installation's own file, or Absent
    call,       \* call[c]: where the call stands
    edits, crashes

files == <<prepared, tokens, shadow, legacy, aside, dir>>
installerVars == <<files, readable, call, edits, crashes>>

Uuids == Calls \cup Legacy

\* epoch is history: it tells the seeds of a template counter apart.
Answers ==
    [id : Ids, tokens : SUBSET Tokens, is_default : BOOLEAN, filter : SUBSET Machines,
     hook : BOOLEAN, counter : 0 .. MaxCounter, epoch : 0 .. MaxEdits]

Ended == {[pc |-> "idle"], [pc |-> "over"]}
Sent == [pc : {"found", "counted", "sent"}, answer : Answers]
Reading == [pc : {"migrate", "read"}, todo : SUBSET Legacy, hook : Legacy \cup Calls \cup {Absent}]
Token == [pc : {"verified", "unused", "forget", "renew", "add", "secret"}, token : Tokens]
CallShape == Ended \cup Sent \cup Reading \cup Token

\* The files and the calls have the shapes the handlers give them.
InstallerTypeOK ==
    /\ prepared \in Seq(Answers)
    /\ tokens \subseteq Tokens /\ shadow \subseteq Tokens
    /\ legacy \in (SUBSET Legacy) \cup {Absent} /\ aside \subseteq Legacy
    /\ dir \in [Uuids -> Statuses \cup {Absent}]
    /\ call \in [Calls -> CallShape]
    /\ edits \in 0 .. MaxEdits

InstallerInit ==
    /\ prepared = <<>> /\ tokens = {} /\ shadow = {}
    /\ legacy \in {Legacy, Absent} /\ readable \in BOOLEAN /\ aside = {}
    /\ dir = [u \in Uuids |-> Absent]
    /\ call = [c \in Calls |-> [pc |-> "idle"]]
    /\ edits = 0 /\ crashes = 0

Over == [pc |-> "over"]

\* The installations lock: exclusive for an installation and a hook, shared for a list.
Excludes(k) == k.pc \in {"found", "counted"} \/ (k.pc \in {"migrate", "read"} /\ k.hook # Absent)
Holds(k) == k.pc \in {"found", "counted", "migrate", "read"}
\* Mutant: a new installation does not keep the lock until it is saved.
MayWriteBetween == \A c \in Calls : call[c].pc \notin {"migrate", "read"}

MayWrite == \A c \in Calls : ~Holds(call[c])
TokensFree == \A c \in Calls : call[c].pc \notin {"forget", "renew", "add", "secret"}
MayRead == \A c \in Calls : ~Excludes(call[c])

Becomes(c, k) == call' = [call EXCEPT ![c] = k]
Steady == UNCHANGED <<readable, edits, crashes>>

-----------------------------------------------------------------------------
(***************************************************************************)
(* Prepared answers: create_prepared_answer, update_prepared_answer and    *)
(* delete_prepared_answer, each under the lock of the file.                *)
(***************************************************************************)
Others(id) == {i \in DOMAIN prepared : prepared[i].id # id}
Default(is) == \E i \in is : prepared[i].is_default
Edit ==
    /\ edits < MaxEdits /\ edits' = edits + 1
    /\ UNCHANGED <<legacy, aside, readable, dir, call, crashes>>

\* A token is generated when none is named; it stays when a later test refuses the answer.
Generated(p, generated) ==
    /\ generated # {} => TokensFree /\ p.tokens = generated /\ Cardinality(generated) = 1
    /\ tokens' = tokens \cup generated /\ shadow' = shadow \cup generated

Acceptable(p) == p.is_default \/ p.filter # {}

CreatePrepared(p, generated, valid) ==
    /\ \A i \in DOMAIN prepared : prepared[i].id # p.id
    /\ ~(p.is_default /\ Default(DOMAIN prepared)) /\ Acceptable(p)
    /\ p.epoch = edits + 1 /\ p.counter \in Seeds /\ p.tokens # {}
    /\ Generated(p, generated)
    /\ prepared' = IF valid THEN Append(prepared, p) ELSE prepared

\* The updater gives new values to any of the fields.
UpdatePrepared(i, p, generated, valid) ==
    /\ i \in DOMAIN prepared /\ p.id = prepared[i].id
    /\ p.is_default /\ ~prepared[i].is_default => ~Default(Others(p.id))
    /\ Acceptable(p) \/ ~valid
    /\ \/ p.counter = prepared[i].counter /\ p.epoch = prepared[i].epoch
       \/ p.counter \in Seeds /\ p.epoch = edits + 1
    /\ p.tokens # {}
    /\ Generated(p, generated)
    /\ prepared' = IF valid THEN [prepared EXCEPT ![i] = p] ELSE prepared

WithoutSection(s, i) == [j \in 1 .. Len(s) - 1 |-> s[IF j < i THEN j ELSE j + 1]]

DeletePrepared(i) ==
    /\ i \in DOMAIN prepared
    /\ prepared' = WithoutSection(prepared, i)
    /\ UNCHANGED <<tokens, shadow>>

-----------------------------------------------------------------------------
(***************************************************************************)
(* new_installation: the answer is looked up, rendered with the counters   *)
(* it was read with, the counters are incremented, and the installation is *)
(* saved, all under the installations lock.                                *)
(***************************************************************************)

\* find_config: the first answer in file order whose filter matches, or the default.
FindConfig(t, m) ==
    LET authorized == {i \in DOMAIN prepared : t \in prepared[i].tokens}
        matched == {i \in authorized : ~prepared[i].is_default /\ m \in prepared[i].filter}
        default == {i \in authorized : prepared[i].is_default}
        first == {i \in matched : \A j \in matched : i <= j}
    IN  IF matched # {} THEN {prepared[i] : i \in first}
        ELSE {prepared[i] : i \in default}

\* verify_answer_authorization_header, under the lock of the tokens only.
Verify(c, t) ==
    /\ call[c].pc = "idle" /\ TokensFree
    /\ t \in tokens \cap shadow
    /\ Becomes(c, [pc |-> "verified", token |-> t])
    /\ Steady /\ UNCHANGED files

NewInstallation(c, m, rendered) ==
    LET t == call[c].token IN
    /\ call[c].pc = "verified" /\ MayWrite
    /\ \/ /\ FindConfig(t, m) = {}
          /\ dir' = [dir EXCEPT ![c] = "no-answer"]
          /\ Becomes(c, Over)
       \/ \E p \in FindConfig(t, m) :
             /\ Becomes(c, IF rendered THEN [pc |-> "found", answer |-> p] ELSE Over)
             /\ UNCHANGED dir
    /\ Steady /\ UNCHANGED <<prepared, tokens, shadow, legacy, aside>>

\* increment_template_counters: saturating_add, on the answer as it is now.
Increment(v) == IF v < MaxCounter THEN v + 1 ELSE v

IncrementTemplateCounters(c) ==
    LET at == {i \in DOMAIN prepared : prepared[i].id = call[c].answer.id}
    IN  /\ call[c].pc = "found"
        /\ \/ /\ at = {} /\ Becomes(c, Over) /\ UNCHANGED prepared
           \/ \E i \in at : /\ prepared' = [prepared EXCEPT ![i].counter = Increment(@)]
                            /\ Becomes(c, [call[c] EXCEPT !.pc = "counted"])
        /\ Steady /\ UNCHANGED <<tokens, shadow, legacy, aside, dir>>

SaveInstallation(c) ==
    /\ call[c].pc = "counted"
    /\ dir' = [dir EXCEPT ![c] = IF call[c].answer.hook THEN "in-progress" ELSE "answer-sent"]
    /\ Becomes(c, [call[c] EXCEPT !.pc = "sent"])
    /\ Steady /\ UNCHANGED <<prepared, tokens, shadow, legacy, aside>>

-----------------------------------------------------------------------------
(***************************************************************************)
(* read_installations, for list_installations and handle_post_hook: the    *)
(* legacy file is taken apart first.                                       *)
(***************************************************************************)
StartReading(c, hook) ==
    /\ call[c].pc = "idle" /\ (IF hook = Absent THEN MayRead ELSE MayWrite)
    /\ \/ /\ legacy # Absent /\ ~readable
          /\ aside' = legacy /\ legacy' = Absent
          /\ Becomes(c, [pc |-> "read", todo |-> {}, hook |-> hook])
       \/ /\ legacy = Absent \/ readable
          /\ Becomes(c, IF legacy = Absent THEN [pc |-> "read", todo |-> {}, hook |-> hook]
                        ELSE [pc |-> "migrate", todo |-> legacy, hook |-> hook])
          /\ UNCHANGED <<legacy, aside>>
    /\ Steady /\ UNCHANGED <<prepared, tokens, shadow, dir>>

\* An installation that has a file of its own keeps it.
Migrated(u) == IF dir[u] = Absent THEN "in-progress" ELSE dir[u]

MigrateInstallation(c, u) ==
    /\ call[c].pc = "migrate" /\ u \in call[c].todo
    /\ dir' = [dir EXCEPT ![u] = Migrated(u)]
    /\ Becomes(c, [call[c] EXCEPT !.todo = @ \ {u}])
    /\ Steady /\ UNCHANGED <<prepared, tokens, shadow, legacy, aside>>

\* Mutant: the legacy file goes before all of it is migrated.
RemoveLegacyFileEarly(c) ==
    /\ call[c].pc = "migrate"
    /\ legacy' = Absent
    /\ Becomes(c, [call[c] EXCEPT !.pc = "read", !.todo = {}])
    /\ Steady /\ UNCHANGED <<prepared, tokens, shadow, aside, dir>>

\* The file cannot be removed twice: another list may have done it.
RemoveLegacyFile(c) ==
    /\ call[c].pc = "migrate" /\ call[c].todo = {}
    /\ legacy' = Absent
    /\ Becomes(c, IF legacy = Absent THEN Over ELSE [call[c] EXCEPT !.pc = "read"])
    /\ Steady /\ UNCHANGED <<prepared, tokens, shadow, aside, dir>>

\* handle_post_hook: once for an installation that is in progress.
HookFits(u) == dir[u] = "in-progress"

EndReading(c) ==
    LET u == call[c].hook
    IN  /\ call[c].pc = "read"
        /\ \/ /\ u # Absent /\ HookFits(u)
              /\ dir' = [dir EXCEPT ![u] = "finished"]
           \/ /\ u # Absent => ~HookFits(u)
              /\ UNCHANGED dir
        /\ Becomes(c, Over)
        /\ Steady /\ UNCHANGED <<prepared, tokens, shadow, legacy, aside>>

DeleteInstallation(u) ==
    /\ edits < MaxEdits /\ edits' = edits + 1
    /\ MayWrite /\ dir[u] # Absent
    /\ dir' = [dir EXCEPT ![u] = Absent]
    /\ UNCHANGED <<prepared, tokens, shadow, legacy, aside, readable, call, crashes>>

-----------------------------------------------------------------------------
(***************************************************************************)
(* Tokens: tokens.cfg is written first, then the secrets, under one lock.  *)
(***************************************************************************)
WriteTokens(c, ts, k) ==
    /\ tokens' = ts /\ Becomes(c, k)
    /\ Steady /\ UNCHANGED <<prepared, shadow, legacy, aside, dir>>

WriteShadow(c, ts, k) ==
    /\ shadow' = ts /\ Becomes(c, k)
    /\ Steady /\ UNCHANGED <<prepared, tokens, legacy, aside, dir>>

CreateToken(c, t) ==
    /\ call[c].pc = "idle" /\ TokensFree /\ t \notin tokens
    /\ WriteTokens(c, tokens \cup {t}, [pc |-> "secret", token |-> t])

StoreSecret(c) ==
    /\ call[c].pc = "secret"
    /\ WriteShadow(c, shadow \cup {call[c].token}, Over)

\* update_token with regenerate_secret: the token is deleted and created again.
RegenerateSecret(c, t) ==
    /\ call[c].pc = "idle" /\ TokensFree /\ t \in tokens
    /\ WriteTokens(c, tokens \ {t}, [pc |-> "renew", token |-> t])

ForgetSecret(c) ==
    /\ call[c].pc \in {"renew", "forget"}
    /\ WriteShadow(c, shadow \ {call[c].token},
                   IF call[c].pc = "renew" THEN [call[c] EXCEPT !.pc = "add"] ELSE Over)

AddAgain(c) ==
    /\ call[c].pc = "add"
    /\ WriteTokens(c, tokens \cup {call[c].token}, [call[c] EXCEPT !.pc = "secret"])

\* delete_token looks for uses of the token before it takes the lock.
Uses(t) == {i \in DOMAIN prepared : t \in prepared[i].tokens}

CheckUnused(c, t) ==
    /\ call[c].pc = "idle" /\ Uses(t) = {}
    /\ Becomes(c, [pc |-> "unused", token |-> t])
    /\ Steady /\ UNCHANGED files

DropToken(c) ==
    /\ call[c].pc = "unused" /\ TokensFree
    /\ WriteTokens(c, tokens \ {call[c].token},
                   IF call[c].token \in tokens THEN [call[c] EXCEPT !.pc = "forget"] ELSE Over)

CutShort(c) ==
    /\ call[c].pc \notin {"idle", "over", "sent"} /\ crashes < MaxCrashes
    /\ crashes' = crashes + 1
    /\ Becomes(c, Over)
    /\ UNCHANGED <<files, readable, edits>>

InstallerNext ==
    \/ /\ Edit
       /\ \/ \E p \in Answers, g \in SUBSET (Tokens \ tokens), v \in BOOLEAN :
                \/ CreatePrepared(p, g, v)
                \/ \E i \in DOMAIN prepared : UpdatePrepared(i, p, g, v)
          \/ \E i \in DOMAIN prepared : DeletePrepared(i)
    \/ \E u \in Uuids : DeleteInstallation(u)
    \/ \E c \in Calls :
          \/ \E t \in Tokens : \/ Verify(c, t) \/ CreateToken(c, t)
                             \/ RegenerateSecret(c, t) \/ CheckUnused(c, t)
          \/ \E m \in Machines, rendered \in BOOLEAN : NewInstallation(c, m, rendered)
          \/ IncrementTemplateCounters(c) \/ SaveInstallation(c)
          \/ \E hook \in Uuids \cup {Absent} : StartReading(c, hook)
          \/ \E u \in Legacy : MigrateInstallation(c, u)
          \/ RemoveLegacyFile(c) \/ EndReading(c)
          \/ StoreSecret(c) \/ ForgetSecret(c) \/ AddAgain(c) \/ DropToken(c)
          \/ CutShort(c)

InstallerSpec == InstallerInit /\ [][InstallerNext]_installerVars

-----------------------------------------------------------------------------
(***************************************************************************)
(* Properties.                                                             *)
(***************************************************************************)

\* Two machines never get the same value of a template counter from one seed, however
\* their requests, edits of the answer and crashes interleave (new_installation reads
\* the counter before increment_template_counters), unless the counter has saturated.
CounterNeverReused ==
    \A c, d \in Calls :
        LET a == call[c].answer
            b == call[d].answer
        IN  c # d /\ call[c].pc = "sent" /\ call[d].pc = "sent"
            /\ a.id = b.id /\ a.epoch = b.epoch
                => a.counter # b.counter \/ a.counter = MaxCounter

\* At most one answer is the default one, and each of the others can match a machine
\* (create_prepared_answer and update_prepared_answer), so the order of the file decides
\* among matches only.
AnswersUnambiguous ==
    /\ \A i, j \in DOMAIN prepared :
          i # j => /\ prepared[i].id # prepared[j].id
                   /\ ~(prepared[i].is_default /\ prepared[j].is_default)
    /\ \A i \in DOMAIN prepared : Acceptable(prepared[i])

\* The legacy file goes only when each of its installations is in a file of its own or
\* was deleted by a request: a list, a hook or a crash in between loses none.
LegacyKept ==
    [][\A u \in Legacy :
          LET in(l, d, a) == (l # Absent /\ u \in l) \/ d[u] # Absent \/ u \in a
          IN  in(legacy, dir, aside) /\ ~in(legacy', dir', aside') => DeleteInstallation(u)]_installerVars

\* The comment on new_installation: "The system information data is saved in any case".
\* A request that has ended without the process ending has left its installation.
SavedInAnyCase ==
    [][\A c \in Calls :
          call[c].pc \in {"verified", "found", "counted"} /\ call'[c].pc \in {"over", "sent"}
              /\ crashes' = crashes => dir'[c] # Absent]_installerVars

\* The comment on delete_token: "If the token is currently in use by any prepared answer
\* configuration, the deletion will fail."
UsedTokenStays == [][\A c \in Calls : DropToken(c) => Uses(call[c].token) = {}]_installerVars

=============================================================================

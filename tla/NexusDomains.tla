---------------------------- MODULE NexusDomains ----------------------------
(***************************************************************************)
(* Domains & Hosting: the handlers of server/src/api/nexus/domains.rs and  *)
(* the provider helper they run, services/nexus-domains-helper.            *)
(*                                                                         *)
(* A domain's DNS is, for each kind of record, the set of the contents     *)
(* found under its name: "nexus" is what the helper would publish,         *)
(* "foreign" anything else.  "webmail" is the CNAME, "mx" the MX record,   *)
(* and every other kind a TXT record with the prefix of SPF, DKIM or       *)
(* DMARC.  All domains share ONE tunnel configuration, which the helper    *)
(* reads whole, changes and writes back whole.  The Hestia steps are       *)
(* existence checks and can only fail; the audit log is never read back    *)
(* and appears only where failing to append to it ends the call.           *)
(***************************************************************************)
EXTENDS Naturals, Sequences, FiniteSets

CONSTANTS
    Calls,        \* API calls, each made at most once
    Ops,          \* Ops[c]: what the call may be, see Begin
    Domains,
    MailKinds,    \* sequence: the mail records, in the order they are written
    Attempts,     \* HELPER_RECONCILE_ATTEMPTS
    MaxEdits,     \* bound on what others change in DNS
    MaxBlind      \* bound on the lookups that fail and so look empty

ASSUME DomainsAssumption == Domains # {} /\ Attempts \in Nat \ {0}

VARIABLES
    dns,          \* dns[d][k]: contents of the records of kind k of domain d
    tunnel,       \* tunnel[d]: origin of webmail.d in the tunnel's ingress list
    ddns,         \* domains whose webmail name is still in the DDNS list
    inventory,    \* domains-hosting.json
    call,         \* the calls
    edits, blind  \* how much of the two bounds is spent

domainVars == <<dns, tunnel, ddns, inventory, call, edits, blind>>

Kinds == {"webmail"} \cup {MailKinds[i] : i \in DOMAIN MailKinds}
Contents == {"nexus", "foreign"}
Views == [Kinds -> SUBSET Contents]
Origins == {"none", "http", "https"}

\* What the helper does, in order.
Plan == <<"ddns", "webmail", "http", "hestia">> \o MailKinds \o <<"https">>

NoRecords == [k \in Kinds |-> {}]
Entry(mode, records) == [mode |-> mode, records |-> records]

\* intact: the kinds whose foreign record was there when the call began and
\* which nobody but this call has changed since (a history variable).  got:
\* what the last list request of the helper returned.
NoCall == [op |-> "none", d |-> CHOOSE d \in Domains : TRUE, replace |-> FALSE,
           pc |-> "idle", seen |-> NoRecords, attempt |-> 1, step |-> 1,
           got |-> {}, routes |-> [d \in Domains |-> "none"], intact |-> {}]

Ended == {"done", "failed", "decision"}
Closed(pc) == [NoCall EXCEPT !.pc = pc]

\* The providers, the inventory and the calls have the shapes the handlers give them.
DomainTypeOK ==
    /\ dns \in [Domains -> Views]
    /\ tunnel \in [Domains -> Origins]
    /\ ddns \subseteq Domains
    /\ \A d \in Domains :
          /\ inventory[d].mode \in {"none", "nexus", "discovered", "existing"}
          /\ inventory[d].records \in Views
    /\ call \in
          [Calls -> [op : {"none", "onboard", "adopt"}, d : Domains, replace : BOOLEAN,
                     pc : {"idle", "look", "judge", "step", "clear", "write", "route",
                           "validate"} \cup Ended,
                     seen : Views, attempt : 1..Attempts, step : 1..Len(Plan) + 1,
                     got : SUBSET Contents, routes : [Domains -> Origins],
                     intact : SUBSET Kinds]]
    /\ edits \in 0..MaxEdits
    /\ blind \in 0..MaxBlind

DomainInit ==
    /\ dns \in [Domains -> {NoRecords} \cup
                   {[NoRecords EXCEPT ![k] = {"foreign"}] : k \in Kinds}]
    /\ tunnel = [d \in Domains |-> "none"]
    /\ ddns \in {{}, {CHOOSE d \in Domains : TRUE}}
    /\ inventory = [d \in Domains |-> Entry("none", NoRecords)]
    /\ call = [c \in Calls |-> NoCall]
    /\ edits = 0
    /\ blind = 0

Goes(c, rec) == call' = [call EXCEPT ![c] = rec]
At(c, pc) == call[c].pc = pc

-----------------------------------------------------------------------------
(* The surroundings: somebody else edits a record, or hands webmail over.  *)

EditDns(d, k, contents) ==
    /\ edits < MaxEdits
    /\ contents # dns[d][k]
    /\ edits' = edits + 1
    /\ dns' = [dns EXCEPT ![d][k] = contents]
    /\ call' = [c \in Calls |->
                  IF call[c].d = d THEN [call[c] EXCEPT !.intact = @ \ {k}]
                                   ELSE call[c]]
    /\ UNCHANGED <<tunnel, ddns, inventory, blind>>

LeaveDdns(d) ==
    /\ d \in ddns
    /\ ddns' = ddns \ {d}
    /\ UNCHANGED <<dns, tunnel, inventory, call, edits, blind>>

-----------------------------------------------------------------------------
(* Validation.                                                             *)

\* validate_domain_raw: a lookup that fails reports an empty value, exactly
\* like a record that does not exist.
Look(d, view, missed) ==
    /\ missed \subseteq {k \in Kinds : dns[d][k] # {}}
    /\ blind + Cardinality(missed) <= MaxBlind
    /\ blind' = blind + Cardinality(missed)
    /\ view = [k \in Kinds |-> IF k \in missed THEN {} ELSE dns[d][k]]

\* MX and CNAME must point at the Nexus names; a TXT record has to be alone.
CheckOk(view, k) ==
    IF k \in {"webmail", "mx"} THEN view[k] = {"nexus"}
                               ELSE Cardinality(view[k]) = 1

ExistingConfigurationDetected(view, entry) ==
    \/ \E k \in Kinds : ~CheckOk(view, k) /\ view[k] # {}
    \/ entry.mode # "nexus" /\ view # NoRecords

\* validate_domain_inner, which applies the adopted policy if there is one
DecisionRequired(view, entry) ==
    IF entry.mode = "existing" THEN view # entry.records
                               ELSE ExistingConfigurationDetected(view, entry)

-----------------------------------------------------------------------------
(* The API.                                                                *)

\* adopt_existing_domain, onboard_domain, or "replace": the latter with
\* replace_existing, which skips the preflight.
Begin(c, op, d) ==
    /\ At(c, "idle")
    /\ Goes(c, [NoCall EXCEPT !.op = IF op = "adopt" THEN "adopt" ELSE "onboard",
                            !.d = d, !.replace = op = "replace",
                            !.pc = IF op = "replace" THEN "step" ELSE "look",
                            !.intact = {k \in Kinds : "foreign" \in dns[d][k]}])
    /\ UNCHANGED <<dns, tunnel, ddns, inventory, edits, blind>>

Probe(c) ==
    /\ At(c, "look")
    /\ \E missed \in SUBSET Kinds, view \in Views :
          /\ Look(call[c].d, view, missed)
          /\ Goes(c, [call[c] EXCEPT !.pc = "judge", !.seen = view])
    /\ UNCHANGED <<dns, tunnel, ddns, inventory, edits>>

\* The rest of onboard_domain's preflight: the inventory is read after the
\* lookups, and persist_discovered_domain leaves an entry that is there alone.
Preflight(c) ==
    LET d == call[c].d IN
    /\ At(c, "judge") /\ call[c].op = "onboard"
    /\ IF DecisionRequired(call[c].seen, inventory[d])
         THEN /\ Goes(c, Closed("decision"))
              /\ inventory' = IF inventory[d].mode = "none"
                                THEN [inventory EXCEPT ![d] = Entry("discovered", NoRecords)]
                                ELSE inventory
         ELSE /\ Goes(c, [call[c] EXCEPT !.pc = "step", !.seen = NoRecords])
              /\ UNCHANGED inventory
    /\ UNCHANGED <<dns, tunnel, ddns, edits, blind>>

\* adopt_existing_domain
Adopt(c) ==
    LET d == call[c].d IN
    /\ At(c, "judge") /\ call[c].op = "adopt"
    /\ IF call[c].seen = NoRecords
         THEN Goes(c, Closed("failed")) /\ UNCHANGED inventory
         ELSE /\ Goes(c, [call[c] EXCEPT !.pc = "validate", !.seen = NoRecords])
              /\ inventory' = [inventory EXCEPT ![d] = Entry("existing", call[c].seen)]
    /\ UNCHANGED <<dns, tunnel, ddns, edits, blind>>
-----------------------------------------------------------------------------
(* The helper: onboard, or migrate when call[c].replace.                   *)

Doing(c, step) == At(c, "step") /\ call[c].step <= Len(Plan)
                                /\ Plan[call[c].step] = step
NextStep(rec) == [rec EXCEPT !.pc = "step", !.step = @ + 1, !.got = {},
                             !.routes = NoCall.routes]

\* Mutant: the attempts are not counted.
RetriedForEver(rec, retryable) ==
    IF retryable THEN [rec EXCEPT !.pc = "step", !.step = 1, !.got = {}, !.routes = NoCall.routes]
                 ELSE Closed("failed")

\* helper_exit_code_is_retryable and the loop around the helper: a timeout
\* and any code but 3, 5, 42 and 43 start it over, HELPER_RECONCILE_ATTEMPTS
\* times in all.
Retried(rec, retryable) ==
    IF retryable /\ rec.attempt < Attempts
      THEN [rec EXCEPT !.pc = "step", !.step = 1, !.attempt = @ + 1,
                       !.got = {}, !.routes = NoCall.routes]
      ELSE Closed("failed")

\* The helper is killed, or one of its commands fails; it may also be impossible to
\* start it, or to note the failure, which ends the call.
HelperFails(c) ==
    /\ call[c].pc \in {"step", "clear", "write", "route"}
    /\ call[c].step <= Len(Plan)
    /\ Goes(c, Retried(call[c], TRUE)) \/ Goes(c, Closed("failed"))
    /\ UNCHANGED <<dns, tunnel, ddns, inventory, edits, blind>>

\* ensure_ddns_record: refuses (42) while the DDNS list owns the webmail name.
EnsureDdnsRecord(c) ==
    /\ Doing(c, "ddns")
    /\ Goes(c, IF call[c].d \in ddns THEN Retried(call[c], FALSE)
                                     ELSE NextStep(call[c]))
    /\ UNCHANGED <<dns, tunnel, ddns, inventory, edits, blind>>

\* hestia_ensure_mail_domain, wait_for_mail_a and the certificate
Hestia(c) ==
    /\ Doing(c, "hestia")
    /\ Goes(c, NextStep(call[c]))
    /\ UNCHANGED <<dns, tunnel, ddns, inventory, edits, blind>>

Several(got) == \E x, y \in got : x # y

\* Mutant: a record with another content is no conflict.
ConflictOnlyIfSeveral(replace, got) == ~replace /\ Several(got)

\* cf_upsert_single_dns and cf_upsert_txt_prefix: what a list of the records
\* leads to.  Without opt-in several records, or one with another content,
\* end the helper with code 5.
Conflict(replace, got) == ~replace /\ (Several(got) \/ got = {"foreign"})

ListRecords(c) ==
    \E k \in Kinds :
      LET got == dns[call[c].d][k] IN
      /\ Doing(c, k)
      /\ Goes(c, IF Conflict(call[c].replace, got) THEN Retried(call[c], FALSE)
                 ELSE [call[c] EXCEPT !.got = got,
                         !.pc = IF Several(got) THEN "clear" ELSE "write"])
      /\ UNCHANGED <<dns, tunnel, ddns, inventory, edits, blind>>

\* The records of kind k of call c's domain become contents, under the eyes
\* of the other calls for that domain.
Publish(c, k, contents, rec) ==
    /\ dns' = [dns EXCEPT ![call[c].d][k] = contents]
    /\ call' = [o \in Calls |->
                  IF o = c THEN rec
                  ELSE IF call[o].d = call[c].d
                         THEN [call[o] EXCEPT !.intact = @ \ {k}]
                         ELSE call[o]]
    /\ UNCHANGED <<tunnel, ddns, inventory, edits, blind>>

\* Several records are deleted one by one, then treated as absent.
DeleteRecord(c) ==
    LET k == Plan[call[c].step] IN
    /\ At(c, "clear")
    /\ \E x \in call[c].got :
          LET left == call[c].got \ {x} IN
          Publish(c, k, dns[call[c].d][k] \ {x},
                  [call[c] EXCEPT !.got = left,
                                  !.pc = IF left = {} THEN "write" ELSE "clear"])

\* POST adds a record; PUT replaces the one that was listed, whatever it has
\* become since.
WriteRecord(c) ==
    LET k == Plan[call[c].step]
        now == dns[call[c].d][k]
        listed == IF call[c].got \subseteq now THEN call[c].got ELSE now
    IN /\ At(c, "write")
       /\ IF listed = {}
            THEN /\ call[c].got = {}
                 /\ Publish(c, k, now \cup {"nexus"}, NextStep(call[c]))
            ELSE \E x \in listed :
                   Publish(c, k, (now \ {x}) \cup {"nexus"}, NextStep(call[c]))

\* cf_upsert_tunnel_ingress: the configuration is read whole ...
ReadTunnel(c) ==
    /\ \E origin \in {"http", "https"} : Doing(c, origin)
    /\ Goes(c, [call[c] EXCEPT !.pc = "route", !.routes = tunnel])
    /\ UNCHANGED <<dns, tunnel, ddns, inventory, edits, blind>>

\* ... and written back whole, with this domain's route replaced.
WriteTunnel(c) ==
    /\ At(c, "route")
    /\ tunnel' = [call[c].routes EXCEPT ![call[c].d] = Plan[call[c].step]]
    /\ Goes(c, NextStep(call[c]))
    /\ UNCHANGED <<dns, ddns, inventory, edits, blind>>

-----------------------------------------------------------------------------
\* persist_mail_domain, or its failure, after which the call ends in error
PersistMailDomain(c) ==
    /\ At(c, "step") /\ call[c].step = Len(Plan) + 1
    /\ \/ /\ inventory' = [inventory EXCEPT ![call[c].d] = Entry("nexus", NoRecords)]
          /\ Goes(c, [call[c] EXCEPT !.pc = "validate"])
       \/ /\ Goes(c, Closed("failed"))
          /\ UNCHANGED inventory
    /\ UNCHANGED <<dns, tunnel, ddns, edits, blind>>

\* The closing validation reports and changes nothing, but reading the
\* inventory or appending to the audit log can still fail.
Finish(c, pc) ==
    /\ At(c, "validate")
    /\ pc \in {"done", "failed"}
    /\ Goes(c, Closed(pc))
    /\ UNCHANGED <<dns, tunnel, ddns, inventory, edits, blind>>

CallStep(c) ==
    \/ Probe(c) \/ Preflight(c) \/ Adopt(c)
    \/ EnsureDdnsRecord(c) \/ Hestia(c) \/ ListRecords(c) \/ DeleteRecord(c)
    \/ WriteRecord(c) \/ ReadTunnel(c) \/ WriteTunnel(c) \/ HelperFails(c)
    \/ PersistMailDomain(c)
    \/ \E pc \in {"done", "failed"} : Finish(c, pc)

DomainNext ==
    \/ \E d \in Domains, k \in Kinds, contents \in SUBSET Contents :
          EditDns(d, k, contents)
    \/ \E d \in Domains : LeaveDdns(d)
    \/ \E c \in Calls :
          \/ \E op \in Ops[c], d \in Domains : Begin(c, op, d)
          \/ CallStep(c)

DomainSpec == DomainInit /\ [][DomainNext]_domainVars

\* The executor runs every call; the helper's timeout bounds each attempt.
FairDomainSpec == DomainSpec /\ \A c \in Calls : WF_domainVars(CallStep(c))

-----------------------------------------------------------------------------
(* Properties.                                                             *)

\* "Existing conflicts are replaced only with explicit opt-in" (the comment on
\* onboard_domain): an onboarding without replace_existing never replaces a
\* foreign record that was there when it began, however blind its preflight
\* was, whatever was adopted or persisted meanwhile, and however often its
\* helper was started over.
NothingReplacedUnasked ==
    \A c \in Calls : call[c].op = "onboard" /\ ~call[c].replace =>
        \A k \in call[c].intact : "foreign" \in dns[call[c].d][k]

DomainsEnded == \A c \in Calls : call[c].pc \in Ended \cup {"idle"}

\* A call of onboard_domain or adopt_existing_domain that is made comes to an
\* end: the helper is started over HELPER_RECONCILE_ATTEMPTS times at most.
DomainCallsEnd == <>[]DomainsEnded

\* docs/nexus-domains-hosting.md: "The Nexus onboarding endpoint itself does
\* not delete domains, mailboxes, Tunnel routes, or DNS records."
NoRouteDeleted ==
    [][\A d \in Domains : tunnel[d] # "none" => tunnel'[d] # "none"]_domainVars

\* docs/nexus-domains-hosting.md: "Re-running the onboarding is safe: provider
\* changes are idempotent and the inventory upsert will be retried."  A
\* domain whose records are all the ones the helper publishes is onboarded,
\* not sent back for a decision about an existing configuration.
RerunGoesOn ==
    \A c \in Calls : At(c, "judge") /\ call[c].op = "onboard" =>
        (DecisionRequired(call[c].seen, inventory[call[c].d]) =>
            \E k \in Kinds : "foreign" \in call[c].seen[k]
                               \/ "foreign" \in dns[call[c].d][k])
=============================================================================

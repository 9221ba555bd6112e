---------------------------- MODULE ResourceQuery ----------------------------
(***************************************************************************)
(* The queries over the resources of all remotes: the search of            *)
(* lib/pdm-search, the filter rules of a view (server/src/views/mod.rs),   *)
(* and get_resources_impl (server/src/api/resources.rs), which combines    *)
(* them with three short cuts:                                             *)
(* remotes a view cannot contain are skipped, remotes of the wrong type are *)
(* skipped, and a search for remotes does not look at resources.           *)
(*                                                                         *)
(* Text is abstracted to the search values that it contains, or that it    *)
(* starts with; a matcher of a filter rule to the set of texts it accepts.  *)
(***************************************************************************)
EXTENDS Integers, Sequences

CONSTANTS
    Remotes, TypeOfRemote,
    NameHits,    \* NameHits[m]: the values that the name of the remote contains
    Beginnings,  \* Beginnings[s]: the values that s starts with; s: a type or a status
    Resources,   \* records: remote, type, id, tags, pool, and hits (see TermMatches)
    ViewConfig,  \* the configured views
    Queries,     \* the calls of get_resources
    None         \* no view, no type, no category, no answer

\* No type of resource begins like "remote" (ResourceType::as_str), and every category
\* that a resource's text is searched by is a valid one.
ASSUME ResourcesAreNotRemotes ==
    /\ None \notin {"type", "remote-type", "invalid"}
    /\ \A res \in Resources :
          /\ res.remote \in Remotes
          /\ Beginnings[res.type] \cap Beginnings["remote"] = {}
          /\ "invalid" \notin DOMAIN res.hits

VARIABLES query, listed

queryVars == <<query, listed>>

Guests == {"qemu", "lxc"}

-----------------------------------------------------------------------------
(***************************************************************************)
(* A view: a resource is included by a rule, or by include_all, and not    *)
(* excluded by one.                                                        *)
(***************************************************************************)

\* check_rules, for one rule; only guests have tags and a pool.
RuleHits(rule, m, res) ==
    CASE rule.kind = "remote" -> m \in rule.accepts
      [] rule.kind = "resource-type" -> res.type \in rule.accepts
      [] rule.kind = "resource-id" -> res.id \in rule.accepts
      [] rule.kind = "resource-pool" -> res.type \in Guests /\ res.pool \in rule.accepts
      [] rule.kind = "tag" -> res.type \in Guests /\ res.tags \cap rule.accepts # {}

CheckRules(rules, m, res) == \E rule \in rules : RuleHits(rule, m, res)

InView(view, m, res) ==
    /\ view.includeAll \/ CheckRules(view.include, m, res)
    /\ ~CheckRules(view.exclude, m, res)

MatchesRemoteRule(m, rule) == rule.kind = "remote" /\ m \in rule.accepts

\* Mutant: rules of other kinds than "remote" are not looked at.
CanSkipByRemoteRules(view, m) ==
    \/ \E rule \in view.exclude : MatchesRemoteRule(m, rule)
    \/ ~view.includeAll /\ ~\E rule \in view.include : MatchesRemoteRule(m, rule)

CanSkipRemote(view, m) ==
    \/ \E rule \in view.exclude : MatchesRemoteRule(m, rule)
    \/ /\ ~view.includeAll
       /\ \A rule \in view.include : rule.kind = "remote" /\ m \notin rule.accepts

IsRemoteExplicitlyIncluded(view, m) ==
    /\ view.includeAll \/ \E rule \in view.include : MatchesRemoteRule(m, rule)
    /\ ~\E rule \in view.exclude : MatchesRemoteRule(m, rule)

-----------------------------------------------------------------------------
(***************************************************************************)
(* A search: the sequences of its required and of its optional terms.      *)
(***************************************************************************)
TermsOf(search) ==
    {search.required[i] : i \in DOMAIN search.required}
        \cup {search.optional[i] : i \in DOMAIN search.optional}

\* Search::matches: every required term, and some optional one if there are any.
\* held: the terms for which the closure answers TRUE.
Matches(search, held) ==
    /\ \A i \in DOMAIN search.required : search.required[i] \in held
    /\ search.optional = <<>> \/ \E i \in DOMAIN search.optional : search.optional[i] \in held

\* The terms a closure of Search::matches is called with if it always answers TRUE:
\* the first optional term that holds ends the walk.
Visited(search) ==
    search.required \o (IF search.optional = <<>> THEN <<>> ELSE <<search.optional[1]>>)

\* resource_matches_search_term; a term that cannot be decided for a resource counts
\* as matched.  hits: what the resource's text contains, by category.
TermMatches(res, term) ==
    CASE term.category = "type" -> term.value \in Beginnings[res.type]
      [] term.category = "remote" -> term.value \in NameHits[res.remote]
      [] term.category \in {"remote-type", "view"} -> TRUE
      [] term.category = None -> term.value \in res.hits["name"] \cup res.hits["id"]
      [] OTHER -> term.category \in DOMAIN res.hits /\ term.value \in res.hits[term.category]

\* remote_matches_search_term; online is None while it is not known.
RemoteTermMatches(m, online, term) ==
    CASE term.category = "type" -> term.value \in Beginnings["remote"]
      [] term.category \in {"name", "remote", "id"} -> term.value \in NameHits[m]
      [] term.category = "status" -> online = None \/ term.value \in Beginnings[online]
      [] term.category = "remote-type" -> term.value = TypeOfRemote[m]
      [] term.category = "view" -> TRUE
      [] term.category = None -> term.value \in NameHits[m] \cup Beginnings["remote"]
      [] OTHER -> FALSE

\* remote_type_matches_search_term; "invalid" is a category that does not parse.
RemoteTypeTermMatches(m, term) ==
    /\ term.category = "remote-type" => term.value = TypeOfRemote[m]
    /\ term.category # "invalid"

AsksForRemotes(term) == term.category = "type" /\ term.value \in Beginnings["remote"]

IsRemotesOnly(search) ==
    \/ \E i \in DOMAIN search.required : AsksForRemotes(search.required[i])
    \/ /\ search.optional # <<>>
       /\ \A i \in DOMAIN search.optional : AsksForRemotes(search.optional[i])

\* The view of the parameter, or else the last view term that the search visits.
EffectiveView(q) ==
    LET terms == Visited(q.search)
        named == {i \in DOMAIN terms : terms[i].category = "view"}
    IN  IF q.view # None THEN q.view
        ELSE IF named = {} THEN None
        ELSE terms[CHOOSE i \in named : \A j \in named : j <= i].value

-----------------------------------------------------------------------------
(***************************************************************************)
(* get_resources_impl.  allowed: the remotes the caller may see when no    *)
(* view decides.  failed: the remotes that could not be asked.             *)
(***************************************************************************)
Asked(q, view, m) ==
    LET typed == {t \in TermsOf(q.search) : RemoteTypeTermMatches(m, t)}
        itself == {t \in TermsOf(q.search) : RemoteTermMatches(m, None, t)}
    IN  /\ IF view # None THEN ~CanSkipRemote(ViewConfig[view], m) ELSE m \in q.allowed
        /\ Matches(q.search, typed)
        /\ IsRemotesOnly(q.search) => Matches(q.search, itself)

Found(q, view, m) ==
    {res \in Resources :
        /\ res.remote = m /\ m \notin q.failed
        /\ ~IsRemotesOnly(q.search)
        /\ q.type # None => res.type = q.type
        /\ Matches(q.search, {t \in TermsOf(q.search) : TermMatches(res, t)})
        /\ view # None => InView(ViewConfig[view], m, res)}

\* The remote is part of the result, with what was found on it.  Without a view a
\* remote without resources stays if it matches itself; with one, only if it failed
\* and is included as a whole.
Kept(q, view, m) ==
    LET online == IF m \in q.failed THEN "offline" ELSE "online"
        itself == {t \in TermsOf(q.search) : RemoteTermMatches(m, online, t)}
    IN  /\ Asked(q, view, m)
        /\ \/ Found(q, None, m) # {}
           \/ Matches(q.search, itself)
        /\ view # None => \/ Found(q, view, m) # {}
                          \/ m \in q.failed /\ IsRemoteExplicitlyIncluded(ViewConfig[view], m)

GetResources(q) ==
    LET view == EffectiveView(q)
    IN  [m \in {n \in Remotes : Kept(q, view, n)} |-> Found(q, view, m)]

QueryInit == query \in Queries /\ listed = None

Answer ==
    /\ listed = None
    /\ listed' = GetResources(query)
    /\ UNCHANGED query

QueryNext == Answer

QuerySpec == QueryInit /\ [][QueryNext]_queryVars

-----------------------------------------------------------------------------
(***************************************************************************)
(* Properties.                                                             *)
(***************************************************************************)

\* What a term means for a resource, with the type of its remote at hand.
Means(res, term) ==
    IF term.category = "remote-type" THEN term.value = TypeOfRemote[res.remote]
                                     ELSE TermMatches(res, term)

Wanted(q, res) ==
    LET view == EffectiveView(q)
    IN  /\ res.remote \notin q.failed
        /\ IF view # None THEN InView(ViewConfig[view], res.remote, res)
                          ELSE res.remote \in q.allowed
        /\ q.type # None => res.type = q.type
        /\ Matches(q.search, {t \in TermsOf(q.search) : Means(res, t)})

\* The short cuts lose nothing: a resource of a remote that answers, that the search
\* and the type ask for, and that the view in force contains, is listed
\* (can_skip_remote "safely", remote_type_matches_search_term, is_remotes_only).
NoMatchLost ==
    listed # None =>
        \A res \in Resources :
            Wanted(query, res) => /\ res.remote \in DOMAIN listed
                                  /\ res \in listed[res.remote]

\* Every required term but a view holds of every resource listed, also the type of the
\* remote, which the filter on resources cannot decide and passes
\* (resource_matches_search_term(..).unwrap_or(true)).
RequiredHonoured ==
    listed # None =>
        \A m \in DOMAIN listed : \A res \in listed[m] :
            \A i \in DOMAIN query.search.required : Means(res, query.search.required[i])

\* The answer of get_resources_impl is right in both directions: nothing that is asked
\* for is missing, and nothing is listed that a required term rules out.
AnswerIsRight == NoMatchLost /\ RequiredHonoured

\* A view named in the search restricts what is listed ("Views can now be searched
\* for"; and in is_remotes_only: "search is short-circuited, so to iterate over all,
\* return true on required and false on optional").
ViewHonoured ==
    LET terms == query.search.required \o query.search.optional
        named == {terms[i].value : i \in {j \in DOMAIN terms : terms[j].category = "view"}}
    IN  listed # None /\ query.view = None /\ named # {} =>
            \A m \in DOMAIN listed : \A res \in listed[m] :
                \E v \in named : InView(ViewConfig[v], m, res)

=============================================================================

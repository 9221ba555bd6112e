--------------------------- MODULE MCResourceQuery ---------------------------
EXTENDS ResourceQuery, TLC, SequencesExt

MCTypeOfRemote == "m1" :> "pve" @@ "m2" :> "pbs"
MCNameHits == "m1" :> {"a"} @@ "m2" :> {"b"}
MCBeginnings ==
    "remote" :> {"re"} @@ "node" :> {"no"} @@ "qemu" :> {"qe"} @@ "datastore" :> {"da"}
    @@ "online" :> {"on"} @@ "offline" :> {"off"}

Res(m, type, id, name, status) ==
    [remote |-> m, type |-> type, id |-> id, pool |-> "p", tags |-> {"t"},
     hits |-> "name" :> {name} @@ "id" :> {id} @@ "status" :> status]

MCResources ==
    {Res("m1", "node", "n1", "a", {"on"}), Res("m1", "qemu", "g1", "b", {}),
     Res("m2", "datastore", "d1", "a", {"on"})}

Rule(kind, accepts) == [kind |-> kind, accepts |-> accepts]
View(all, include, exclude) == [includeAll |-> all, include |-> include, exclude |-> exclude]

Rules == {Rule("remote", {"m1"}), Rule("tag", {"t"}), Rule("resource-type", {"datastore"}),
          Rule("resource-id", {"n1"}), Rule("resource-pool", {"p"})}

MCViewConfig ==
    "v1" :> View(FALSE, {Rule("remote", {"m1"})}, {Rule("tag", {"t"})})
    @@ "v2" :> View(FALSE, {Rule("remote", {"m1"}), Rule("resource-type", {"datastore"})}, {})
    @@ "v3" :> View(TRUE, {}, {Rule("remote", {"m2"}), Rule("resource-id", {"n1"})})
    @@ "v4" :> View(FALSE, {Rule("resource-pool", {"p"})}, {})

Term(category, value) == [category |-> category, value |-> value]
Terms == {Term(None, "a"), Term("name", "b"), Term("type", "re"), Term("type", "qe"),
          Term("remote-type", "pve"), Term("remote-type", "pbs"), Term("view", "v1"),
          Term("status", "off"), Term("remote", "a"), Term("invalid", "a")}

MCQueries ==
    [search : [required : SeqOf(Terms, 1), optional : SeqOf(Terms, 2)],
     type : {None, "node"}, view : {None} \cup DOMAIN MCViewConfig,
     failed : {{}, {"m1"}}, allowed : {{"m1", "m2"}, {"m2"}}]

=============================================================================

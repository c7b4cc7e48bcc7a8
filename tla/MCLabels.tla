------------------------------- MODULE MCLabels -------------------------------
(***************************************************************************)
(* Bounded instance of Labels: two types that share attribute names, rules *)
(* that fail each check, chained and colliding ones, shapes behind common  *)
(* types, and limits that two documents exceed together.                   *)
(***************************************************************************)
EXTENDS Labels, TLC

CONSTANTS v, w

Host == <<"App", "Host">>
Disk == <<"App", "Disk">>
MCFields == {"name", "labels", "tags"}
MCBlank == {" "}
MCTargetValid(type, attribute) == attribute # "id"
MCRuntimeAccepts(rule) == TRUE

Pattern(name, bytes, program, hits) ==
    [name |-> name, bytes |-> bytes, program |-> program, hits |-> hits]
Prod == Pattern("prod", 1, 1, {v})
Every == Pattern("every", 1, 1, {v, w})
Long == Pattern("long", 2, 2, {w})
Huge == Pattern("huge", 1, 3, {})

Named(p, name) == [p EXCEPT !.name = name]

Rule(type, attribute, field, patterns) ==
    [type |-> type, attribute |-> attribute, field |-> field, patterns |-> patterns]
OnHost == Rule(Host, "labels", "name", <<Prod, Every>>)
OnDisk == Rule(Disk, "labels", "name", <<Long>>)
Chained == Rule(Host, "tags", "labels", <<Every>>)
Swapped == Rule(Disk, "name", "labels", <<Prod>>)

MCDocuments ==
    {<<OnHost>>, <<OnDisk>>, <<Chained>>, <<OnDisk, Swapped>>, <<>>, <<OnHost, OnHost>>,
     <<OnHost, OnDisk, Chained>>,
     <<Rule(Host, "tags", "name", <<Every, Prod, Named(Prod, "1")>>), OnHost>>,
     <<Rule(Host, "tags", "name", <<Long, Named(Long, "longer")>>), OnDisk>>,
     <<Rule(Host, "id", "name", <<Prod>>), Chained>>,
     <<Rule(Host, "tags", " ", <<Huge>>)>>,
     <<Rule(Host, "tags", "tags", <<>>)>>,
     <<Rule(Host, "tags", "name", <<Every, Prod, Every>>)>>,
     <<Rule(Disk, "tags", "name", <<Every, Prod, Named(Every, "1"), Named(Every, "2")>>)>>,
     <<Rule(Disk, "tags", "name", <<Every, Prod, Named(Prod, "1")>>)>>,
     <<Rule(Host, "tags", "name", <<Pattern(" ", 0, 1, {})>>)>>,
     <<Rule(Host, "tags", "name", <<Long, Named(Long, "longer")>>), Chained>>,
     <<Rule(Host, "tags", "name", <<Pattern("wide", 3, 1, {})>>)>>,
     <<Rule(Disk, "tags", "name", <<Named(Huge, "1"), Huge>>)>>}

Record(attributes) == [kind |-> "Record", attributes |-> attributes]
Common(namespace, base) == [kind |-> "EntityOrCommon", namespace |-> namespace, base |-> base]
NoRecord == [kind |-> "none", namespace |-> NoNamespace, base |-> ""]

Attribute(type, required) == [type |-> type, required |-> required]
Proper ==
    ("name" :> Attribute("String", TRUE)) @@ ("labels" :> Attribute("Set<String>", TRUE))
      @@ ("tags" :> Attribute("Set<EntityOrCommon String>", FALSE))
Lax == [Proper EXCEPT !["name"].required = FALSE]
Other == ("name" :> Attribute("EntityOrCommon String", TRUE)) @@ ("labels" :> Attribute("Set<Long>", FALSE))
MCSchemas ==
    {NoSchema,
     [entityTypes |-> (Host :> Record(Proper)) @@ (Disk :> Record(Other)), commonTypes |-> <<>>],
     [entityTypes |-> (Host :> Common(NoNamespace, "Shape")) @@ (Disk :> Common("Lib", "Shape")),
      commonTypes |-> (<<"App", "Shape">> :> Common("Lib", "Shape")) @@ (<<"Lib", "Shape">> :> Record(Lax))],
     [entityTypes |-> (Host :> Common(NoNamespace, "Global"))
                        @@ (Disk :> Record([Proper EXCEPT !["name"].type = "Long"])),
      commonTypes |-> (<<"", "Global">> :> Record(Proper))]}

Text(x) == [kind |-> "string", value |-> x]
Forged == [kind |-> "set", value |-> {"forged"}]
Attributes(n, l, t) == ("name" :> n) @@ ("labels" :> l) @@ ("tags" :> t)
MCResources ==
    {[type |-> type, attributes |-> Attributes(n, l, t)] :
        type \in {Host, Disk, <<"App", "Other">>}, n \in {NoValue, Text(v), Text(w)},
        l \in {NoValue, Text(v), Forged}, t \in {NoValue, Forged}}
=============================================================================

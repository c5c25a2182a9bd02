------------------------- MODULE MCOfferingDetails -------------------------
(***************************************************************************)
(* OfferingDetails for TLC: graphs of five schemas, whole and flawed; all  *)
(* pairs of Actions over a few targets; documents and Offerings that lose  *)
(* what they need when they are normalised.                                *)
(***************************************************************************)
EXTENDS OfferingDetails

MCMaximumInline == [filters |-> 1, sorts |-> 1]

Origin == [scheme |-> "https", host |-> "service"]
LocalOrigin == [scheme |-> "http", host |-> "localhost"]
Reference(scheme, host, n) ==
    [scheme |-> scheme, host |-> host, rooted |-> TRUE, user |-> FALSE, fragment |-> FALSE,
     location |-> n]
Relative(n) == Reference("", "", n)
Secured(n) == Reference("https", "schemas", n)
UrlOf(n) == Url(Secured(n), Origin)

-----------------------------------------------------------------------------
(* Documents and Offerings.                                                *)
Operation(name, authentication) ==
    [name |-> name, authentication |-> authentication, unknownMember |-> FALSE]
Plainly == <<Operation("get-offering", "not-required"), Operation("list-offerings", "not-required")>>
Document ==
    [valid |-> TRUE, operations |-> Plainly, enrollment |-> <<>>, openapi |-> NoReference,
     capabilities |-> NoCapabilities]
Offering ==
    [id |-> "o", valid |-> TRUE, schema |-> NoReference, schemaUnknownMember |-> FALSE,
     attributes |-> "none", price |-> "none", actions |-> <<>>, details |-> FALSE]
Case(doc, origin, offering, published, action) ==
    [document |-> doc, origin |-> origin, offering |-> offering, published |-> published,
     call |-> [id |-> "o", action |-> action]]

Schema(refs) ==
    [served |-> TRUE, dialect |-> TRUE, fragmentOnly |-> TRUE, bytes |-> 1, vocabularies |-> TRUE,
     compiles |-> TRUE, resources |-> {[id |-> NoReference, references |-> refs]}]
SchemaTo(ns) == Schema({Secured(n) : n \in ns})
Site(schemas) == [u \in {UrlOf(n) : n \in DOMAIN schemas} |->
                     schemas[CHOOSE n \in DOMAIN schemas : UrlOf(n) = u]]
WithSchema(attributes) == [Offering EXCEPT !.schema = Secured(1), !.attributes = attributes]
GraphCase(schemas, attributes) ==
    Case(Document, Origin, WithSchema(attributes), Site(schemas), NoAction)

(* Schema 1 is the root; 5 turns back at most; 4 may lead on, or back.     *)
Graphs ==
    {GraphCase(<<SchemaTo(s1), SchemaTo(s2), SchemaTo(s3), SchemaTo(s4), SchemaTo(s5)>>, "matching") :
        s1 \in SUBSET {2, 3, 4, 5}, s2 \in SUBSET {1, 3, 4}, s3 \in SUBSET {2, 4, 5},
        s4 \in SUBSET {2, 5}, s5 \in {{}, {2}}}

Chain(flawed) == <<SchemaTo({2, 3}), flawed, SchemaTo({})>>
Sound == SchemaTo({3})
Renamed(n, refs) == [Sound EXCEPT !.resources = {[id |-> Secured(n), references |-> refs]}]
Flawed ==
    {Nothing, [Sound EXCEPT !.dialect = FALSE], [Sound EXCEPT !.fragmentOnly = FALSE],
     [Sound EXCEPT !.bytes = 4], [Sound EXCEPT !.bytes = 3], [Sound EXCEPT !.vocabularies = FALSE],
     [Sound EXCEPT !.compiles = FALSE], Schema({Reference("http", "schemas", 3)}), Schema({Relative(3)}),
     Renamed(7, {}), Renamed(3, {Secured(3)}), Renamed(2, {Relative(3)}),
     [Sound EXCEPT !.resources = @ \cup {[id |-> Secured(8), references |-> {Secured(8), Secured(3)}]}]}
FlawedGraphs ==
    {GraphCase(Chain(flawed), a) : flawed \in Flawed, a \in {"matching", "mismatched", "none"}}
    \cup {GraphCase(<<flawed, Sound, SchemaTo({})>>, "matching") : flawed \in Flawed}

-----------------------------------------------------------------------------
(* Actions.                                                                *)
Base == [id |-> "a", authentication |-> "not-required", unknownMember |-> FALSE,
         http |-> NoTarget, openapi |-> NoTarget]
HTTP(href, method, schema) ==
    [Base EXCEPT !.http = [href |-> href, method |-> method, schema |-> schema]]
OpenAPI(url) == [Base EXCEPT !.openapi = [url |-> url, operation |-> "buy"]]
Loose == Reference("http", "localhost", 6)
Shapes ==
    {HTTP(Relative(1), "GET", NoReference), HTTP(Loose, "POST", Secured(1)),
     HTTP(Relative(1), "POST", Loose), HTTP(Relative(1), "PUT", NoReference),
     OpenAPI(NoReference), OpenAPI(Secured(2)), OpenAPI(Relative(3)), OpenAPI(Loose),
     [OpenAPI(NoReference) EXCEPT !.authentication = "later"],
     [OpenAPI(NoReference) EXCEPT !.unknownMember = TRUE]}
Unparsed == {Base, [OpenAPI(Secured(2)) EXCEPT !.http = HTTP(Loose, "GET", NoReference).http],
             HTTP(Reference("http", "service", 6), "GET", NoReference)}

API(operations) == [served |-> TRUE, version |-> TRUE, valid |-> TRUE, operations |-> operations]
Buy(path) == [path |-> path, method |-> "post", id |-> "buy"]
Apis == {API({}), API({Buy("/a")}), API({Buy("/a"), Buy("/b")}),
         [API({Buy("/a")}) EXCEPT !.version = FALSE], [API({Buy("/a")}) EXCEPT !.valid = FALSE]}
Defaults == {NoReference, Secured(2), Loose}

ActionsOf(list, default, origin, api, action) ==
    Case([Document EXCEPT !.openapi = default], origin, [Offering EXCEPT !.actions = list],
         (UrlOf(1) :> SchemaTo({}) @@ UrlOf(2) :> api), action)
Pairs == {<<a, [b EXCEPT !.id = id]>> : a \in Shapes, b \in Shapes, id \in {"a", "b"}}
ActionCases ==
    {ActionsOf(pair, default, origin, API({Buy("/a")}), action) :
        pair \in Pairs, default \in Defaults, origin \in {Origin, LocalOrigin},
        action \in {"b", NoAction}}
    \cup {ActionsOf(<<OpenAPI(Secured(2))>>, NoReference, Origin, api, "a") : api \in Apis}
    \cup {ActionsOf(<<a>>, NoReference, Origin, API({}), NoAction) : a \in Unparsed}

-----------------------------------------------------------------------------
(* What normalisation costs.                                               *)
Lossy ==
    {[Document EXCEPT !.operations = <<Operation("list-offerings", "not-required"), op>>] :
        op \in {Operation("get-offering", "later"), Operation("get-offerings", "not-required"),
                Operation("list-offerings", "not-required"),
                [Operation("get-offering", "optional") EXCEPT !.unknownMember = TRUE],
                Operation("get-offering", "optional")}}
    \cup {[Document EXCEPT !.operations[1].authentication = "required", !.enrollment = names] :
             names \in {<<"later">>, <<"later", "aep">>}}
    \cup {[Document EXCEPT !.valid = FALSE]}
Lost ==
    {[WithSchema(a) EXCEPT !.schemaUnknownMember = TRUE] : a \in {"none", "matching"}}
    \cup {[Offering EXCEPT !.price = "auction"], [Offering EXCEPT !.details = TRUE],
          [Offering EXCEPT !.id = "other"], [Offering EXCEPT !.valid = FALSE],
          [WithSchema("matching") EXCEPT !.schema = Loose],
          [Offering EXCEPT !.actions = [i \in 1..3 |-> OpenAPI(Secured(i))]]}
Losses == {Case(d, Origin, Offering, [u \in {} |-> Nothing], NoAction) : d \in Lossy}
          \cup {Case(Document, Origin, o, Site(<<SchemaTo({})>>), NoAction) : o \in Lost}

MCCases == Graphs \cup FlawedGraphs \cup ActionCases \cup Losses
=============================================================================

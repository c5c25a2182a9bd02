-------------------------- MODULE MCServedCatalog --------------------------
(***************************************************************************)
(* ServedCatalog for TLC: a static catalog of three Offerings, traversed   *)
(* with and without a configured key; every hierarchy of three Collections;*)
(* an application's catalog probed with requests that each depart from a   *)
(* plain one in one respect; and options New refuses.                      *)
(***************************************************************************)
EXTENDS ServedCatalog

en == <<"en">>
fr == <<"fr">>
At(range, q) == [range |-> range, q |-> q]
OdpOnly == <<At("application/odp+json", <<>>)>>

MCLimits ==
    [document |-> [bytes |-> 1, depth |-> 1], resource |-> [bytes |-> 2, depth |-> 1],
     request |-> [bytes |-> 1, depth |-> 1], next |-> 1]

Document ==
    [valid |-> TRUE, language |-> en, localizations |-> <<en, fr>>, keywords |-> 0,
     searchCapabilities |-> FALSE, enrollment |-> TRUE, bytes |-> 1, depth |-> 1, authExpands |-> FALSE]
Options(handlers, authentication) ==
    [handlers |-> handlers, authentication |-> authentication, document |-> Document]

-----------------------------------------------------------------------------
(* Static catalogs.                                                        *)
Item(id, collections, actions) ==
    [id |-> id, valid |-> TRUE, actions |-> actions, details |-> FALSE, language |-> NoTag,
     collections |-> collections]
ThreeOfferings ==
    <<Item("o1", {"c"}, <<"buy">>), Item("o2", {}, <<>>), Item("o3", {"c"}, <<>>)>>
MCLists == {SubSeq(ThreeOfferings, 1, 1), ThreeOfferings}
Catalog(list, parents, keyLength) ==
    [kind |-> "static", offerings |-> list,
     collections |-> SetToSeq({Item(c, {}, <<>>) : c \in DOMAIN parents}),
     parents |-> parents, keyLength |-> keyLength]
OneCollection == [c \in {"c"} |-> {}]

Traversals ==
    {AgentRequest("list-offerings", NoId, "full", 1, {}),
     AgentRequest("list-collection-offerings", "c", "terse", 1, {}),
     [AgentRequest("list-offerings", NoId, "terse", 1, {}) EXCEPT !.location.query.limit = <<>>]}
Singles ==
    {AgentRequest("list-collections", NoId, "terse", 1, {}),
     AgentRequest("list-collection-offerings", "d", "terse", 1, {}),
     AgentRequest("get-collection", "c", "terse", 0, {}),
     AgentRequest("get-offering", "o1", "full", 0, {}),
     AgentRequest("get-offering", "o4", "full", 0, {})}

StaticCase(list, parents, keyLength, requests) ==
    [options |-> Options(Static!Handlers(<<"some">>), [operation \in {} |-> "required"]),
     catalog |-> Catalog(list, parents, keyLength), requests |-> requests]
StaticCases ==
    {StaticCase(ThreeOfferings, OneCollection, k, Traversals \cup Singles) : k \in {0, 32}} \cup
    {StaticCase(ThreeOfferings, OneCollection, 31, {}),
     StaticCase(ThreeOfferings \o ThreeOfferings, OneCollection, 32, {})} \cup
    {StaticCase(<<>>, parents, 32, {}) : parents \in [{"c", "d", "e"} -> SUBSET {"c", "d", "e"}]}
    \cup {StaticCase(ThreeOfferings, [c \in {"c"} |-> {"f"}], 32, {}),
          StaticCase(ThreeOfferings, [c \in {"d"} |-> {}], 32, {})}

-----------------------------------------------------------------------------
(* An application's catalog: everything is advertised, getting an Offering *)
(* may be authenticated.                                                   *)
AllOptions(authentication) == Options(Operations, authentication)
Offers == AllOptions([operation \in {"get-offering"} |-> "optional"])

Listed == AgentRequest("list-offerings", NoId, "terse", 1, {})
Searched == AgentRequest("search-offerings", NoId, "full", 1, {"price"})
Got == AgentRequest("get-offering", "o1", "full", 0, {})
Asking(r, path) == [r EXCEPT !.location.path = path, !.asked = NotFound]
Carrying(r, field, values) == [r EXCEPT !.location.query[field] = values]
Cursor == <<[signed |-> "application", state |-> 0]>>

Probes ==
    {Listed, Searched, Got, [Got EXCEPT !.method = "HEAD"],
     AgentRequest("search-collections", NoId, "terse", 0, {}),
     [Listed EXCEPT !.wire = "http"],
     [Listed EXCEPT !.wire = "http", !.published = "http", !.host = "localhost"],
     [Got EXCEPT !.conditions = {AnyEntityTag}],
     [Listed EXCEPT !.languages = <<At(<<"fr", "x", "q">>, <<500>>), At(en, <<100>>)>>],
     [Listed EXCEPT !.languages = <<At(AnyTag, <<>>), At(en, <<0>>)>>],
     [Listed EXCEPT !.languages = <<At(<<"de">>, <<>>), At(fr, <<Malformed>>)>>],
     [Carrying(Searched, "cursor", Cursor) EXCEPT !.method = "GET"]}
Refusable ==
    {[Listed EXCEPT !.accept = <<At("*/*", <<>>), At("application/odp+json", <<0>>)>>],
     [Listed EXCEPT !.accept = <<At("text/html", <<>>)>>],
     [Listed EXCEPT !.method = "POST"], [Listed EXCEPT !.method = "DELETE"],
     Asking(Listed, <<"elsewhere">>), Asking(Listed, <<"base">>),
     Asking(Listed, UnderBase(<<"offerings", "">>)),
     Asking(Listed, UnderBase(<<"offerings", "o 1">>)),
     Asking(Listed, UnderBase(<<"collections", "c", "offerings", "x">>)),
     AgentRequest("get-offering", "search", "full", 0, {}),
     Carrying(Listed, "limit", <<0>>), Carrying(Listed, "limit", <<2, 1>>),
     Carrying(Listed, "representation", <<"brief">>),
     Carrying(Listed, "representation", <<"full", "full">>),
     Carrying(Listed, "cursor", Cursor \o Cursor),
     Carrying(Searched, "limit", <<1>>), [Searched EXCEPT !.typed = FALSE],
     [Searched EXCEPT !.body.bytes = 2], [Searched EXCEPT !.body.depth = 2],
     [Searched EXCEPT !.body.text = FALSE], [Searched EXCEPT !.body.valid = FALSE]}
Documents == {Asking(Listed, WellKnown), [Asking(Listed, WellKnown) EXCEPT !.method = "POST"]}

ApplicationCase(options, requests) ==
    [options |-> options, requests |-> requests,
     catalog |-> [kind |-> "application", offerings |-> <<>>]]
ApplicationCases ==
    {ApplicationCase(Offers, Probes \cup Refusable \cup Documents),
     ApplicationCase(Options(Required, [operation \in {} |-> "required"]),
                     {Searched, AgentRequest("get-collection", "c", "full", 0, {})}),
     ApplicationCase(Options({"get-offering"}, [operation \in {} |-> "required"]), {}),
     ApplicationCase(Options(Required, [operation \in {"search-offerings"} |-> "required"]), {}),
     ApplicationCase([Offers EXCEPT !.document.bytes = 2], {}),
     ApplicationCase([Offers EXCEPT !.document.enrollment = FALSE], {}),
     ApplicationCase([Offers EXCEPT !.document.valid = FALSE], {}),
     ApplicationCase([Offers EXCEPT !.document.localizations = <<fr>>], {}),
     ApplicationCase([Options(Required, [operation \in {} |-> "required"])
                         EXCEPT !.document.searchCapabilities = TRUE], {})}

MCCases == StaticCases \cup ApplicationCases

-----------------------------------------------------------------------------
(* What an application may return.                                         *)
Page(items, next, refinements) ==
    [kind |-> "page", page |-> [items |-> items, next |-> next, refinements |-> refinements,
                                authExpands |-> FALSE, bytes |-> 2, depth |-> 1]]
Next1 ==
    [scheme |-> "", host |-> "", rooted |-> TRUE, user |-> FALSE, fragment |-> FALSE,
     printable |-> TRUE, length |-> 1,
     location |-> [path |-> UnderBase(<<"offerings">>),
                   query |-> [representation |-> <<>>, limit |-> <<>>, cursor |-> Cursor]]]
Absolute(scheme, host) == [Next1 EXCEPT !.scheme = scheme, !.host = host]
Nexts ==
    {NoNext, Next1, Absolute("https", "service"), Absolute("http", "service"),
     Absolute("https", "other"), Absolute("https", "localhost"), Absolute("http", "localhost"),
     Absolute("", "service"),
     [Next1 EXCEPT !.rooted = FALSE], [Absolute("https", "service") EXCEPT !.user = TRUE],
     [Next1 EXCEPT !.fragment = TRUE], [Next1 EXCEPT !.printable = FALSE],
     [Next1 EXCEPT !.length = 2], [Next1 EXCEPT !.location = Listed.location]}
Sound == Item("o1", {}, <<>>)
Resource(item) ==
    [kind |-> "resource",
     resource |-> [item |-> item, authExpands |-> FALSE, bytes |-> 1, depth |-> 1]]
Failing(status, code, header) == ProblemWith(status, code, header)

MCAnswers ==
    {Page(<<Sound>>, next, <<>>) : next \in Nexts} \cup
    {Page(<<Sound>>, NoNext, groups) : groups \in {<<"price">>, <<"size">>, <<"price", "price">>}} \cup
    {Page(<<>>, NoNext, <<>>), Page(<<Sound, Sound>>, NoNext, <<>>),
     Page(<<Sound, Sound, Sound>>, NoNext, <<>>),
     Page(<<[Sound EXCEPT !.valid = FALSE]>>, NoNext, <<>>),
     Page(<<[Sound EXCEPT !.actions = <<"buy">>]>>, NoNext, <<>>),
     Page(<<[Sound EXCEPT !.details = TRUE]>>, NoNext, <<>>),
     [Page(<<>>, NoNext, <<>>) EXCEPT !.page.bytes = 3],
     [Page(<<Sound>>, NoNext, <<>>) EXCEPT !.page.authExpands = TRUE],
     [kind |-> "absent"], [kind |-> "unexpected"],
     Resource(Sound), Resource([Sound EXCEPT !.language = fr]), Resource([Sound EXCEPT !.id = "o2"]),
     Resource([Sound EXCEPT !.actions = <<"buy", "buy">>]),
     Resource([Sound EXCEPT !.details = TRUE]),
     [Resource(Sound) EXCEPT !.resource.depth = 2],
     Failing(429, "BUSY", {"Retry-After"}), Failing(429, MalformedCode, {"Retry-After"}),
     Failing(412, "OWN", {}), Failing(406, "OWN", {}),
     Failing(200, "FINE", {}), Failing(503, "DOWN", {})}

MCHeaders ==
    {[accept |-> OdpOnly, languages |-> <<>>, authorization |-> "alice"],
     [accept |-> OdpOnly, languages |-> <<At(fr, <<>>)>>, authorization |-> "bob"],
     [accept |-> <<At("text/html", <<>>)>>, languages |-> <<>>, authorization |-> "alice"]}
MCAlterations ==
    {[limit |-> <<2>>, representation |-> <<"full">>],
     [limit |-> <<1>>, representation |-> <<"terse">>]}
=============================================================================

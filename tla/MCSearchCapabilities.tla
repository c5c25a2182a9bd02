------------------------ MODULE MCSearchCapabilities ------------------------
(***************************************************************************)
(* SearchCapabilities for TLC: every pair of a Service's and a Collection's*)
(* sources from a few, over linked pages that end, repeat, exceed, loop,   *)
(* lead away or change while they are read; and documents that lose what   *)
(* they need when they are normalised.                                     *)
(***************************************************************************)
EXTENDS SearchCapabilities

MCMaximumOf == [filters |-> 3, sorts |-> 2]
MCMaximumInline == [filters |-> 2, sorts |-> 1]

Origin == [scheme |-> "https", host |-> "service"]
Reference(host, n) ==
    [scheme |-> IF host = "" THEN "" ELSE "https", host |-> host, rooted |-> TRUE, user |-> FALSE,
     fragment |-> FALSE, location |-> n]
At(n) == [scheme |-> "https", host |-> "service", location |-> n]

Filter(id, type) ==
    [id |-> id, type |-> type, operators |-> {"eq"}, unit |-> "none", valid |-> TRUE]
Sort(id, filter) ==
    [id |-> id, valid |-> TRUE,
     keys |-> <<[filter |-> filter, direction |-> "ascending", missing |-> "last"]>>]
Later(id) == {[Filter(id, "string") EXCEPT !.operators = {"eq", "near"}], Filter(id, "geometry"),
              [Filter(id, "string") EXCEPT !.unit = "imperial"]}
LaterSort(id) == [Sort(id, 1) EXCEPT !.keys[1].missing = "random"]

Inline(values) == [kind |-> "inline", values |-> values]
Linked(n) == [kind |-> "linked", href |-> Reference("", n)]

-----------------------------------------------------------------------------
(* The Service's documents.                                                *)
Operation(name) == [name |-> name, authentication |-> "not-required", unknownMember |-> FALSE]
All == <<Operation("get-offering"), Operation("list-offerings"), Operation("get-collection"),
         Operation("search-offerings")>>
Document(capabilities) ==
    [valid |-> TRUE, operations |-> All, enrollment |-> <<>>, openapi |-> NoReference,
     capabilities |-> capabilities]
Capabilities(filterSource, sortSource) ==
    IF filterSource = NoSource /\ sortSource = NoSource THEN NoCapabilities
    ELSE [filters |-> filterSource, sorts |-> sortSource, unknownMember |-> FALSE]
Collection(capabilities) ==
    [id |-> "c", valid |-> TRUE, details |-> FALSE, capabilities |-> capabilities]

(* Page 1 leads on to 2, and 2 to 3 perhaps; 4 leads away; 5 has sorts.    *)
Page(items, link) == [items |-> items, next |-> link]
Pages2 ==
    {Page(<<Filter(2, "date")>>, NoNext), Page(<<Filter(1, "date")>>, NoNext),
     Page(<<>>, Reference("", 1)), Page(<<>>, Reference("service", 3)),
     Page(<<[Filter(2, "date") EXCEPT !.valid = FALSE]>>, NoNext),
     Page(<<Filter(3, "date"), Filter(2, "date")>>, Reference("", 3))}
PagesWith(second) ==
    (At(1) :> Page(<<Filter(1, "number")>>, Reference("", 2)) @@ At(2) :> second
     @@ At(3) :> Page(<<Filter(3, "date")>>, Reference("", 6))
     @@ At(4) :> Page(<<>>, Reference("other", 1))
     @@ At(5) :> Page(<<Sort(1, 3), LaterSort(1)>>, NoNext)
     @@ At(6) :> Page(<<>>, NoNext))
Edition(capabilities, ofCollection, second) ==
    [document |-> Document(capabilities), collection |-> Collection(ofCollection),
     pages |-> PagesWith(second)]
Case(editions, id) == [origin |-> Origin, id |-> id, editions |-> editions]

-----------------------------------------------------------------------------
OneFilter == Inline(<<Filter(1, "string")>>)
FilterSources == {NoSource, OneFilter, Linked(1), Linked(4),
                  Inline(<<Filter(2, "string"), Filter(3, "string")>>)}
SortSources == {NoSource, Inline(<<Sort(1, 1)>>), Inline(<<Sort(2, 2)>>), Linked(5)}
Pairs ==
    {Case(<<Edition(Capabilities(f1, s1), Capabilities(f2, s2), second)>>, "c") :
        f1 \in FilterSources, f2 \in FilterSources, s1 \in SortSources, s2 \in SortSources,
        second \in Pages2}
Changing ==
    {Case(<<Edition(Capabilities(Linked(1), s), Capabilities(OneFilter, NoSource), first),
            Edition(again, NoCapabilities, second)>>, id) :
        s \in SortSources, id \in {NoId, "c"}, first \in Pages2, second \in Pages2,
        again \in {NoCapabilities, Capabilities(OneFilter, NoSource)}}

(* Alone: sources that normalisation, or their schema, takes away.         *)
Alone ==
    {Inline(<<v>>) : v \in Later(1)}
    \cup {Inline(<<Filter(1, "string"), v>>) : v \in Later(1) \cup {Filter(1, "date")}}
    \cup {Inline(<<Filter(1, "date"), Filter(2, "date"), Filter(3, "date")>>),
          Inline(<<[Filter(1, "string") EXCEPT !.valid = FALSE]>>),
          [Linked(1) EXCEPT !.href.fragment = TRUE]}
LaterMembers ==
    [Capabilities(Inline(<<Filter(1, "geometry")>>), NoSource) EXCEPT !.unknownMember = TRUE]
AloneCases ==
    {Case(<<Edition(Capabilities(f, NoSource), NoCapabilities, Page(<<>>, NoNext))>>, NoId) : f \in Alone}
    \cup {Case(<<Edition(c, NoCapabilities, Page(<<>>, NoNext))>>, NoId) : c \in {LaterMembers}}

(* Without search-offerings, or without the Collection asked for.          *)
Unsearchable ==
    LET plain == Edition(NoCapabilities, Capabilities(OneFilter, NoSource), Page(<<>>, NoNext))
    IN  {Case(<<[plain EXCEPT !.document.operations = SubSeq(@, 1, n)]>>, id) :
             n \in {2, 3}, id \in {NoId, "c"}}
        \cup {Case(<<plain, [plain EXCEPT !.document.operations = SubSeq(@, 1, 3)]>>, "c"),
              Case(<<plain>>, "c c"), Case(<<plain>>, "d"),
              Case(<<[plain EXCEPT !.collection.details = TRUE]>>, "c"),
              Case(<<[plain EXCEPT !.document.capabilities = Capabilities(OneFilter, NoSource),
                                   !.document.operations = SubSeq(@, 1, 3)]>>, "c")}

MCCases == Pairs \cup Changing \cup AloneCases \cup Unsearchable
=============================================================================

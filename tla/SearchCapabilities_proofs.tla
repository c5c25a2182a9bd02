----------------------- MODULE SearchCapabilities_proofs -----------------------
(***************************************************************************)
(* Theorems about SearchCapabilities, for any sources and linked pages, any*)
(* limits, and a Service that publishes something else at any time.        *)
(***************************************************************************)
EXTENDS SearchCapabilities, SequenceLemmas

(* A source as it passed its schema, and capabilities as they did.         *)
ParsedSource(source) ==
    \/ source.kind = "inline" /\ AreDefinitions(source.values)
    \/ source.kind = "linked" /\ source.href # NoReference
ParsedCapabilities(capabilities) ==
    \/ capabilities = NoCapabilities
    \/ \A source \in {capabilities.filters, capabilities.sorts} :
           source.kind = "none" \/ ParsedSource(source)

SettingInv ==
    /\ setting \in Cases /\ edition \in DOMAIN setting.editions
    /\ ParsedCapabilities(collection.capabilities)

(* Nothing is there before the sources are; of a kind there are two at     *)
(* most, the Service's and then the Collection's.                          *)
Asking == phase \in {"getting", "fetching", "inspecting"}
Composing == phase \in {"composing", "loading"}
AreSources(all) ==
    /\ IsList(all)
    /\ \A i \in DOMAIN all :
           /\ all[i].of \in Kinds /\ all[i].scope \in {"service", "collection"}
           /\ ParsedSource(all[i].published)
    /\ \A i, j \in DOMAIN all : i < j /\ all[i].of = all[j].of =>
           all[i].scope = "service" /\ all[j].scope = "collection"
SourcesInv == AreSources(sources)

(* The pages of a source are there when its turn comes, and no page twice. *)
ArePages(pages) ==
    /\ IsList(pages) /\ Len(pages) <= MaximumPages
    /\ \A page \in ToSet(pages) : AreDefinitions(page.items)
    /\ \A i, j \in DOMAIN pages : pages[i].address = pages[j].address => i = j
ReadingInv ==
    /\ position \in 1..(Len(sources) + 1)
    /\ DOMAIN taken = DOMAIN sources
    /\ \A i \in DOMAIN sources : ArePages(taken[i])
    /\ phase = "composing" /\ position \in DOMAIN sources => taken[position] = <<>>
    /\ \A i \in DOMAIN sources : i > position => taken[i] = <<>>
    /\ phase = "loading" =>
           /\ position \in DOMAIN sources /\ sources[position].published.kind = "linked"
           /\ IF taken[position] = <<>> THEN next # NoNext ELSE Last(taken[position]).next = next

(* What is exposed of a kind is what exactly one of its usable sources     *)
(* before the position publishes, as that one defines it; and what is not, *)
(* was reported.                                                           *)
Before(kind) == {i \in UsableSources(kind) : i < position}
Given(i) == Identifiers(ValuesOf(i))
PublishedBefore(kind) == UNION {Given(i) : i \in Before(kind)}
OnceBefore(kind) ==
    {id \in PublishedBefore(kind) :
        \A i, j \in Before(kind) : id \in Given(i) /\ id \in Given(j) => i = j}
Contested(kind) == PublishedBefore(kind) \ OnceBefore(kind)
GivenAs(i, id, entry) ==
    /\ entry.definition \in ToSet(ValuesOf(i)) /\ entry.definition.id = id
    /\ entry.scope = sources[i].scope
IsReported(i) ==
    \E issue \in ToSet(issues) :
        /\ issue.scope = sources[i].scope /\ issue.kind = sources[i].of
        /\ "reason" \in DOMAIN issue.about
ExposedOf(kind) ==
    /\ IsFiniteSet(DOMAIN Exposed(kind))
    /\ Cardinality(DOMAIN Exposed(kind)) <= MaximumOf[kind]
    /\ DOMAIN Exposed(kind) = OnceBefore(kind)
    /\ \A id \in DOMAIN Exposed(kind) : \E i \in Before(kind) : GivenAs(i, id, Exposed(kind)[id])
    /\ Contested(kind) # {} => Issue("collection", kind, Naming(Contested(kind))) \in ToSet(issues)
ExposedInv ==
    Composing => /\ \A kind \in Kinds : ExposedOf(kind)
                 /\ \A i \in DOMAIN sources :
                        i < position => i \in UsableSources(sources[i].of) \/ IsReported(i)

IssuesInv ==
    /\ IsList(issues)
    /\ \A issue \in ToSet(issues) : issue.scope \in {"service", "collection"} /\ issue.kind \in Kinds
StartInv ==
    /\ phase \in {"composing", "loading", "returned", "failed"} \/ Asking
    /\ Asking \/ phase = "failed" => /\ sources = <<>> /\ issues = <<>> /\ filters = Empty
                                     /\ sorts = Empty
    /\ phase \in {"getting", "fetching"} => collection = NoCollection

(* What is returned, with what no number of sources may go beyond.         *)
ReturnedInv ==
    /\ ExposedIsUnambiguous
    /\ phase = "returned" => \A kind \in Kinds : Cardinality(DOMAIN Exposed(kind)) <= MaximumOf[kind]

IInv ==
    /\ SettingInv /\ SourcesInv /\ ReadingInv /\ ExposedInv /\ IssuesInv /\ StartInv
    /\ ReturnedInv

-----------------------------------------------------------------------------
(* Lists, and the definitions of a source: some of them are a source still,*)
(* and their identifiers count as many as they are when none is there twice*)
LEMMA ListOfItsOwn == ASSUME NEW S, NEW s \in Seq(S) PROVE IsList(s) /\ ToSet(s) \subseteq S
BY DEF IsList, ToSet

LEMMA Listed ==
    ASSUME NEW s, IsList(s)
    PROVE  /\ Len(s) \in Nat /\ DOMAIN s = 1..Len(s) /\ s \in Seq(ToSet(s))
           /\ \A i \in DOMAIN s : s[i] \in ToSet(s)
           /\ \A x \in ToSet(s) : \E i \in DOMAIN s : s[i] = x
BY DEF IsList, ToSet

LEMMA ListExtended ==
    ASSUME NEW s, IsList(s), NEW e
    PROVE  IsList(Append(s, e)) /\ ToSet(Append(s, e)) = ToSet(s) \cup {e}
<1> DEFINE S == ToSet(s) \cup {e}
<1>1. s \in Seq(S) /\ e \in S BY DEF IsList
<1> HIDE DEF S
<1>2. Append(s, e) \in Seq(S) BY <1>1
<1>3. IsList(Append(s, e)) BY <1>2, ListOfItsOwn
<1>4. ToSet(Append(s, e)) = ToSet(s) \cup {e} BY <1>1, SetOfAppend
<1>5. QED BY <1>3, <1>4

Keeps(values, known, n, f) ==
    f = [k \in 0..n |-> IF k = 0 THEN <<>>
                        ELSE IF values[k] \in known THEN Append(f[k - 1], values[k])
                        ELSE f[k - 1]]

LEMMA KeepingExists ==
    ASSUME NEW values, NEW known, NEW n \in Nat PROVE \E f : Keeps(values, known, n, f)
<1> DEFINE T == {k \in Nat : \E f : Keeps(values, known, k, f)}
<1>1. 0 \in T
  <2>1. Keeps(values, known, 0, [k \in 0..0 |-> <<>>]) BY DEF Keeps
  <2>2. QED BY <2>1
<1>2. ASSUME NEW m \in Nat, m \in T PROVE m + 1 \in T
  <2>1. PICK f : Keeps(values, known, m, f) BY <1>2
  <2> DEFINE step(e, k) == IF values[k] \in known THEN Append(e, values[k]) ELSE e
             g == [k \in 0..(m + 1) |-> IF k <= m THEN f[k] ELSE step(f[m], k)]
  <2>2. f[0] = <<>> /\ \A k \in 1..m : f[k] = step(f[k - 1], k)
    <3>1. \A k \in 0..m : f[k] = IF k = 0 THEN <<>> ELSE step(f[k - 1], k)
      BY <2>1 DEF Keeps
    <3>2. 0 \in 0..m /\ \A k \in 1..m : k \in 0..m /\ k # 0 OBVIOUS
    <3> HIDE DEF step
    <3>3. QED BY <3>1, <3>2
  <2> HIDE DEF step
  <2>3. \A k \in 0..(m + 1) : g[k] = IF k = 0 THEN <<>> ELSE step(g[k - 1], k)
    <3>1. g[0] = <<>> BY <2>2
    <3>2. \A k \in 1..m : g[k] = f[k] /\ g[k - 1] = f[k - 1] OBVIOUS
    <3>3. g[m + 1] = step(f[m], m + 1) /\ g[(m + 1) - 1] = f[m] OBVIOUS
    <3>4. \A k \in 0..(m + 1) : k = 0 \/ k \in 1..m \/ k = m + 1 OBVIOUS
    <3> HIDE DEF g
    <3>5. QED BY <2>2, <3>1, <3>2, <3>3, <3>4
  <2>4. g = [k \in 0..(m + 1) |-> IF k = 0 THEN <<>> ELSE step(g[k - 1], k)]
    <3>1. g = [k \in 0..(m + 1) |-> g[k]] OBVIOUS
    <3> HIDE DEF g
    <3>2. QED BY <2>3, <3>1
  <2>5. Keeps(values, known, m + 1, g) BY <2>4 DEF Keeps, step
  <2>6. QED BY <2>5
<1>3. QED
  <2> HIDE DEF T
  <2>1. Nat \subseteq T BY <1>1, <1>2, SetInduction
  <2>2. QED BY <2>1 DEF T

LEMMA KeptListed ==
    ASSUME NEW values, IsList(values), NEW known
    PROVE  IsList(Kept(values, known)) /\ ToSet(Kept(values, known)) \subseteq ToSet(values)
<1> DEFINE n == Len(values)
           F == CHOOSE f : Keeps(values, known, n, f)
           T == {k \in Nat : k <= n => F[k] \in Seq(ToSet(values))}
<1>1. n \in Nat /\ \A k \in 1..n : values[k] \in ToSet(values) BY Listed
<1>2. Kept(values, known) = F[n] BY DEF Kept, Keeps
<1>3. Keeps(values, known, n, F) BY <1>1, KeepingExists
<1>4. 0 \in T
  <2>1. 0 \in 0..n BY <1>1
  <2> HIDE DEF F, n
  <2>2. F[0] = <<>> BY <1>3, <2>1 DEF Keeps
  <2>3. <<>> \in Seq(ToSet(values)) OBVIOUS
  <2>4. QED BY <2>2, <2>3
<1>5. ASSUME NEW k \in Nat, k \in T PROVE k + 1 \in T
  <2> SUFFICES ASSUME k + 1 <= n PROVE F[k + 1] \in Seq(ToSet(values)) OBVIOUS
  <2>1. F[k] \in Seq(ToSet(values)) BY <1>1, <1>5
  <2>2. F[k + 1] = IF values[k + 1] \in known THEN Append(F[k], values[k + 1]) ELSE F[k]
    <3>1. k + 1 \in 0..n /\ k + 1 # 0 /\ (k + 1) - 1 = k BY <1>1
    <3> HIDE DEF F, n
    <3>2. QED BY <1>3, <3>1 DEF Keeps
  <2>3. values[k + 1] \in ToSet(values) BY <1>1
  <2> HIDE DEF F
  <2>4. QED BY <2>1, <2>2, <2>3
<1>6. F[n] \in Seq(ToSet(values))
  <2> HIDE DEF T, F
  <2>1. Nat \subseteq T BY <1>4, <1>5, SetInduction
  <2>2. QED BY <1>1, <2>1 DEF T
<1> HIDE DEF F
<1>7. QED BY <1>2, <1>6, ListOfItsOwn

LEMMA KnownAreDefinitions ==
    ASSUME NEW values, AreDefinitions(values), NEW kind PROVE AreDefinitions(Known(kind, values))
BY KeptListed DEF AreDefinitions, Known

LEMMA IdentifiersCounted ==
    ASSUME NEW values, AreDefinitions(values)
    PROVE  /\ Len(values) \in Nat /\ IsFiniteSet(Identifiers(values))
           /\ Cardinality(Identifiers(values)) \in Nat
           /\ Cardinality(Identifiers(values)) <= Len(values)
           /\ Identifiers(values) = {v.id : v \in ToSet(values)}
           /\ ~Repeats(values) =>
                  /\ Cardinality(Identifiers(values)) = Len(values)
                  /\ \A v, w \in ToSet(values) : v.id = w.id => v = w
<1> DEFINE D == DOMAIN values
           I == Identifiers(values)
           f == [i \in D |-> values[i].id]
<1>1. Len(values) \in Nat /\ D = 1..Len(values) BY Listed DEF AreDefinitions
<1>2. IsFiniteSet(D) /\ Cardinality(D) = Len(values)
  <2>1. IsFiniteSet(1..Len(values)) /\ Cardinality(1..Len(values)) = IF 1 > Len(values) THEN 0 ELSE Len(values) - 1 + 1
    BY <1>1, FS_Interval
  <2>2. QED BY <1>1, <2>1
<1>3. f \in Surjection(D, I) BY DEF Surjection, Identifiers
<1>4. /\ IsFiniteSet(I) /\ Cardinality(I) <= Cardinality(D)
      /\ Cardinality(I) = Cardinality(D) <=> f \in Injection(D, I)
  <2> HIDE DEF D, I, f
  <2>1. QED BY <1>2, <1>3, FS_Surjection
<1>5. Cardinality(I) \in Nat BY <1>4, FS_CardinalityType
<1>6. Identifiers(values) = {v.id : v \in ToSet(values)} BY DEF Identifiers, ToSet
<1>7. ASSUME ~Repeats(values)
      PROVE  Cardinality(I) = Len(values) /\ \A v, w \in ToSet(values) : v.id = w.id => v = w
  <2>1. Cardinality(I) = Len(values) BY <1>1, <1>2, <1>4, <1>5, <1>7 DEF Repeats
  <2>2. f \in Injection(D, I) BY <1>2, <1>4, <2>1
  <2>3. \A i, j \in D : values[i].id = values[j].id => i = j
    <3>1. \A i, j \in D : f[i] = f[j] => i = j
      <4> HIDE DEF f, D, I
      <4>1. QED BY <2>2 DEF Injection, IsInjective
    <3>2. \A i \in D : f[i] = values[i].id OBVIOUS
    <3> HIDE DEF f, D
    <3>3. QED BY <3>1, <3>2
  <2>4. QED BY <2>1, <2>3 DEF ToSet
<1>8. QED BY <1>1, <1>2, <1>4, <1>5, <1>6, <1>7

-----------------------------------------------------------------------------
(* What a document, a Collection and a page are once they passed.          *)
LEMMA NormalSourceParsed ==
    ASSUME NEW kind \in Kinds, NEW source, IsSource(source), NEW maximum,
           SourceParses(NormalSource(kind, source), maximum)
    PROVE  NormalSource(kind, source).kind = "none" \/ ParsedSource(NormalSource(kind, source))
<1> DEFINE kept == Known(kind, source.values)
           normal == NormalSource(kind, source)
<1>1. CASE source = NoSource
  <2>1. source.kind = "none" BY <1>1 DEF NoSource
  <2>2. normal = source BY <2>1 DEF NormalSource
  <2>3. QED BY <2>1, <2>2
<1>2. CASE source.kind = "inline" /\ {"kind", "values"} \subseteq DOMAIN source /\ AreDefinitions(source.values)
  <2>1. AreDefinitions(kept) BY <1>2, KnownAreDefinitions
  <2> HIDE DEF kept
  <2>2. normal = IF kept = <<>> THEN NoSource ELSE [source EXCEPT !.values = kept]
    BY <1>2 DEF NormalSource, kept
  <2>3. kept = <<>> => normal.kind = "none" BY <2>2 DEF NoSource
  <2>4. kept # <<>> => normal.kind = "inline" /\ normal.values = kept BY <1>2, <2>2
  <2>5. QED BY <2>1, <2>3, <2>4 DEF ParsedSource
<1>3. CASE source.kind = "linked"
  <2>1. normal = source BY <1>3 DEF NormalSource
  <2>2. source.href # NoReference BY <1>3, <2>1 DEF SourceParses
  <2>3. QED BY <1>3, <2>1, <2>2 DEF ParsedSource
<1>4. QED BY <1>1, <1>2, <1>3 DEF IsSource

LEMMA NormalCapabilitiesParsed ==
    ASSUME NEW capabilities, AreCapabilities(capabilities),
           CapabilitiesParse(NormalCapabilities(capabilities))
    PROVE  ParsedCapabilities(NormalCapabilities(capabilities))
<1> DEFINE fs == NormalSource("filters", capabilities.filters)
           ss == NormalSource("sorts", capabilities.sorts)
           normal == NormalCapabilities(capabilities)
<1>1. CASE normal = NoCapabilities BY <1>1 DEF ParsedCapabilities
<1>2. CASE normal # NoCapabilities
  <2>1. /\ capabilities # NoCapabilities
        /\ normal = [capabilities EXCEPT !.filters = fs, !.sorts = ss]
    BY <1>2 DEF NormalCapabilities
  <2>2. /\ {"filters", "sorts"} \subseteq DOMAIN capabilities
        /\ IsSource(capabilities.filters) /\ IsSource(capabilities.sorts)
    BY <2>1 DEF AreCapabilities
  <2>3. normal.filters = fs /\ normal.sorts = ss
    <3> HIDE DEF fs, ss
    <3>1. QED BY <2>1, <2>2
  <2>4. SourceParses(normal.filters, MaximumInline.filters) /\ SourceParses(normal.sorts, MaximumInline.sorts)
    BY <1>2 DEF CapabilitiesParse
  <2>5. fs.kind = "none" \/ ParsedSource(fs) BY <2>2, <2>3, <2>4, NormalSourceParsed DEF Kinds
  <2>6. ss.kind = "none" \/ ParsedSource(ss) BY <2>2, <2>3, <2>4, NormalSourceParsed DEF Kinds
  <2> HIDE DEF fs, ss
  <2>7. QED BY <2>3, <2>5, <2>6 DEF ParsedCapabilities
<1>3. QED BY <1>1, <1>2

LEMMA PublishedNow ==
    ASSUME SettingInv
    PROVE  /\ IsList(setting.editions) /\ edition \in DOMAIN setting.editions
           /\ \A resource \in {Publishes.document, Publishes.collection} :
                  "capabilities" \in DOMAIN resource /\ AreCapabilities(resource.capabilities)
           /\ \A address \in DOMAIN Publishes.pages :
                  /\ "items" \in DOMAIN Publishes.pages[address]
                  /\ AreDefinitions(Publishes.pages[address].items)
<1>1. IsList(setting.editions) /\ edition \in DOMAIN setting.editions
  BY CasesAssumption DEF SettingInv
<1>2. Publishes \in ToSet(setting.editions) BY <1>1, Listed DEF Publishes
<1>3. setting \in Cases BY DEF SettingInv
<1>4. QED BY <1>1, <1>2, <1>3, CasesAssumption

LEMMA DocumentParsed ==
    ASSUME SettingInv, DocumentParses(InspectedNow)
    PROVE  ParsedCapabilities(InspectedNow.capabilities)
<1>1. "capabilities" \in DOMAIN Publishes.document /\ AreCapabilities(Publishes.document.capabilities)
  BY PublishedNow
<1>2. InspectedNow.capabilities = NormalCapabilities(Publishes.document.capabilities)
  BY <1>1 DEF InspectedNow, NormalDocument
<1>3. CapabilitiesParse(InspectedNow.capabilities) BY DEF DocumentParses
<1>4. QED BY <1>1, <1>2, <1>3, NormalCapabilitiesParsed

LEMMA CollectionParsed ==
    ASSUME SettingInv, NEW got, got = NormalCollection(Publishes.collection), NEW id,
           CollectionTaken(got, id)
    PROVE  ParsedCapabilities(got.capabilities)
<1>1. "capabilities" \in DOMAIN Publishes.collection /\ AreCapabilities(Publishes.collection.capabilities)
  BY PublishedNow
<1>2. got.capabilities = NormalCapabilities(Publishes.collection.capabilities)
  BY <1>1 DEF NormalCollection
<1>3. CapabilitiesParse(got.capabilities) BY DEF CollectionTaken
<1>4. QED BY <1>1, <1>2, <1>3, NormalCapabilitiesParsed

LEMMA PageParsed ==
    ASSUME SettingInv, NEW address \in DOMAIN Publishes.pages, NEW kind
    PROVE  AreDefinitions(NormalPage(kind, Publishes.pages[address]).items)
<1>1. "items" \in DOMAIN Publishes.pages[address] /\ AreDefinitions(Publishes.pages[address].items)
  BY PublishedNow
<1>2. NormalPage(kind, Publishes.pages[address]).items = Known(kind, Publishes.pages[address].items)
  BY <1>1 DEF NormalPage
<1>3. QED BY <1>1, <1>2, KnownAreDefinitions

-----------------------------------------------------------------------------
(* The sources of a Service and of a Collection, one of a kind each.       *)
OneEach(part, scope) ==
    /\ IsList(part)
    /\ \A i \in DOMAIN part :
           part[i].scope = scope /\ part[i].of \in Kinds /\ ParsedSource(part[i].published)
    /\ \A i, j \in DOMAIN part : i < j => part[i].of # part[j].of

LEMMA ShortLists ==
    ASSUME NEW x, NEW y
    PROVE  /\ IsList(<<>>) /\ IsList(<<x>>) /\ IsList(<<y>>) /\ IsList(<<x, y>>)
           /\ <<>> \o <<>> = <<>> /\ <<x>> \o <<>> = <<x>> /\ <<>> \o <<y>> = <<y>>
           /\ <<x>> \o <<y>> = <<x, y>>
<1>1. PICK S : x \in S /\ y \in S
  <2>1. x \in {x, y} /\ y \in {x, y} OBVIOUS
  <2>2. QED BY <2>1
<1>2. <<>> \in Seq(S) /\ <<x>> \in Seq(S) /\ <<y>> \in Seq(S) BY <1>1
<1>3. <<x, y>> \in Seq(S) BY <1>1
<1>4. IsList(<<>>) /\ IsList(<<x>>) /\ IsList(<<y>>) /\ IsList(<<x, y>>)
  BY <1>2, <1>3, ListOfItsOwn
<1>5. <<>> \o <<>> = <<>> /\ <<x>> \o <<>> = <<x>> /\ <<>> \o <<y>> = <<y>> BY <1>2, ConcatEmptySeq
<1>6. <<x, y>> = Append(<<x>>, y) BY <1>1
<1>7. <<x>> \o <<y>> = <<x, y>> BY <1>1, <1>2, <1>6, AppendIsConcat
<1>8. QED BY <1>4, <1>5, <1>7

LEMMA OneSource ==
    ASSUME NEW scope, NEW kind \in Kinds, NEW published,
           published.kind = "none" \/ ParsedSource(published)
    PROVE  LET part == SourceOf(scope, kind, published)
           IN  /\ part = <<>> \/ part = <<[scope |-> scope, of |-> kind, published |-> published]>>
               /\ part # <<>> => ParsedSource(published)
BY DEF SourceOf, ParsedSource

LEMMA SourcesOneEach ==
    ASSUME NEW capabilities, ParsedCapabilities(capabilities), NEW scope
    PROVE  OneEach(SourcesOf(scope, capabilities), scope)
<1>1. CASE capabilities = NoCapabilities
  <2>1. SourcesOf(scope, capabilities) = <<>> BY <1>1 DEF SourcesOf
  <2>2. QED BY <2>1 DEF OneEach, IsList
<1>2. CASE capabilities # NoCapabilities
  <2> DEFINE fs == SourceOf(scope, "filters", capabilities.filters)
             ss == SourceOf(scope, "sorts", capabilities.sorts)
             f == [scope |-> scope, of |-> "filters", published |-> capabilities.filters]
             s == [scope |-> scope, of |-> "sorts", published |-> capabilities.sorts]
  <2>1. SourcesOf(scope, capabilities) = fs \o ss BY <1>2 DEF SourcesOf
  <2>2. /\ fs = <<>> \/ (fs = <<f>> /\ ParsedSource(f.published))
        /\ f.scope = scope /\ f.of = "filters"
    BY <1>2, OneSource DEF ParsedCapabilities, Kinds
  <2>3. /\ ss = <<>> \/ (ss = <<s>> /\ ParsedSource(s.published))
        /\ s.scope = scope /\ s.of = "sorts"
    BY <1>2, OneSource DEF ParsedCapabilities, Kinds
  <2> HIDE DEF fs, ss, f, s
  <2>4. fs \o ss \in {<<>>, <<f>>, <<s>>, <<f, s>>}
    <3>1. <<>> \o <<>> = <<>> /\ <<f>> \o <<>> = <<f>> /\ <<>> \o <<s>> = <<s>> /\ <<f>> \o <<s>> = <<f, s>>
      BY ShortLists
    <3>2. QED BY <2>2, <2>3, <3>1
  <2>5. /\ fs \o ss \in {<<f>>, <<f, s>>} => ParsedSource(f.published)
        /\ fs \o ss \in {<<s>>, <<f, s>>} => ParsedSource(s.published)
    <3>1. CASE ParsedSource(f.published) /\ ParsedSource(s.published) BY <3>1
    <3>2. CASE ~ParsedSource(f.published)
      <4>1. fs = <<>> BY <2>2, <3>2
      <4>2. fs \o ss \in {<<>>, <<s>>} BY <2>3, <4>1
      <4>3. fs \o ss = <<s>> => ParsedSource(s.published) BY <2>3, <4>1
      <4>4. f # s BY <2>2, <2>3
      <4>5. <<f>> # <<s>> /\ <<f, s>> # <<s>> /\ <<f>> # <<>> /\ <<f, s>> # <<>> /\ <<s>> # <<>> BY <4>4
      <4>6. QED BY <4>2, <4>3, <4>5
    <3>3. CASE ~ParsedSource(s.published)
      <4>1. ss = <<>> BY <2>3, <3>3
      <4>2. fs \o ss \in {<<>>, <<f>>} BY <2>2, <4>1
      <4>3. fs \o ss = <<f>> => ParsedSource(f.published) BY <2>2, <4>1
      <4>4. f # s BY <2>2, <2>3
      <4>5. <<f>> # <<s>> /\ <<f, s>> # <<f>> /\ <<f>> # <<>> /\ <<f, s>> # <<>> /\ <<s>> # <<>> BY <4>4
      <4>6. QED BY <4>2, <4>3, <4>5
    <3>4. QED BY <3>1, <3>2, <3>3
  <2>6. /\ OneEach(<<>>, scope)
        /\ ParsedSource(f.published) => OneEach(<<f>>, scope)
        /\ ParsedSource(s.published) => OneEach(<<s>>, scope)
        /\ ParsedSource(f.published) /\ ParsedSource(s.published) => OneEach(<<f, s>>, scope)
    <3>1. IsList(<<>>) /\ IsList(<<f>>) /\ IsList(<<s>>) /\ IsList(<<f, s>>) BY ShortLists
    <3>2. "filters" \in Kinds /\ "sorts" \in Kinds BY DEF Kinds
    <3>3. OneEach(<<>>, scope) BY <3>1 DEF OneEach
    <3>4. ParsedSource(f.published) => OneEach(<<f>>, scope) BY <2>2, <3>1, <3>2 DEF OneEach
    <3>5. ParsedSource(s.published) => OneEach(<<s>>, scope) BY <2>3, <3>1, <3>2 DEF OneEach
    <3>6. ParsedSource(f.published) /\ ParsedSource(s.published) => OneEach(<<f, s>>, scope)
      BY <2>2, <2>3, <3>1, <3>2 DEF OneEach
    <3>7. QED BY <3>3, <3>4, <3>5, <3>6
  <2>7. QED BY <2>1, <2>4, <2>5, <2>6
<1>3. QED BY <1>1, <1>2

LEMMA ServiceThenCollection ==
    ASSUME NEW a, OneEach(a, "service"), NEW b, OneEach(b, "collection")
    PROVE  AreSources(a \o b)
<1> DEFINE m == Len(a)
           n == Len(b)
           all == a \o b
<1>1. /\ m \in Nat /\ n \in Nat /\ DOMAIN a = 1..m /\ DOMAIN b = 1..n
      /\ IsList(a) /\ IsList(b)
  BY Listed DEF OneEach
<1>2. /\ all \in Seq(ToSet(a) \cup ToSet(b)) /\ Len(all) = m + n
      /\ \A i \in 1..(m + n) : all[i] = IF i <= m THEN a[i] ELSE b[i - m]
  <2>1. a \in Seq(ToSet(a) \cup ToSet(b)) /\ b \in Seq(ToSet(a) \cup ToSet(b)) BY <1>1 DEF IsList
  <2>2. QED BY <2>1
<1>3. IsList(all) /\ DOMAIN all = 1..(m + n)
  <2> HIDE DEF all
  <2>1. DOMAIN all = 1..(m + n) BY <1>2
  <2>2. QED BY <1>2, <2>1, ListOfItsOwn
<1> HIDE DEF all, m, n
<1>4. \A i \in 1..(m + n) : (i <= m /\ i \in 1..m) \/ (i > m /\ i - m \in 1..n)
  <2>1. m \in Nat /\ n \in Nat BY <1>1
  <2>2. QED BY <2>1
<1>5. \A i \in 1..m : a[i].scope = "service" /\ a[i].of \in Kinds /\ ParsedSource(a[i].published)
  BY <1>1 DEF OneEach
<1>6. \A i \in 1..n : b[i].scope = "collection" /\ b[i].of \in Kinds /\ ParsedSource(b[i].published)
  BY <1>1 DEF OneEach
<1>7. ASSUME NEW i \in 1..(m + n)
      PROVE  /\ all[i].of \in Kinds /\ ParsedSource(all[i].published)
             /\ all[i].scope = IF i <= m THEN "service" ELSE "collection"
  <2>1. CASE i <= m /\ i \in 1..m
    <3>1. all[i] = a[i] BY <1>2, <2>1
    <3>2. QED BY <1>5, <2>1, <3>1
  <2>2. CASE i > m /\ i - m \in 1..n
    <3>1. ~(i <= m) BY <1>1, <2>2
    <3>2. all[i] = b[i - m] BY <1>2, <3>1
    <3>3. QED BY <1>6, <2>2, <3>1, <3>2
  <2>3. QED BY <1>4, <2>1, <2>2
<1>8. ASSUME NEW i \in 1..(m + n), NEW j \in 1..(m + n), i < j, all[i].of = all[j].of
      PROVE  i <= m /\ ~(j <= m)
  <2>1. CASE j <= m
    <3>1. i \in DOMAIN a /\ j \in DOMAIN a /\ i <= m BY <1>1, <1>8, <2>1
    <3>2. all[i] = a[i] /\ all[j] = a[j] BY <1>2, <2>1, <3>1
    <3>3. QED BY <1>8, <3>1, <3>2 DEF OneEach
  <2>2. CASE ~(i <= m)
    <3>1. i - m \in DOMAIN b /\ j - m \in DOMAIN b /\ i - m < j - m /\ ~(j <= m) BY <1>1, <1>8, <2>2
    <3>2. all[i] = b[i - m] /\ all[j] = b[j - m] BY <1>2, <2>2, <3>1
    <3>3. QED BY <1>8, <3>1, <3>2 DEF OneEach
  <2>3. QED BY <2>1, <2>2
<1>9. QED BY <1>3, <1>7, <1>8 DEF AreSources, all

-----------------------------------------------------------------------------
(* The pages of a source make up its definitions.                          *)
LEMMA NoPages == ArePages(<<>>)
BY BoundsAssumption DEF ArePages, IsList, ToSet

LEMMA ItemsAreDefinitions ==
    ASSUME NEW pages, ArePages(pages) PROVE AreDefinitions(Items(pages))
<1> DEFINE n == Len(pages)
           D == UNION {ToSet(page.items) : page \in ToSet(pages)}
           parts == [i \in DOMAIN pages |-> pages[i].items]
<1>1. n \in Nat /\ DOMAIN pages = 1..n /\ \A i \in DOMAIN pages : pages[i] \in ToSet(pages)
  BY Listed DEF ArePages
<1>2. ASSUME NEW page \in ToSet(pages) PROVE page.items \in Seq(D)
  <2>1. page.items \in Seq(ToSet(page.items)) BY DEF ArePages, AreDefinitions, IsList
  <2>2. ToSet(page.items) \subseteq D OBVIOUS
  <2> HIDE DEF D
  <2>3. QED BY <2>1, <2>2
<1>3. \A v \in D : v.id \in Int BY DEF ArePages, AreDefinitions
<1> HIDE DEF D
<1>4. parts \in [1..n -> Seq(D)] BY <1>1, <1>2
<1>5. FlattenSeq(parts) \in Seq(D) BY <1>1, <1>4, FlattenType
<1>6. Items(pages) = FlattenSeq(parts) BY DEF Items
<1>7. IsList(Items(pages)) /\ ToSet(Items(pages)) \subseteq D BY <1>5, <1>6, ListOfItsOwn
<1>8. QED BY <1>3, <1>7 DEF AreDefinitions

LEMMA PagesCounted ==
    ASSUME NEW pages, ArePages(pages) PROVE Cardinality(Visited(pages)) = Len(pages)
<1> DEFINE D == DOMAIN pages
           V == Visited(pages)
           f == [i \in D |-> pages[i].address]
<1>1. Len(pages) \in Nat /\ D = 1..Len(pages) BY Listed DEF ArePages
<1>2. IsFiniteSet(D) /\ Cardinality(D) = Len(pages)
  <2>1. IsFiniteSet(1..Len(pages)) /\ Cardinality(1..Len(pages)) = IF 1 > Len(pages) THEN 0 ELSE Len(pages) - 1 + 1
    BY <1>1, FS_Interval
  <2>2. QED BY <1>1, <2>1
<1>3. f \in Surjection(D, V) BY DEF Surjection, Visited
<1>4. \A i, j \in D : f[i] = f[j] => i = j BY DEF ArePages
<1> HIDE DEF D, V, f
<1>5. f \in Injection(D, V) BY <1>3, <1>4 DEF Surjection, Injection, IsInjective
<1>6. Cardinality(V) = Cardinality(D) BY <1>2, <1>3, <1>5, FS_Surjection
<1>7. QED BY <1>2, <1>6 DEF V

LEMMA PageAdded ==
    ASSUME NEW pages, ArePages(pages), ~TooManyPages(pages),
           NEW page, page.address \notin Visited(pages), AreDefinitions(page.items)
    PROVE  ArePages(Append(pages, page)) /\ Append(pages, page) # <<>>
           /\ Last(Append(pages, page)) = page
<1> DEFINE all == Append(pages, page)
           n == Len(pages)
<1>1. n \in Nat /\ DOMAIN pages = 1..n /\ IsList(pages) BY Listed DEF ArePages
<1>2. IsList(all) /\ ToSet(all) = ToSet(pages) \cup {page} BY <1>1, ListExtended
<1>3. n + 1 <= MaximumPages BY <1>1, BoundsAssumption DEF TooManyPages
<1>4. /\ DOMAIN all = 1..(n + 1) /\ Len(all) = n + 1 /\ all # <<>>
      /\ all[n + 1] = page /\ \A i \in 1..n : all[i] = pages[i]
  BY <1>1 DEF IsList
<1>5. Last(all) = page BY <1>4 DEF Last
<1>6. \A i \in 1..n : pages[i].address # page.address BY <1>1 DEF Visited
<1>7. \A i, j \in 1..n : pages[i].address = pages[j].address => i = j BY <1>1 DEF ArePages
<1>8. \A i \in 1..(n + 1) : i = n + 1 \/ i \in 1..n BY <1>1
<1>9. \A i, j \in DOMAIN all : all[i].address = all[j].address => i = j
  <2> HIDE DEF all, n
  <2>1. QED BY <1>4, <1>6, <1>7, <1>8
<1>10. \A p \in ToSet(all) : AreDefinitions(p.items) BY <1>2 DEF ArePages
<1> HIDE DEF all
<1>11. ArePages(all) BY <1>2, <1>3, <1>4, <1>9, <1>10 DEF ArePages
<1>12. QED BY <1>4, <1>5, <1>11 DEF all

-----------------------------------------------------------------------------
(* The identifiers of the sorts left out, in their order.                  *)
LEMMA Greatest ==
    ASSUME NEW ids \in SUBSET Int, IsFiniteSet(ids), ids # {}
    PROVE  \E m \in ids : \A k \in ids : k <= m
<1> DEFINE Holds(s) == \E m \in s : \A k \in s : k <= m
           T == {n \in Nat : \A s \in SUBSET Int :
                     IsFiniteSet(s) /\ s # {} /\ Cardinality(s) = n => Holds(s)}
<1>1. 0 \in T BY FS_EmptySet
<1>2. ASSUME NEW n \in Nat, n \in T PROVE n + 1 \in T
  <2> SUFFICES ASSUME NEW s \in SUBSET Int, IsFiniteSet(s), s # {}, Cardinality(s) = n + 1
               PROVE  Holds(s)
    OBVIOUS
  <2>1. PICK x \in s : TRUE OBVIOUS
  <2>2. IsFiniteSet(s \ {x}) /\ Cardinality(s \ {x}) = n
    <3>1. /\ IsFiniteSet(s \ {x})
          /\ Cardinality(s \ {x}) = IF x \in s THEN Cardinality(s) - 1 ELSE Cardinality(s)
      BY FS_RemoveElement
    <3>2. (n + 1) - 1 = n OBVIOUS
    <3>3. QED BY <2>1, <3>1, <3>2
  <2>3. CASE s \ {x} = {} BY <2>1, <2>3
  <2>4. CASE s \ {x} # {}
    <3>1. Holds(s \ {x}) BY <1>2, <2>2, <2>4
    <3>2. PICK m \in s \ {x} : \A k \in s \ {x} : k <= m BY <3>1
    <3>3. m \in Int /\ x \in Int /\ \A k \in s : k \in Int BY <2>1, <3>2
    <3>4. CASE x <= m BY <3>2, <3>3, <3>4
    <3>5. CASE m <= x BY <2>1, <3>2, <3>3, <3>5
    <3>6. QED BY <3>3, <3>4, <3>5
  <2>5. QED BY <2>3, <2>4
<1>3. QED
  <2> HIDE DEF T
  <2>1. Nat \subseteq T BY <1>1, <1>2, SetInduction
  <2>2. Cardinality(ids) \in Nat BY FS_CardinalityType
  <2>3. QED BY <2>1, <2>2 DEF T

Ascending(order, ids, n) ==
    order \in [1..n -> ids] /\ \A i, j \in 1..n : i < j => order[i] < order[j]

LEMMA AscendingExists ==
    ASSUME NEW ids \in SUBSET Int, IsFiniteSet(ids)
    PROVE  \E order : Ascending(order, ids, Cardinality(ids))
<1> DEFINE T == {n \in Nat : \A s \in SUBSET Int :
                     IsFiniteSet(s) /\ Cardinality(s) = n => \E order : Ascending(order, s, n)}
<1>1. 0 \in T
  <2> SUFFICES ASSUME NEW s \in SUBSET Int PROVE \E order : Ascending(order, s, 0) OBVIOUS
  <2>1. Ascending([i \in 1..0 |-> i], s, 0) BY DEF Ascending
  <2>2. QED BY <2>1
<1>2. ASSUME NEW n \in Nat, n \in T PROVE n + 1 \in T
  <2> SUFFICES ASSUME NEW s \in SUBSET Int, IsFiniteSet(s), Cardinality(s) = n + 1
               PROVE  \E order : Ascending(order, s, n + 1)
    OBVIOUS
  <2>1. s # {} BY FS_EmptySet
  <2>2. PICK m \in s : \A k \in s : k <= m BY <2>1, Greatest
  <2>3. IsFiniteSet(s \ {m}) /\ Cardinality(s \ {m}) = n
    <3>1. /\ IsFiniteSet(s \ {m})
          /\ Cardinality(s \ {m}) = IF m \in s THEN Cardinality(s) - 1 ELSE Cardinality(s)
      BY FS_RemoveElement
    <3>2. (n + 1) - 1 = n OBVIOUS
    <3>3. QED BY <2>2, <3>1, <3>2
  <2>4. PICK f : Ascending(f, s \ {m}, n) BY <1>2, <2>3
  <2> DEFINE g == [i \in 1..(n + 1) |-> IF i <= n THEN f[i] ELSE m]
  <2>5. \A i \in 1..n : f[i] \in s /\ f[i] \in Int /\ f[i] < m
    <3>1. \A i \in 1..n : f[i] \in s \ {m} BY <2>4 DEF Ascending
    <3>2. \A k \in s \ {m} : k \in s /\ k \in Int /\ k < m
      <4>1. \A k \in s : k \in Int /\ m \in Int /\ k <= m BY <2>2
      <4>2. QED BY <4>1
    <3> DEFINE R == s \ {m}
    <3>3. \A i \in 1..n : f[i] \in R BY <3>1
    <3>4. \A k \in R : k \in s /\ k \in Int /\ k < m BY <3>2
    <3> HIDE DEF R
    <3>5. QED BY <3>3, <3>4
  <2>6. \A i \in 1..n : g[i] = f[i] OBVIOUS
  <2>7. g[n + 1] = m OBVIOUS
  <2>8. \A i \in 1..(n + 1) : i \in 1..n \/ i = n + 1 OBVIOUS
  <2>9. g \in [1..(n + 1) -> s] BY <2>5
  <2> HIDE DEF g
  <2>10. ASSUME NEW i \in 1..(n + 1), NEW j \in 1..(n + 1), i < j PROVE g[i] < g[j]
    <3>1. i \in 1..n BY <2>10
    <3>2. CASE j = n + 1 BY <2>5, <2>6, <2>7, <3>1, <3>2
    <3>3. CASE j \in 1..n
      <4>1. f[i] < f[j] BY <2>4, <2>10, <3>1, <3>3 DEF Ascending
      <4>2. QED BY <2>6, <3>1, <3>3, <4>1
    <3>4. QED BY <2>8, <3>2, <3>3
  <2>11. Ascending(g, s, n + 1) BY <2>9, <2>10 DEF Ascending
  <2>12. QED BY <2>11
<1>3. QED
  <2> HIDE DEF T
  <2>1. Nat \subseteq T BY <1>1, <1>2, SetInduction
  <2>2. Cardinality(ids) \in Nat BY FS_CardinalityType
  <2>3. QED BY <2>1, <2>2 DEF T

LEMMA InOrderIsAll ==
    ASSUME NEW ids \in SUBSET Int, IsFiniteSet(ids)
    PROVE  /\ DOMAIN InOrder(ids) = 1..Cardinality(ids) /\ Cardinality(ids) \in Nat
           /\ \A i \in DOMAIN InOrder(ids) : InOrder(ids)[i] \in ids
           /\ \A id \in ids : \E i \in DOMAIN InOrder(ids) : InOrder(ids)[i] = id
<1> DEFINE n == Cardinality(ids)
           order == InOrder(ids)
<1>1. n \in Nat BY FS_CardinalityType
<1>2. \E f \in [1..n -> ids] : \A i, j \in 1..n : i < j => f[i] < f[j]
  BY AscendingExists DEF Ascending
<1>3. order \in [1..n -> ids] /\ \A i, j \in 1..n : i < j => order[i] < order[j]
  BY <1>2 DEF InOrder
<1> HIDE DEF order
<1>4. \A i, j \in 1..n : order[i] = order[j] => i = j
  <2> SUFFICES ASSUME NEW i \in 1..n, NEW j \in 1..n, i # j PROVE order[i] # order[j] OBVIOUS
  <2>1. order[i] \in Int /\ order[j] \in Int BY <1>3
  <2>2. i < j \/ j < i BY <1>1
  <2>3. order[i] < order[j] \/ order[j] < order[i] BY <1>3, <2>2
  <2>4. QED BY <2>1, <2>3
<1>5. order \in Injection(1..n, ids) BY <1>3, <1>4 DEF Injection, IsInjective
<1>6. Cardinality(1..n) = n
  <2>1. Cardinality(1..n) = IF 1 > n THEN 0 ELSE n - 1 + 1 BY <1>1, FS_Interval
  <2>2. QED BY <1>1, <2>1
<1>7. order \in Surjection(1..n, ids) BY <1>5, <1>6, FS_Injection
<1>8. \A id \in ids : \E i \in 1..n : order[i] = id BY <1>7 DEF Surjection
<1>9. QED BY <1>1, <1>3, <1>8 DEF order

-----------------------------------------------------------------------------
(* What is said of a source, while the sources stay and so do its pages.   *)
LEMMA SameSource ==
    ASSUME UNCHANGED sources, NEW i, taken'[i] = taken[i]
    PROVE  /\ ValuesOf(i)' = ValuesOf(i) /\ Given(i)' = Given(i)
           /\ Received(i)' <=> Received(i)
           /\ Whole(i)' <=> Whole(i)
<1>1. ValuesOf(i)' = ValuesOf(i) BY DEF ValuesOf
<1>2. Given(i)' = Given(i) BY <1>1 DEF Given
<1>3. Received(i)' <=> Received(i) BY DEF Received
<1>4. Whole(i)' <=> Whole(i) BY <1>1, <1>3 DEF Whole
<1>5. QED BY <1>1, <1>2, <1>3, <1>4

SameBelow == \A i \in DOMAIN sources : i < position => taken'[i] = taken[i]

LEMMA SameUse ==
    ASSUME SourcesInv, ReadingInv, UNCHANGED sources, SameBelow, NEW kind,
           NEW i \in DOMAIN sources, i < position
    PROVE  /\ i \in UsableSources(kind)' <=> i \in UsableSources(kind)
           /\ ValuesOf(i)' = ValuesOf(i) /\ Given(i)' = Given(i)
<1>1. DOMAIN sources = 1..Len(sources) /\ Len(sources) \in Nat BY Listed DEF SourcesInv, AreSources
<1>2. position \in Int BY <1>1 DEF ReadingInv
<1>3. ASSUME NEW j \in DOMAIN sources, j < i \/ j = i
      PROVE  /\ Whole(j)' <=> Whole(j)
             /\ ValuesOf(j)' = ValuesOf(j) /\ Given(j)' = Given(j)
  <2>1. j < position BY <1>1, <1>2, <1>3
  <2>2. taken'[j] = taken[j] BY <2>1 DEF SameBelow
  <2>3. QED BY <2>2, SameSource
<1>4. \A j \in DOMAIN sources : j < i => (Whole(j)' <=> Whole(j)) /\ ValuesOf(j)' = ValuesOf(j)
  BY <1>3
<1>5. (Whole(i)' <=> Whole(i)) /\ ValuesOf(i)' = ValuesOf(i) /\ Given(i)' = Given(i) BY <1>3
<1>6. Fits(i)' <=> Fits(i) BY <1>4, <1>5 DEF Fits
<1>7. QED BY <1>5, <1>6 DEF UsableSources

(* The sources before the position as it stays, and as it moves on.        *)
LEMMA BeforeStays ==
    ASSUME SourcesInv, ReadingInv, UNCHANGED <<sources, position>>, SameBelow, NEW kind
    PROVE  Before(kind)' = Before(kind)
<1>1. \A i : i \in UsableSources(kind) \/ i \in UsableSources(kind)' => i \in DOMAIN sources
  BY DEF UsableSources
<1>2. \A i : i \in Before(kind)' <=> i \in Before(kind) BY <1>1, SameUse DEF Before
<1>3. QED BY <1>2

LEMMA BeforeMoves ==
    ASSUME SourcesInv, ReadingInv, UNCHANGED sources, position \in DOMAIN sources,
           position' = position + 1, SameBelow, NEW kind
    PROVE  Before(kind)' = Before(kind) \cup (UsableSources(kind)' \cap {position})
<1>1. DOMAIN sources = 1..Len(sources) /\ Len(sources) \in Nat BY Listed DEF SourcesInv, AreSources
<1>2. \A i \in DOMAIN sources : i < position' <=> i < position \/ i = position BY <1>1
<1>3. \A i : i \in UsableSources(kind) \/ i \in UsableSources(kind)' => i \in DOMAIN sources
  BY DEF UsableSources
<1>4. ~(position < position) BY <1>1
<1>5. \A i : i \in Before(kind)' <=> i \in Before(kind) \/ (i \in UsableSources(kind)' /\ i = position)
  BY <1>2, <1>3, <1>4, SameUse DEF Before
<1>6. QED BY <1>5

LEMMA SourcesBefore ==
    ASSUME SourcesInv, NEW kind, NEW i \in Before(kind)
    PROVE  i \in DOMAIN sources /\ i < position /\ i \in UsableSources(kind) /\ sources[i].of = kind
BY DEF Before, UsableSources

(* What was exposed and reported stays so while nothing more is usable.    *)
LEMMA StillExposed ==
    ASSUME SourcesInv, ReadingInv, UNCHANGED sources, SameBelow, NEW kind,
           Before(kind)' = Before(kind), Exposed(kind)' = Exposed(kind),
           ToSet(issues) \subseteq ToSet(issues'), ExposedOf(kind)
    PROVE  ExposedOf(kind)'
<1>1. \A i \in Before(kind) : Given(i)' = Given(i) /\ ValuesOf(i)' = ValuesOf(i)
  BY SourcesBefore, SameUse
<1>2. PublishedBefore(kind)' = PublishedBefore(kind) BY <1>1 DEF PublishedBefore
<1>3. OnceBefore(kind)' = OnceBefore(kind) BY <1>1, <1>2 DEF OnceBefore
<1>4. Contested(kind)' = Contested(kind) BY <1>2, <1>3 DEF Contested
<1>5. \A i \in Before(kind) : \A id, entry : GivenAs(i, id, entry)' <=> GivenAs(i, id, entry)
  BY <1>1 DEF GivenAs
<1>6. \A id \in DOMAIN Exposed(kind) : \E i \in Before(kind)' : GivenAs(i, id, Exposed(kind)[id])'
  BY <1>5 DEF ExposedOf
<1>7. QED BY <1>3, <1>4, <1>6 DEF ExposedOf

LEMMA StillReported ==
    ASSUME UNCHANGED sources, ToSet(issues) \subseteq ToSet(issues'), NEW i, IsReported(i)
    PROVE  IsReported(i)'
BY DEF IsReported

(* The definitions of a source, and the one source of its kind before it.  *)
LEMMA ValuesAreDefinitions ==
    ASSUME SourcesInv, ReadingInv, NEW i \in DOMAIN sources PROVE AreDefinitions(ValuesOf(i))
<1>1. ParsedSource(sources[i].published) BY DEF SourcesInv, AreSources
<1>2. AreDefinitions(Items(taken[i])) BY ItemsAreDefinitions DEF ReadingInv
<1>3. QED BY <1>1, <1>2 DEF ValuesOf, ParsedSource

Alone(kind) ==
    /\ Before(kind) = {} /\ DOMAIN Exposed(kind) = {}
    /\ \A j \in DOMAIN sources : j < position /\ sources[j].of = kind => ~Whole(j)
After(kind, j) ==
    /\ j \in DOMAIN sources /\ j < position /\ sources[j].of = kind /\ Whole(j)
    /\ Before(kind) = {j}
    /\ DOMAIN Exposed(kind) = Given(j)
    /\ Cardinality(Given(j)) = Len(ValuesOf(j))
    /\ \A i \in DOMAIN sources : i < position /\ sources[i].of = kind => i = j

LEMMA AloneOrAfter ==
    ASSUME SourcesInv, ReadingInv, position \in DOMAIN sources,
           NEW kind, kind = sources[position].of, ExposedOf(kind)
    PROVE  Alone(kind) \/ \E j : After(kind, j)
<1>1. DOMAIN sources = 1..Len(sources) /\ Len(sources) \in Nat BY Listed DEF SourcesInv, AreSources
<1>2. \A i, j \in DOMAIN sources : i < j /\ sources[i].of = sources[j].of =>
          sources[i].scope = "service" /\ sources[j].scope = "collection"
  BY DEF SourcesInv, AreSources
<1>3. ASSUME NEW i \in DOMAIN sources, NEW j \in DOMAIN sources, i < j, j < position,
             sources[i].of = kind, sources[j].of = kind
      PROVE  FALSE
  <2>1. sources[j].scope = "collection" BY <1>2, <1>3
  <2>2. sources[j].scope = "service" BY <1>2, <1>3
  <2>3. QED BY <2>1, <2>2
<1>4. ASSUME NEW i \in DOMAIN sources, NEW j \in DOMAIN sources, i < position, j < position,
             sources[i].of = kind, sources[j].of = kind
      PROVE  i = j
  <2>1. i < j \/ j < i \/ i = j BY <1>1
  <2>2. QED BY <1>3, <1>4, <2>1
<1>5. CASE \E j \in DOMAIN sources : j < position /\ sources[j].of = kind /\ Whole(j)
  <2>1. PICK j \in DOMAIN sources : j < position /\ sources[j].of = kind /\ Whole(j) BY <1>5
  <2>2. Fits(j) BY <1>3, <2>1 DEF Fits
  <2>3. j \in Before(kind) BY <2>1, <2>2 DEF Before, UsableSources
  <2>4. \A i \in Before(kind) : i = j BY <1>4, <2>1, SourcesBefore
  <2>5. Before(kind) = {j} BY <2>3, <2>4
  <2>6. PublishedBefore(kind) = Given(j) BY <2>5 DEF PublishedBefore
  <2>7. OnceBefore(kind) = Given(j) BY <2>5, <2>6 DEF OnceBefore
  <2>8. Cardinality(Given(j)) = Len(ValuesOf(j))
    <3>1. AreDefinitions(ValuesOf(j)) BY ValuesAreDefinitions
    <3>2. ~Repeats(ValuesOf(j)) BY <2>1 DEF Whole
    <3>3. QED BY <3>1, <3>2, IdentifiersCounted DEF Given
  <2>9. After(kind, j) BY <1>4, <2>1, <2>5, <2>7, <2>8 DEF After, ExposedOf
  <2>10. QED BY <2>9
<1>6. CASE ~ \E j \in DOMAIN sources : j < position /\ sources[j].of = kind /\ Whole(j)
  <2>1. Before(kind) = {} BY <1>6 DEF Before, UsableSources
  <2>2. OnceBefore(kind) = {} BY <2>1 DEF PublishedBefore, OnceBefore
  <2>3. Alone(kind) BY <1>6, <2>1, <2>2 DEF Alone, ExposedOf
  <2>4. QED BY <2>3
<1>7. QED BY <1>5, <1>6

(* A source exceeds with what is exposed when it would not fit with the    *)
(* usable source before it; else, once received, it is usable.             *)
LEMMA MaximumTyped == ASSUME NEW kind \in Kinds PROVE MaximumOf[kind] \in Nat
BY BoundsAssumption

LEMMA KindsTyped ==
    ASSUME SourcesInv, NEW i \in DOMAIN sources
    PROVE  /\ sources[i].of \in Kinds /\ sources[i].scope \in {"service", "collection"}
           /\ ParsedSource(sources[i].published)
BY DEF SourcesInv, AreSources

LEMMA ExceedsUnusable ==
    ASSUME SourcesInv, ReadingInv, UNCHANGED sources, position \in DOMAIN sources, SameBelow,
           NEW p, p = position, NEW kind, kind = sources[p].of, ExposedOf(kind),
           NEW values, values = ValuesOf(p)', Len(values) \in Nat,
           Exceeds(values, Exposed(kind), kind)
    PROVE  p \notin UsableSources(kind)'
<1> DEFINE m == MaximumOf[kind]
           n == Len(values)
<1> SUFFICES ASSUME p \in UsableSources(kind)' PROVE FALSE OBVIOUS
<1>1. m \in Nat BY KindsTyped, MaximumTyped
<1>2. n <= m BY DEF UsableSources, Whole
<1>3. \A j \in DOMAIN sources : j < p /\ sources[j].of = kind /\ Whole(j)' =>
          Len(ValuesOf(j)') + n <= m
  BY DEF UsableSources, Fits
<1>4. Cardinality(DOMAIN Exposed(kind)) + n > m BY DEF Exceeds
<1>5. CASE Alone(kind)
  <2>1. Cardinality(DOMAIN Exposed(kind)) = 0 BY <1>5, FS_EmptySet DEF Alone
  <2> HIDE DEF m, n
  <2>2. QED BY <1>1, <1>2, <1>4, <2>1 DEF n
<1>6. CASE \E j : After(kind, j)
  <2>1. PICK j : After(kind, j) BY <1>6
  <2>2. j \in DOMAIN sources /\ j < p /\ sources[j].of = kind /\ Whole(j) BY <2>1 DEF After
  <2>3. ValuesOf(j)' = ValuesOf(j) /\ (Whole(j)' <=> Whole(j)) BY <2>2, SameSource DEF SameBelow
  <2>4. Len(ValuesOf(j)) + n <= m BY <1>3, <2>2, <2>3
  <2>5. Cardinality(DOMAIN Exposed(kind)) = Len(ValuesOf(j)) BY <2>1 DEF After
  <2>6. Len(ValuesOf(j)) \in Nat BY <2>2, ValuesAreDefinitions, IdentifiersCounted
  <2> HIDE DEF m, n
  <2>7. QED BY <1>1, <1>4, <2>4, <2>5, <2>6 DEF n
<1>7. QED BY <1>5, <1>6, AloneOrAfter

LEMMA FittingUsable ==
    ASSUME SourcesInv, ReadingInv, UNCHANGED sources, position \in DOMAIN sources, SameBelow,
           NEW p, p = position, NEW kind, kind = sources[p].of, ExposedOf(kind),
           NEW values, values = ValuesOf(p)', Len(values) \in Nat,
           ~Exceeds(values, Exposed(kind), kind), ~Repeats(values), Received(p)'
    PROVE  p \in UsableSources(kind)'
<1> DEFINE m == MaximumOf[kind]
           n == Len(values)
           e == Cardinality(DOMAIN Exposed(kind))
<1>1. m \in Nat BY KindsTyped, MaximumTyped
<1>2. e \in Nat BY FS_CardinalityType DEF ExposedOf
<1>3. e + n <= m
  <2>1. ~(e + n > m) BY DEF Exceeds
  <2> HIDE DEF e, m
  <2>2. QED BY <1>1, <1>2, <2>1
<1>4. n <= m
  <2> HIDE DEF e, m
  <2>1. QED BY <1>1, <1>2, <1>3
<1>5. Whole(p)' BY <1>4 DEF Whole
<1>6. ASSUME NEW j \in DOMAIN sources, j < p, sources[j].of = kind, Whole(j)'
      PROVE  Len(ValuesOf(j)') + n <= m
  <2>1. ValuesOf(j)' = ValuesOf(j) /\ (Whole(j)' <=> Whole(j)) BY <1>6, SameSource DEF SameBelow
  <2>2. ~Alone(kind) BY <1>6, <2>1 DEF Alone
  <2>3. PICK i : After(kind, i) BY <2>2, AloneOrAfter
  <2>4. i = j BY <1>6, <2>3 DEF After
  <2>5. e = Len(ValuesOf(j)) BY <2>3, <2>4 DEF After
  <2>6. QED BY <1>3, <2>1, <2>5
<1>7. Fits(p)' BY <1>6 DEF Fits
<1>8. QED BY <1>5, <1>7 DEF UsableSources

(* A source passed by: nothing changes but that it is reported.            *)
PassedBy ==
    /\ UNCHANGED <<sources, filters, sorts>>
    /\ position \in DOMAIN sources /\ position' = position + 1
    /\ SameBelow
    /\ \E p, kind : p = position /\ kind = sources[p].of /\ p \notin UsableSources(kind)'
    /\ \E reason : issues' = Append(issues, Issue(Source.scope, Source.of, Because(reason)))

LEMMA OthersUnused ==
    ASSUME UNCHANGED sources, NEW p, NEW kind, kind # sources[p].of
    PROVE  p \notin UsableSources(kind)'
BY DEF UsableSources

LEMMA SameExposed == ASSUME UNCHANGED <<filters, sorts>> PROVE \A kind : Exposed(kind)' = Exposed(kind)
BY DEF Exposed

LEMMA PassingBy ==
    ASSUME SourcesInv, ReadingInv, IssuesInv, ExposedInv, Composing, PassedBy
    PROVE  ExposedInv'
<1>1. PICK reason : issues' = Append(issues, Issue(Source.scope, Source.of, Because(reason)))
  BY DEF PassedBy
<1> DEFINE issue == Issue(Source.scope, Source.of, Because(reason))
<1>2. ToSet(issues') = ToSet(issues) \cup {issue} BY <1>1, ListExtended DEF IssuesInv
<1>3. ASSUME NEW kind \in Kinds PROVE ExposedOf(kind)'
  <2>1. PICK p, own : p = position /\ own = sources[p].of /\ p \notin UsableSources(own)' BY DEF PassedBy
  <2>2. Before(kind)' = Before(kind)
    <3>1. UNCHANGED sources BY DEF PassedBy
    <3>2. p \notin UsableSources(kind)' BY <2>1, <3>1, OthersUnused
    <3>3. Before(kind)' = Before(kind) \cup (UsableSources(kind)' \cap {position})
      BY BeforeMoves DEF PassedBy
    <3>4. QED BY <2>1, <3>2, <3>3
  <2>3. Exposed(kind)' = Exposed(kind) BY SameExposed DEF PassedBy
  <2>4. QED BY <1>2, <2>2, <2>3, StillExposed DEF PassedBy, ExposedInv
<1>4. ASSUME NEW i \in DOMAIN sources, i < position'
      PROVE  i \in UsableSources(sources[i].of)' \/ IsReported(i)'
  <2>1. DOMAIN sources = 1..Len(sources) /\ Len(sources) \in Nat BY Listed DEF SourcesInv, AreSources
  <2>2. i < position \/ i = position
    <3>1. position \in Int /\ position' = position + 1 BY <2>1 DEF PassedBy
    <3>2. QED BY <1>4, <2>1, <3>1
  <2>3. CASE i < position
    <3>1. i \in UsableSources(sources[i].of) \/ IsReported(i) BY <2>3 DEF ExposedInv
    <3>2. QED BY <1>2, <2>3, <3>1, SameUse, StillReported DEF PassedBy
  <2>4. CASE i = position
    <3>1. issue.scope = sources[i].scope /\ issue.kind = sources[i].of /\ "reason" \in DOMAIN issue.about
      BY <2>4 DEF Issue, Because, Source
    <3>2. UNCHANGED sources BY DEF PassedBy
    <3>3. QED BY <1>2, <3>1, <3>2 DEF IsReported
  <2>5. QED BY <2>2, <2>3, <2>4
<1>5. QED BY <1>3, <1>4 DEF ExposedInv, PassedBy

-----------------------------------------------------------------------------
(* A source added: what it and the usable source before it both define is  *)
(* exposed by neither.                                                     *)
IsComposed(values, exposed, scope, composed) ==
    /\ IsFiniteSet(DOMAIN composed)
    /\ Cardinality(DOMAIN composed) <= Cardinality(DOMAIN exposed) + Len(values)
    /\ DOMAIN composed = (DOMAIN exposed \cup Identifiers(values)) \ Conflicts(values, exposed)
    /\ \A id \in DOMAIN composed :
           \/ /\ id \notin Identifiers(values) /\ id \in DOMAIN exposed
              /\ composed[id] = exposed[id]
           \/ /\ id \in Identifiers(values)
              /\ composed[id].definition \in ToSet(values) /\ composed[id].definition.id = id
              /\ composed[id].scope = scope

LEMMA ComposedOf ==
    ASSUME NEW values, AreDefinitions(values), NEW exposed, IsFiniteSet(DOMAIN exposed), NEW scope
    PROVE  IsComposed(values, exposed, scope, Composed(values, exposed, scope))
<1>0. PICK composed : composed = Composed(values, exposed, scope) OBVIOUS
<1> DEFINE I == Identifiers(values)
           D == DOMAIN exposed
           C == Conflicts(values, exposed)
           c(id) == IF id \in I \ C
                    THEN [definition |-> CHOOSE v \in ToSet(values) : v.id = id, scope |-> scope]
                    ELSE exposed[id]
<1>1. composed = [id \in (D \ C) \cup (I \ C) |-> c(id)] BY <1>0 DEF Composed
<1>2. C = I \cap D BY DEF Conflicts
<1>3. /\ IsFiniteSet(I) /\ Cardinality(I) \in Nat /\ Cardinality(I) <= Len(values) /\ Len(values) \in Nat
      /\ I = {v.id : v \in ToSet(values)}
  BY IdentifiersCounted
<1>4. \A id \in I : (CHOOSE v \in ToSet(values) : v.id = id) \in ToSet(values)
                    /\ (CHOOSE v \in ToSet(values) : v.id = id).id = id
  BY <1>3
<1> HIDE DEF C, I, D, c
<1>5. DOMAIN composed = (D \cup I) \ C /\ \A id \in DOMAIN composed : composed[id] = c(id) BY <1>1
<1>6. ASSUME NEW id \in DOMAIN composed, id \notin I PROVE id \in D /\ composed[id] = exposed[id]
  BY <1>5, <1>6 DEF c
<1>7. ASSUME NEW id \in DOMAIN composed, id \in I
      PROVE  /\ composed[id].definition \in ToSet(values) /\ composed[id].definition.id = id
             /\ composed[id].scope = scope
  <2>1. id \in I \ C BY <1>5, <1>7
  <2>2. composed[id] = [definition |-> CHOOSE v \in ToSet(values) : v.id = id, scope |-> scope]
    BY <1>5, <2>1 DEF c
  <2>3. composed[id].definition = (CHOOSE v \in ToSet(values) : v.id = id) /\ composed[id].scope = scope
    BY <2>2
  <2>4. QED BY <1>4, <1>7, <2>3
<1>8. IsFiniteSet(DOMAIN composed) /\ Cardinality(DOMAIN composed) <= Cardinality(D) + Len(values)
  <2>1. IsFiniteSet(D) BY DEF D
  <2>2. IsFiniteSet(D \cup I)
        /\ Cardinality(D \cup I) = Cardinality(D) + Cardinality(I) - Cardinality(D \cap I)
    BY <1>3, <2>1, FS_Union
  <2>3. IsFiniteSet(D \cap I) BY <2>1, FS_Intersection
  <2>4. Cardinality(D) \in Nat /\ Cardinality(D \cap I) \in Nat BY <2>1, <2>3, FS_CardinalityType
  <2>5. DOMAIN composed \subseteq D \cup I BY <1>5
  <2>6. IsFiniteSet(DOMAIN composed) /\ Cardinality(DOMAIN composed) <= Cardinality(D \cup I)
    BY <2>2, <2>5, FS_Subset
  <2>7. Cardinality(DOMAIN composed) \in Nat BY <2>6, FS_CardinalityType
  <2>8. \A a, b, d, e, l \in Nat : a <= b + d - e /\ d <= l => a <= b + l OBVIOUS
  <2>9. QED BY <1>3, <2>2, <2>4, <2>6, <2>7, <2>8
<1>9. IsComposed(values, exposed, scope, composed)
  BY <1>5, <1>6, <1>7, <1>8 DEF C, I, D, IsComposed
<1>10. QED BY <1>0, <1>9

AddedOf(p, kind, values) ==
    /\ UNCHANGED <<sources, taken>>
    /\ p = position /\ p \in DOMAIN sources /\ position' = p + 1
    /\ kind = sources[p].of /\ values = ValuesOf(p) /\ Received(p)
    /\ ~Repeats(values) /\ ~Exceeds(values, Exposed(kind), kind)
    /\ Expose(kind, Composed(values, Exposed(kind), sources[p].scope))
    /\ issues' = IF Conflicts(values, Exposed(kind)) = {} THEN issues
                 ELSE Append(issues, Issue(sources[p].scope, kind, Naming(Conflicts(values, Exposed(kind)))))

LEMMA AddedUsable ==
    ASSUME SourcesInv, ReadingInv, NEW p, NEW kind, NEW values, AddedOf(p, kind, values),
           ExposedOf(kind)
    PROVE  /\ SameBelow /\ p \in UsableSources(kind)' /\ Before(kind)' = Before(kind) \cup {p}
           /\ Given(p)' = Identifiers(values) /\ ValuesOf(p)' = values
           /\ AreDefinitions(values) /\ kind \in Kinds
<1> USE DEF AddedOf
<1>1. SameBelow BY DEF SameBelow
<1>2. AreDefinitions(values) /\ Len(values) \in Nat BY ValuesAreDefinitions, IdentifiersCounted
<1>3. taken'[p] = taken[p] /\ UNCHANGED sources OBVIOUS
<1>4. values = ValuesOf(p)' /\ Received(p)' /\ Given(p)' = Identifiers(values)
  BY <1>3, SameSource DEF Given
<1>5. p \in UsableSources(kind)' BY <1>1, <1>2, <1>4, FittingUsable
<1>6. Before(kind)' = Before(kind) \cup {p} BY <1>1, <1>5, BeforeMoves
<1>7. kind \in Kinds BY KindsTyped
<1>8. QED BY <1>1, <1>2, <1>4, <1>5, <1>6, <1>7

LEMMA IssuesGrow ==
    ASSUME IssuesInv, NEW p, NEW kind, NEW values, AddedOf(p, kind, values)
    PROVE  /\ ToSet(issues) \subseteq ToSet(issues')
           /\ Conflicts(values, Exposed(kind)) # {} =>
                  Issue(sources[p].scope, kind, Naming(Conflicts(values, Exposed(kind)))) \in ToSet(issues')
BY ListExtended DEF IssuesInv, AddedOf

LEMMA OnceAlone ==
    ASSUME NEW kind, NEW p, Before(kind)' = {p}
    PROVE  OnceBefore(kind)' = Given(p)' /\ Contested(kind)' = {}
<1>1. PublishedBefore(kind)' = Given(p)' BY DEF PublishedBefore
<1>2. OnceBefore(kind)' = Given(p)' BY <1>1 DEF OnceBefore
<1>3. QED BY <1>1, <1>2 DEF Contested

LEMMA OnceOfTwo ==
    ASSUME NEW kind, NEW j, NEW p, j # p, Before(kind)' = {j, p}
    PROVE  /\ Contested(kind)' = Given(j)' \cap Given(p)'
           /\ OnceBefore(kind)' = (Given(j)' \cup Given(p)') \ (Given(j)' \cap Given(p)')
<1>1. PublishedBefore(kind)' = Given(j)' \cup Given(p)' BY DEF PublishedBefore
<1>2. OnceBefore(kind)' = (Given(j)' \cup Given(p)') \ (Given(j)' \cap Given(p)')
  BY <1>1 DEF OnceBefore
<1>3. QED BY <1>1, <1>2 DEF Contested

LEMMA AddedOnce ==
    ASSUME SourcesInv, ReadingInv, IssuesInv, NEW p, NEW kind, NEW values,
           AddedOf(p, kind, values), ExposedOf(kind)
    PROVE  /\ OnceBefore(kind)' =
                 (DOMAIN Exposed(kind) \cup Identifiers(values)) \ Conflicts(values, Exposed(kind))
           /\ Contested(kind)' = Conflicts(values, Exposed(kind))
           /\ Contested(kind)' # {} => sources[p].scope = "collection"
<1> DEFINE I == Identifiers(values)
           D == DOMAIN Exposed(kind)
<1>1. SameBelow /\ Before(kind)' = Before(kind) \cup {p} /\ Given(p)' = I BY AddedUsable
<1>2. Conflicts(values, Exposed(kind)) = I \cap D BY DEF Conflicts
<1>3. p = position /\ p \in DOMAIN sources /\ kind = sources[p].of /\ UNCHANGED sources
  BY DEF AddedOf
<1>4. CASE Alone(kind)
  <2>1. Before(kind)' = {p} /\ D = {} BY <1>1, <1>4 DEF Alone
  <2>2. OnceBefore(kind)' = Given(p)' /\ Contested(kind)' = {} BY <2>1, OnceAlone
  <2>3. QED BY <1>1, <1>2, <2>1, <2>2
<1>5. CASE \E j : After(kind, j)
  <2>1. PICK j : After(kind, j) BY <1>5
  <2>2. j \in DOMAIN sources /\ j < p /\ sources[j].of = kind /\ D = Given(j) /\ Before(kind)' = {j, p}
    BY <1>1, <1>3, <2>1 DEF After
  <2>3. Given(j)' = D BY <1>1, <1>3, <2>2, SameSource DEF SameBelow
  <2>4. j # p
    <3>1. DOMAIN sources = 1..Len(sources) /\ Len(sources) \in Nat BY Listed DEF SourcesInv, AreSources
    <3>2. QED BY <1>3, <2>2, <3>1
  <2>5. /\ Contested(kind)' = Given(j)' \cap Given(p)'
        /\ OnceBefore(kind)' = (Given(j)' \cup Given(p)') \ (Given(j)' \cap Given(p)')
    BY <2>2, <2>4, OnceOfTwo
  <2>6. sources[p].scope = "collection" BY <1>3, <2>2 DEF SourcesInv, AreSources
  <2> HIDE DEF I, D
  <2>7. /\ Contested(kind)' = I \cap D
        /\ OnceBefore(kind)' = (D \cup I) \ (I \cap D)
    BY <1>1, <2>3, <2>5
  <2>8. QED BY <1>2, <2>6, <2>7 DEF I, D
<1>6. QED BY <1>3, <1>4, <1>5, AloneOrAfter

LEMMA AddedExposed ==
    ASSUME SourcesInv, ReadingInv, IssuesInv, NEW p, NEW kind, NEW values,
           AddedOf(p, kind, values), ExposedOf(kind)
    PROVE  ExposedOf(kind)'
<1> DEFINE old == Exposed(kind)
<1>1. PICK new : new = Exposed(kind)' /\ new = Composed(values, old, sources[p].scope)
  BY AddedUsable DEF AddedOf, Expose, Exposed, Kinds
<1>2. AreDefinitions(values) /\ kind \in Kinds BY AddedUsable
<1>3. IsFiniteSet(DOMAIN old) BY DEF ExposedOf
<1>4. IsComposed(values, old, sources[p].scope, new)
  <2> HIDE DEF old
  <2>1. IsComposed(values, old, sources[p].scope, Composed(values, old, sources[p].scope))
    BY <1>2, <1>3, ComposedOf
  <2>2. QED BY <1>1, <2>1
<1>5. Cardinality(DOMAIN new) <= MaximumOf[kind]
  <2>1. ~(Cardinality(DOMAIN old) + Len(values) > MaximumOf[kind]) BY DEF AddedOf, Exceeds
  <2>2. /\ Cardinality(DOMAIN old) \in Nat /\ Cardinality(DOMAIN new) \in Nat
        /\ Len(values) \in Nat /\ MaximumOf[kind] \in Nat
    BY <1>2, <1>3, <1>4, FS_CardinalityType, IdentifiersCounted, MaximumTyped DEF IsComposed
  <2>3. \A a, b, l, m \in Nat : a <= b + l /\ ~(b + l > m) => a <= m OBVIOUS
  <2>4. QED BY <1>4, <2>1, <2>2, <2>3 DEF IsComposed
<1>6. DOMAIN new = OnceBefore(kind)' BY <1>4, AddedOnce DEF IsComposed
<1>7. ASSUME NEW id \in DOMAIN new PROVE \E i \in Before(kind)' : GivenAs(i, id, new[id])'
  <2>1. Before(kind)' = Before(kind) \cup {p} /\ ValuesOf(p)' = values /\ SameBelow BY AddedUsable
  <2>2. UNCHANGED sources BY DEF AddedOf
  <2>3. CASE id \in Identifiers(values)
    <3>1. /\ new[id].definition \in ToSet(values) /\ new[id].definition.id = id
          /\ new[id].scope = sources[p].scope
      BY <1>4, <2>3 DEF IsComposed
    <3>2. GivenAs(p, id, new[id])' BY <2>1, <2>2, <3>1 DEF GivenAs
    <3>3. QED BY <2>1, <3>2
  <2>4. CASE id \notin Identifiers(values)
    <3>1. id \in DOMAIN old /\ new[id] = old[id] BY <1>4, <2>4 DEF IsComposed
    <3>2. PICK i \in Before(kind) : GivenAs(i, id, old[id]) BY <3>1 DEF ExposedOf
    <3>3. ValuesOf(i)' = ValuesOf(i) BY <2>1, <2>2, <3>2, SourcesBefore, SameUse
    <3>4. GivenAs(i, id, new[id])' BY <2>2, <3>1, <3>2, <3>3 DEF GivenAs
    <3>5. QED BY <2>1, <3>4
  <2>5. QED BY <2>3, <2>4
<1>8. ASSUME Contested(kind)' # {}
      PROVE  Issue("collection", kind, Naming(Contested(kind)'))  \in ToSet(issues')
  <2>1. Contested(kind)' = Conflicts(values, old) /\ sources[p].scope = "collection" BY <1>8, AddedOnce
  <2>2. Issue(sources[p].scope, kind, Naming(Conflicts(values, old))) \in ToSet(issues')
    BY <1>8, <2>1, IssuesGrow
  <2>3. QED BY <2>1, <2>2
<1> HIDE DEF old
<1>9. IsFiniteSet(DOMAIN new) BY <1>4 DEF IsComposed
<1>10. QED BY <1>1, <1>5, <1>6, <1>7, <1>8, <1>9 DEF ExposedOf, Naming, Issue

Added == \E p, kind, values : AddedOf(p, kind, values)

LEMMA Adding ==
    ASSUME SourcesInv, ReadingInv, IssuesInv, ExposedInv, Composing, Added
    PROVE  ExposedInv'
<1>1. PICK p, kind, values : AddedOf(p, kind, values) BY DEF Added
<1>2. p = position /\ p \in DOMAIN sources /\ kind = sources[p].of /\ UNCHANGED sources
      /\ position' = position + 1
  BY <1>1 DEF AddedOf
<1>3. kind \in Kinds BY <1>2, KindsTyped
<1>4. ExposedOf(kind) BY <1>3 DEF ExposedInv
<1>5. /\ SameBelow /\ p \in UsableSources(kind)' /\ Before(kind)' = Before(kind) \cup {p}
  BY <1>1, <1>4, AddedUsable
<1>6. ToSet(issues) \subseteq ToSet(issues') BY <1>1, IssuesGrow
<1>7. ASSUME NEW other \in Kinds PROVE ExposedOf(other)'
  <2>1. CASE other = kind BY <1>1, <1>4, <2>1, AddedExposed
  <2>2. CASE other # kind
    <3>1. p \notin UsableSources(other)' BY <1>2, <2>2, OthersUnused
    <3>2. Before(other)' = Before(other) \cup (UsableSources(other)' \cap {position})
      BY <1>2, <1>5, BeforeMoves
    <3>3. Before(other)' = Before(other) BY <1>2, <3>1, <3>2
    <3>4. Exposed(other)' = Exposed(other)
      BY <1>1, <1>3, <2>2 DEF AddedOf, Expose, Exposed, Kinds
    <3>5. ExposedOf(other) BY DEF ExposedInv
    <3>6. QED BY <1>2, <1>5, <1>6, <3>3, <3>4, <3>5, StillExposed
  <2>3. QED BY <2>1, <2>2
<1>8. ASSUME NEW i \in DOMAIN sources, i < position'
      PROVE  i \in UsableSources(sources[i].of)' \/ IsReported(i)'
  <2>1. DOMAIN sources = 1..Len(sources) /\ Len(sources) \in Nat BY Listed DEF SourcesInv, AreSources
  <2>2. i < position \/ i = position
    <3>1. position \in Int /\ position' = position + 1 BY <1>2, <2>1
    <3>2. QED BY <1>8, <2>1, <3>1
  <2>3. CASE i < position
    <3>1. i \in UsableSources(sources[i].of) \/ IsReported(i) BY <2>3 DEF ExposedInv
    <3>2. QED BY <1>2, <1>5, <1>6, <2>3, <3>1, SameUse, StillReported
  <2>4. CASE i = position BY <1>2, <1>5, <2>4
  <2>5. QED BY <2>2, <2>3, <2>4
<1>9. QED BY <1>2, <1>7, <1>8 DEF ExposedInv

(* Nothing taken or passed by, at most a page of the source at hand.       *)
LEMMA Staying ==
    ASSUME SourcesInv, ReadingInv, ExposedInv, Composing,
           UNCHANGED <<sources, position, filters, sorts, issues>>, SameBelow
    PROVE  ExposedInv'
<1>1. ASSUME NEW kind \in Kinds PROVE ExposedOf(kind)'
  <2>1. Before(kind)' = Before(kind) BY BeforeStays
  <2>2. Exposed(kind)' = Exposed(kind) BY SameExposed
  <2>3. QED BY <2>1, <2>2, StillExposed DEF ExposedInv
<1>2. ASSUME NEW i \in DOMAIN sources, i < position'
      PROVE  i \in UsableSources(sources[i].of)' \/ IsReported(i)'
  <2>1. i \in UsableSources(sources[i].of) \/ IsReported(i) BY <1>2 DEF ExposedInv
  <2>2. QED BY <1>2, <2>1, SameUse, StillReported
<1>3. QED BY <1>1, <1>2 DEF ExposedInv

-----------------------------------------------------------------------------
(* Each way a source is done with adds it or passes it by, and moves on.   *)
LEMMA SourceAt ==
    ASSUME SourcesInv, ReadingInv, position \in DOMAIN sources
    PROVE  /\ Source.of \in Kinds /\ Source.scope \in {"service", "collection"}
           /\ Source = sources[position] /\ Pages = taken[position]
           /\ ArePages(taken[position]) /\ AreDefinitions(ValuesOf(position))
           /\ Len(ValuesOf(position)) \in Nat
BY KindsTyped, ValuesAreDefinitions, IdentifiersCounted DEF Source, Pages, ReadingInv

LEMMA Discarding ==
    ASSUME NEW reason, Discard(reason), UNCHANGED sources, position \in DOMAIN sources, SameBelow,
           NEW p, p = position, NEW kind, kind = sources[p].of, p \notin UsableSources(kind)'
    PROVE  PassedBy
BY DEF Discard, NextSource, PassedBy

LEMMA AddingTaken ==
    ASSUME SourcesInv, ReadingInv, ExposedInv, Composing, position \in DOMAIN sources,
           NEW values, values = ValuesOf(position), Received(position),
           Add(values), UNCHANGED <<sources, taken>>
    PROVE  Added \/ PassedBy
<1>1. PICK p, kind : p = position /\ kind = sources[p].of OBVIOUS
<1>2. kind \in Kinds /\ Source = sources[p] /\ Len(values) \in Nat BY <1>1, SourceAt
<1>3. ExposedOf(kind) BY <1>2 DEF ExposedInv
<1>4. SameBelow /\ values = ValuesOf(p)' BY <1>1, SameSource DEF SameBelow
<1>5. CASE Repeats(values)
  <2>1. Discard("repeats") BY <1>5 DEF Add
  <2>2. p \notin UsableSources(kind)' BY <1>4, <1>5 DEF UsableSources, Whole
  <2>3. QED BY <1>1, <1>4, <2>1, <2>2, Discarding
<1>6. CASE ~Repeats(values) /\ Exceeds(values, Exposed(kind), kind)
  <2>1. Discard("exceeds") BY <1>1, <1>2, <1>6 DEF Add
  <2>2. p \notin UsableSources(kind)' BY <1>1, <1>2, <1>3, <1>4, <1>6, ExceedsUnusable
  <2>3. QED BY <1>1, <1>4, <2>1, <2>2, Discarding
<1>7. CASE ~Repeats(values) /\ ~Exceeds(values, Exposed(kind), kind)
  <2>1. AddedOf(p, kind, values) BY <1>1, <1>2, <1>7 DEF Add, AddedOf, NextSource
  <2>2. QED BY <2>1 DEF Added
<1>8. QED BY <1>5, <1>6, <1>7

LEMMA NotReceived ==
    ASSUME SourcesInv, ReadingInv, phase = "loading", next # NoNext, UNCHANGED <<sources, taken>>,
           NEW p, p = position, NEW kind
    PROVE  p \notin UsableSources(kind)'
<1>1. ~Received(p) BY DEF Received, ReadingInv
<1>2. ~Whole(p)' BY <1>1, SameSource DEF Whole
<1>3. QED BY <1>2 DEF UsableSources

LEMMA GivingUp ==
    ASSUME SourcesInv, ReadingInv, GiveUp
    PROVE  PassedBy
<1>1. PICK p, kind : p = position /\ kind = sources[p].of OBVIOUS
<1>2. UNCHANGED <<sources, taken>> BY DEF GiveUp, call
<1>3. p \notin UsableSources(kind)' BY <1>1, <1>2, NotReceived DEF GiveUp
<1>4. SameBelow BY <1>2 DEF SameBelow
<1>5. position \in DOMAIN sources BY DEF GiveUp, ReadingInv
<1>6. PICK reason : Discard(reason) BY DEF GiveUp
<1>7. QED BY <1>1, <1>2, <1>3, <1>4, <1>5, <1>6, Discarding

LEMMA TakingInline ==
    ASSUME SourcesInv, ReadingInv, ExposedInv, TakeInline
    PROVE  Added \/ PassedBy
<1>1. position \in DOMAIN sources
  <2>1. DOMAIN sources = 1..Len(sources) /\ Len(sources) \in Nat BY Listed DEF SourcesInv, AreSources
  <2>2. QED BY <2>1 DEF TakeInline, ReadingInv
<1>2. /\ Composing /\ UNCHANGED <<sources, taken>> /\ Received(position)
      /\ Add(ValuesOf(position))
  BY DEF TakeInline, Composing, call, Received, Source, ValuesOf
<1>3. QED BY <1>1, <1>2, AddingTaken

LEMMA TakingLinked ==
    ASSUME SourcesInv, ReadingInv, ExposedInv, TakeLinked
    PROVE  Added \/ PassedBy
<1>1. position \in DOMAIN sources /\ sources[position].published.kind = "linked"
  BY DEF TakeLinked, ReadingInv
<1>2. Composing /\ UNCHANGED <<sources, taken>> BY DEF TakeLinked, Composing, call
<1>3. ValuesOf(position) = Items(Pages) BY <1>1 DEF ValuesOf, Pages
<1>4. Add(ValuesOf(position)) BY <1>3 DEF TakeLinked
<1>5. taken[position] # <<>> /\ Last(taken[position]).next = NoNext BY DEF TakeLinked, ReadingInv
<1>6. Cardinality(Visited(taken[position])) = Len(taken[position])
  BY <1>1, PagesCounted DEF ReadingInv
<1>7. Received(position) BY <1>5, <1>6 DEF Received
<1>8. QED BY <1>1, <1>2, <1>4, <1>7, AddingTaken

(* A page loaded: it is one more of the source's, and passes what may be   *)
(* exposed, or the source is passed by, or its next page is asked for.     *)
Loaded(pages) ==
    /\ ArePages(pages) /\ pages # <<>>
    /\ taken' = [taken EXCEPT ![position] = pages]
    /\ UNCHANGED sources /\ phase = "loading"

LEMMA LoadedSame ==
    ASSUME SourcesInv, ReadingInv, NEW pages, Loaded(pages)
    PROVE  /\ DOMAIN taken' = DOMAIN taken /\ SameBelow
           /\ \A i \in DOMAIN sources : i # position => taken'[i] = taken[i]
           /\ taken'[position] = pages /\ position \in DOMAIN sources
<1>1. DOMAIN sources = 1..Len(sources) /\ Len(sources) \in Nat BY Listed DEF SourcesInv, AreSources
<1>2. position \in DOMAIN sources /\ DOMAIN taken = DOMAIN sources BY DEF ReadingInv, Loaded
<1>3. /\ DOMAIN taken' = DOMAIN taken /\ taken'[position] = pages
      /\ \A i \in DOMAIN sources : i # position => taken'[i] = taken[i]
  BY <1>2 DEF Loaded
<1>4. SameBelow BY <1>1, <1>2, <1>3 DEF SameBelow
<1>5. QED BY <1>2, <1>3, <1>4

LEMMA LoadedTooMuch ==
    ASSUME SourcesInv, ReadingInv, ExposedInv, NEW pages, Loaded(pages),
           Len(Items(pages)) > Budget(Source.of), Discard("exceeds")
    PROVE  PassedBy
<1>1. PICK p, kind : p = position /\ kind = sources[p].of OBVIOUS
<1>2. /\ DOMAIN taken' = DOMAIN taken /\ SameBelow
      /\ taken'[p] = pages /\ position \in DOMAIN sources
  BY <1>1, LoadedSame
<1>3. sources[p].published.kind = "linked" /\ UNCHANGED sources BY <1>1 DEF ReadingInv, Loaded
<1>4. Items(pages) = ValuesOf(p)' BY <1>2, <1>3 DEF ValuesOf
<1>5. Len(Items(pages)) \in Nat BY ItemsAreDefinitions, IdentifiersCounted DEF Loaded
<1>6. kind \in Kinds /\ Source.of = kind BY <1>1, <1>2, SourceAt
<1>7. ExposedOf(kind) BY <1>6 DEF ExposedInv, Composing, Loaded
<1>8. Exceeds(Items(pages), Exposed(kind), kind)
  <2>1. Len(Items(pages)) > MaximumOf[kind] - Cardinality(DOMAIN Exposed(kind)) BY <1>6 DEF Budget
  <2>2. MaximumOf[kind] \in Nat /\ Cardinality(DOMAIN Exposed(kind)) \in Nat
    BY <1>6, <1>7, MaximumTyped, FS_CardinalityType DEF ExposedOf
  <2>3. \A l, m, c \in Nat : l > m - c => c + l > m OBVIOUS
  <2>4. QED BY <1>5, <2>1, <2>2, <2>3 DEF Exceeds
<1>9. p \notin UsableSources(kind)' BY <1>1, <1>2, <1>3, <1>4, <1>5, <1>7, <1>8, ExceedsUnusable
<1>10. QED BY <1>1, <1>2, <1>3, <1>9, Discarding

LEMMA Loading ==
    ASSUME SettingInv, SourcesInv, ReadingInv, LoadPage
    PROVE  \/ \E reason : Discard(reason) /\ UNCHANGED taken
           \/ \E pages :
                  /\ Loaded(pages)
                  /\ \/ Len(Items(pages)) > Budget(Source.of) /\ Discard("exceeds")
                     \/ /\ next' = Last(pages).next
                        /\ UNCHANGED <<phase, position, result>>
<1>1. position \in DOMAIN sources BY DEF LoadPage, ReadingInv
<1>2. PICK failed \in BOOLEAN :
          LET address == Address(next)
              answered == ~failed /\ address \in DOMAIN Publishes.pages
              page == IF answered THEN NormalPage(Source.of, Publishes.pages[address]) ELSE NoPage
              pages == Append(Pages, [address |-> address, items |-> page.items, next |-> page.next])
          IN  IF ~answered \/ ~PageParses(page)
              THEN Discard("retrieval") /\ UNCHANGED taken
              ELSE /\ taken' = [taken EXCEPT ![position] = pages]
                   /\ IF Len(Items(pages)) > Budget(Source.of) THEN Discard("exceeds")
                      ELSE next' = page.next /\ UNCHANGED <<phase, position, result>>
  BY DEF LoadPage
<1> DEFINE address == Address(next)
           answered == ~failed /\ address \in DOMAIN Publishes.pages
           page == IF answered THEN NormalPage(Source.of, Publishes.pages[address]) ELSE NoPage
           entry == [address |-> address, items |-> page.items, next |-> page.next]
           pages == Append(Pages, entry)
<1>3. CASE ~answered \/ ~PageParses(page) BY <1>2, <1>3
<1>4. CASE ~(~answered \/ ~PageParses(page))
  <2>1. /\ taken' = [taken EXCEPT ![position] = pages]
        /\ IF Len(Items(pages)) > Budget(Source.of) THEN Discard("exceeds")
           ELSE next' = page.next /\ UNCHANGED <<phase, position, result>>
    BY <1>2, <1>4
  <2>2. AreDefinitions(page.items) BY <1>4, PageParsed
  <2>3. address \notin Visited(Pages) /\ ~TooManyPages(Pages) BY DEF LoadPage
  <2>4. ArePages(Pages) BY <1>1, SourceAt
  <2>5. entry.address = address /\ entry.items = page.items /\ entry.next = page.next OBVIOUS
  <2> HIDE DEF address, answered, page, entry
  <2>6. ArePages(pages) /\ pages # <<>> /\ Last(pages) = entry
    BY <2>2, <2>3, <2>4, <2>5, PageAdded
  <2> HIDE DEF pages
  <2>7. Loaded(pages) BY <2>1, <2>6 DEF Loaded, LoadPage, call
  <2>8. QED BY <2>1, <2>5, <2>6, <2>7
<1>5. QED BY <1>3, <1>4

-----------------------------------------------------------------------------
(* The rest of the invariant, when a source is done with.                  *)
LEMMA MovedOn ==
    ASSUME SourcesInv, ReadingInv, UNCHANGED sources, position \in DOMAIN sources, NextSource,
           DOMAIN taken' = DOMAIN taken,
           \A i \in DOMAIN sources : i # position => taken'[i] = taken[i],
           ArePages(taken'[position])
    PROVE  ReadingInv'
<1>1. DOMAIN sources = 1..Len(sources) /\ Len(sources) \in Nat BY Listed DEF SourcesInv, AreSources
<1>2. position' = position + 1 /\ phase' = "composing" BY DEF NextSource
<1>3. position' \in 1..(Len(sources') + 1) BY <1>1, <1>2
<1>4. DOMAIN taken' = DOMAIN sources' BY DEF ReadingInv
<1>5. \A i \in DOMAIN sources : i >= position' => i # position /\ i > position BY <1>1, <1>2
<1>6. \A i \in DOMAIN sources : i > position' => i >= position' BY <1>1, <1>2
<1>7. \A i \in DOMAIN sources : i >= position' => taken'[i] = <<>>
  BY <1>5 DEF ReadingInv
<1>8. \A i \in DOMAIN sources : ArePages(taken'[i]) BY DEF ReadingInv
<1>9. position' \in DOMAIN sources => position' >= position' BY <1>1
<1>10. QED BY <1>2, <1>3, <1>4, <1>6, <1>7, <1>8, <1>9 DEF ReadingInv

LEMMA IssueAdded ==
    ASSUME IssuesInv, NEW scope \in {"service", "collection"}, NEW kind \in Kinds, NEW about,
           issues' = Append(issues, Issue(scope, kind, about))
    PROVE  IssuesInv'
<1>1. PICK issue : issue = Issue(scope, kind, about) OBVIOUS
<1>2. issue.scope \in {"service", "collection"} /\ issue.kind \in Kinds BY <1>1 DEF Issue
<1>3. IsList(issues') /\ ToSet(issues') = ToSet(issues) \cup {issue}
  BY <1>1, ListExtended DEF IssuesInv
<1>4. QED BY <1>2, <1>3 DEF IssuesInv

LEMMA IssuesStill ==
    ASSUME SourcesInv, ReadingInv, IssuesInv, Added \/ PassedBy
    PROVE  IssuesInv'
<1>1. CASE Added
  <2>1. PICK p, kind, values : AddedOf(p, kind, values) BY <1>1 DEF Added
  <2>2. kind \in Kinds /\ sources[p].scope \in {"service", "collection"}
    BY <2>1, KindsTyped DEF AddedOf
  <2>3. CASE Conflicts(values, Exposed(kind)) = {}
    <3>1. issues' = issues BY <2>1, <2>3 DEF AddedOf
    <3>2. QED BY <3>1 DEF IssuesInv
  <2>4. CASE Conflicts(values, Exposed(kind)) # {}
    <3>1. issues' = Append(issues, Issue(sources[p].scope, kind, Naming(Conflicts(values, Exposed(kind)))))
      BY <2>1, <2>4 DEF AddedOf
    <3>2. QED BY <2>2, <3>1, IssueAdded
  <2>5. QED BY <2>3, <2>4
<1>2. CASE PassedBy
  <2>1. PICK reason : issues' = Append(issues, Issue(Source.scope, Source.of, Because(reason)))
    BY <1>2 DEF PassedBy
  <2>2. Source.of \in Kinds /\ Source.scope \in {"service", "collection"}
    BY <1>2, SourceAt DEF PassedBy
  <2>3. QED BY <2>1, <2>2, IssueAdded
<1>3. QED BY <1>1, <1>2

(* A source done with, and nothing else of the call.                       *)
LEMMA DoneWith ==
    ASSUME IInv, Composing, Added \/ PassedBy, NextSource,
           UNCHANGED <<call, edition>>, DOMAIN taken' = DOMAIN taken,
           \A i \in DOMAIN sources : i # position => taken'[i] = taken[i],
           position \in DOMAIN sources, ArePages(taken'[position])
    PROVE  IInv'
<1> USE DEF IInv
<1>1. phase' = "composing" /\ UNCHANGED <<setting, collection, sources>> BY DEF NextSource, call
<1>2. SettingInv' BY <1>1 DEF SettingInv
<1>3. SourcesInv' BY <1>1 DEF SourcesInv
<1>4. ReadingInv' BY <1>1, MovedOn
<1>5. ExposedInv' BY Adding, PassingBy
<1>6. IssuesInv' BY IssuesStill
<1>7. StartInv' BY <1>1 DEF StartInv, Asking
<1>8. ReturnedInv' BY <1>1 DEF ReturnedInv, ExposedIsUnambiguous
<1>9. QED BY <1>2, <1>3, <1>4, <1>5, <1>6, <1>7, <1>8

LEMMA DoneWithPages ==
    ASSUME IInv, Composing, Added \/ PassedBy, NextSource, UNCHANGED <<call, edition, taken>>,
           position \in DOMAIN sources
    PROVE  IInv'
BY DoneWith DEF IInv, ReadingInv

(* Between two sources, and between two pages.                             *)
LEMMA GoingOn ==
    ASSUME IInv, Composing, Composing', UNCHANGED <<call, position, result>>, SameBelow,
           setting' = setting, edition' \in DOMAIN setting.editions, ReadingInv'
    PROVE  IInv'
<1> USE DEF IInv
<1>1. UNCHANGED <<setting, collection, sources, filters, sorts, issues>> BY DEF call, result
<1>2. SettingInv' BY <1>1 DEF SettingInv
<1>3. SourcesInv' BY <1>1 DEF SourcesInv
<1>4. ExposedInv' BY <1>1, Staying
<1>5. IssuesInv' BY <1>1 DEF IssuesInv
<1>6. StartInv' BY DEF StartInv, Asking, Composing
<1>7. ReturnedInv' BY DEF ReturnedInv, ExposedIsUnambiguous, Composing
<1>8. QED BY <1>2, <1>3, <1>4, <1>5, <1>6, <1>7

(* Before there are sources.                                               *)
LEMMA NoSources ==
    ASSUME IInv, Asking
    PROVE  /\ sources = <<>> /\ issues = <<>> /\ filters = Empty /\ sorts = Empty
           /\ DOMAIN sources = {} /\ DOMAIN taken = {} /\ position = 1
BY DEF IInv, StartInv, ReadingInv

LEMMA AskingOn ==
    ASSUME IInv, Asking, Asking' \/ phase' = "failed", UNCHANGED <<sources, position, taken, result>>,
           SettingInv', phase' \in {"getting", "fetching"} => collection' = NoCollection
    PROVE  IInv'
<1> USE DEF IInv
<1>1. /\ sources = <<>> /\ issues = <<>> /\ filters = Empty /\ sorts = Empty
      /\ DOMAIN sources = {} /\ DOMAIN taken = {} /\ position = 1
  BY NoSources
<1>2. UNCHANGED <<filters, sorts, issues>> BY DEF result
<1>3. SourcesInv' BY DEF SourcesInv
<1>4. phase' \notin {"composing", "loading", "returned"} BY DEF Asking
<1>5. ReadingInv' BY <1>1, <1>4 DEF ReadingInv
<1>6. ExposedInv' BY <1>4 DEF ExposedInv, Composing
<1>7. IssuesInv' BY <1>2 DEF IssuesInv
<1>8. StartInv' BY <1>1, <1>2 DEF StartInv, Asking
<1>9. ReturnedInv' BY <1>4 DEF ReturnedInv, ExposedIsUnambiguous
<1>10. QED BY <1>3, <1>5, <1>6, <1>7, <1>8, <1>9

-----------------------------------------------------------------------------
(* What is said of the sources, while they and their pages stay.           *)
LEMMA SameSources ==
    ASSUME UNCHANGED <<sources, taken>>
    PROVE  /\ \A i : ValuesOf(i)' = ValuesOf(i)
           /\ \A kind : UsableSources(kind)' = UsableSources(kind)
           /\ \A kind : Published(kind)' = Published(kind) /\ Unambiguous(kind)' = Unambiguous(kind)
           /\ \A kind, id : Publishers(kind, id)' = Publishers(kind, id)
           /\ \A kind, id, entry : AsPublished(kind, id, entry)' <=> AsPublished(kind, id, entry)
           /\ ResolvedSorts' = ResolvedSorts
<1>1. \A i : ValuesOf(i)' = ValuesOf(i) BY SameSource
<1>2. \A i : Whole(i)' <=> Whole(i) BY SameSource
<1>3. \A i : Fits(i)' <=> Fits(i) BY <1>1, <1>2 DEF Fits
<1>4. \A kind : UsableSources(kind)' = UsableSources(kind) BY <1>2, <1>3 DEF UsableSources
<1>5. \A kind, id : Publishers(kind, id)' = Publishers(kind, id) BY <1>1, <1>4 DEF Publishers
<1>6. \A kind : Published(kind)' = Published(kind) BY <1>1, <1>4 DEF Published
<1>7. \A kind : Unambiguous(kind)' = Unambiguous(kind) BY <1>5, <1>6 DEF Unambiguous
<1>8. \A kind, id, entry : AsPublished(kind, id, entry)' <=> AsPublished(kind, id, entry)
  BY <1>1, <1>5 DEF AsPublished
<1>9. ResolvedSorts' = ResolvedSorts BY <1>1, <1>5, <1>7 DEF ResolvedSorts
<1>10. QED BY <1>1, <1>4, <1>5, <1>6, <1>7, <1>8, <1>9

LEMMA ReturnedStays ==
    ASSUME ReturnedInv, UNCHANGED <<sources, taken, filters, sorts, issues, phase>>
    PROVE  ReturnedInv'
<1>1. CASE phase # "returned" BY <1>1 DEF ReturnedInv, ExposedIsUnambiguous
<1>2. CASE phase = "returned"
  <2>1. \A kind : Exposed(kind)' = Exposed(kind) BY SameExposed
  <2>2. /\ DOMAIN filters' = Unambiguous("filters")' /\ DOMAIN sorts' = ResolvedSorts'
    BY <1>2, SameSources DEF ReturnedInv, ExposedIsUnambiguous
  <2>3. \A kind \in Kinds : \A id \in DOMAIN Exposed(kind)' : AsPublished(kind, id, Exposed(kind)[id])'
    BY <1>2, <2>1, SameSources DEF ReturnedInv, ExposedIsUnambiguous
  <2>4. \A i \in DOMAIN sources' :
            i \in UsableSources(sources[i].of)' \/
                \E issue \in ToSet(issues') :
                    /\ issue.scope = sources'[i].scope /\ issue.kind = sources'[i].of
                    /\ "reason" \in DOMAIN issue.about
    BY <1>2, SameSources DEF ReturnedInv, ExposedIsUnambiguous
  <2>5. \A kind \in Kinds : Published(kind)' \ Unambiguous(kind)' # {} =>
            Issue("collection", kind, Naming(Published(kind)' \ Unambiguous(kind)')) \in ToSet(issues')
    BY <1>2, SameSources DEF ReturnedInv, ExposedIsUnambiguous
  <2>6. \A id \in Unambiguous("sorts")' \ ResolvedSorts' : \E i \in Publishers("sorts", id)' :
            Issue(sources'[i].scope, "sorts", Naming({id})) \in ToSet(issues')
    BY <1>2, SameSources DEF ReturnedInv, ExposedIsUnambiguous
  <2>7. ExposedIsUnambiguous' BY <2>2, <2>3, <2>4, <2>5, <2>6 DEF ExposedIsUnambiguous, Issue, Naming
  <2>8. QED BY <1>2, <2>1, <2>7 DEF ReturnedInv
<1>3. QED BY <1>1, <1>2

(* When every source is done with, exposed is what exactly one publishes.  *)
LEMMA AtTheEnd ==
    ASSUME SourcesInv, ReadingInv, position > Len(sources), NEW kind
    PROVE  /\ Before(kind) = UsableSources(kind) /\ Published(kind) = PublishedBefore(kind)
           /\ Unambiguous(kind) = OnceBefore(kind)
           /\ Contested(kind) = Published(kind) \ Unambiguous(kind)
           /\ \A id \in Unambiguous(kind) : \E i : Publishers(kind, id) = {i}
           /\ \A i \in DOMAIN sources : i < position
<1>1. DOMAIN sources = 1..Len(sources) /\ Len(sources) \in Nat BY Listed DEF SourcesInv, AreSources
<1>2. \A i \in DOMAIN sources : i < position BY <1>1 DEF ReadingInv
<1>3. Before(kind) = UsableSources(kind) BY <1>2 DEF Before, UsableSources
<1>4. Published(kind) = PublishedBefore(kind) BY <1>3 DEF Published, PublishedBefore, Given
<1>5. IsFiniteSet(DOMAIN sources) BY <1>1, FS_Interval
<1>6. ASSUME NEW id \in Published(kind)
      PROVE  /\ Cardinality(Publishers(kind, id)) = 1 <=> \E i : Publishers(kind, id) = {i}
             /\ (\E i : Publishers(kind, id) = {i}) <=>
                    \A i, j \in Before(kind) : id \in Given(i) /\ id \in Given(j) => i = j
  <2>1. Publishers(kind, id) \subseteq DOMAIN sources BY DEF Publishers, UsableSources
  <2>2. IsFiniteSet(Publishers(kind, id)) BY <1>5, <2>1, FS_Subset
  <2>3. Cardinality(Publishers(kind, id)) = 1 <=> \E i : Publishers(kind, id) = {i}
    BY <2>2, FS_Singleton
  <2>4. Publishers(kind, id) = {i \in Before(kind) : id \in Given(i)} BY <1>3 DEF Publishers, Given
  <2>5. \E i \in Before(kind) : id \in Given(i) BY <1>4 DEF PublishedBefore
  <2>6. (\E i : Publishers(kind, id) = {i}) <=>
            \A i, j \in Before(kind) : id \in Given(i) /\ id \in Given(j) => i = j
    BY <2>4, <2>5
  <2>7. QED BY <2>3, <2>6
<1>7. Unambiguous(kind) = OnceBefore(kind) BY <1>4, <1>6 DEF Unambiguous, OnceBefore
<1>8. \A id \in Unambiguous(kind) : \E i : Publishers(kind, id) = {i} BY <1>6 DEF Unambiguous
<1>9. QED BY <1>2, <1>3, <1>4, <1>7, <1>8 DEF Contested

(* An identifier exposed then has one publisher, and one definition there. *)
LEMMA ExposedThen ==
    ASSUME SourcesInv, ReadingInv, position > Len(sources), NEW kind, ExposedOf(kind),
           NEW id \in DOMAIN Exposed(kind)
    PROVE  /\ id \in Int
           /\ \E i \in DOMAIN sources :
                  /\ Publishers(kind, id) = {i} /\ GivenAs(i, id, Exposed(kind)[id])
                  /\ \A v \in ToSet(ValuesOf(i)) : v.id = id => v = Exposed(kind)[id].definition
<1>1. PICK i \in Before(kind) : GivenAs(i, id, Exposed(kind)[id]) BY DEF ExposedOf
<1>2. i \in UsableSources(kind) /\ i \in DOMAIN sources BY <1>1, SourcesBefore
<1>3. AreDefinitions(ValuesOf(i)) BY <1>2, ValuesAreDefinitions
<1>4. /\ Identifiers(ValuesOf(i)) = {v.id : v \in ToSet(ValuesOf(i))}
      /\ ~Repeats(ValuesOf(i)) => \A v, w \in ToSet(ValuesOf(i)) : v.id = w.id => v = w
  BY <1>3, IdentifiersCounted
<1>5. ~Repeats(ValuesOf(i)) BY <1>2 DEF UsableSources, Whole
<1>6. id \in Identifiers(ValuesOf(i)) BY <1>1, <1>4 DEF GivenAs
<1>7. i \in Publishers(kind, id) BY <1>2, <1>6 DEF Publishers
<1>8. id \in Unambiguous(kind) BY AtTheEnd DEF ExposedOf
<1>9. Publishers(kind, id) = {i} BY <1>7, <1>8, AtTheEnd
<1>10. id \in Int BY <1>1, <1>3 DEF GivenAs, AreDefinitions
<1>11. \A v \in ToSet(ValuesOf(i)) : v.id = id => v = Exposed(kind)[id].definition
  BY <1>1, <1>4, <1>5 DEF GivenAs
<1>12. QED BY <1>1, <1>2, <1>9, <1>10, <1>11

LEMMA WholeSorts ==
    ASSUME SourcesInv, ReadingInv, position > Len(sources), ExposedOf("filters"), ExposedOf("sorts")
    PROVE  {id \in DOMAIN sorts : Resolvable(sorts[id])} = ResolvedSorts
<1>1. DOMAIN filters = Unambiguous("filters") BY AtTheEnd DEF ExposedOf, Exposed
<1>2. DOMAIN sorts = Unambiguous("sorts") BY AtTheEnd DEF ExposedOf, Exposed
<1>3. ASSUME NEW id \in DOMAIN sorts
      PROVE  Resolvable(sorts[id]) <=>
                 \A v \in UNION {ToSet(ValuesOf(i)) : i \in Publishers("sorts", id)} :
                     v.id = id => \A k \in ToSet(v.keys) : k.filter \in Unambiguous("filters")
  <2>1. Exposed("sorts") = sorts BY DEF Exposed
  <2>2. PICK i \in DOMAIN sources :
            /\ Publishers("sorts", id) = {i} /\ GivenAs(i, id, sorts[id])
            /\ \A v \in ToSet(ValuesOf(i)) : v.id = id => v = sorts[id].definition
    BY <2>1, ExposedThen
  <2>3. UNION {ToSet(ValuesOf(j)) : j \in Publishers("sorts", id)} = ToSet(ValuesOf(i)) BY <2>2
  <2>4. sorts[id].definition \in ToSet(ValuesOf(i)) /\ sorts[id].definition.id = id
    BY <2>2 DEF GivenAs
  <2>5. Resolvable(sorts[id]) <=> \A k \in ToSet(sorts[id].definition.keys) : k.filter \in DOMAIN filters
    BY DEF Resolvable
  <2>6. QED BY <1>1, <2>2, <2>3, <2>4, <2>5
<1>4. QED BY <1>2, <1>3 DEF ResolvedSorts

LEMMA ListJoined ==
    ASSUME NEW s, IsList(s), NEW n \in Nat, NEW t, DOMAIN t = 1..n, t = [i \in 1..n |-> t[i]]
    PROVE  IsList(s \o t) /\ ToSet(s \o t) = ToSet(s) \cup {t[i] : i \in 1..n}
<1> DEFINE S == ToSet(s) \cup {t[i] : i \in 1..n}
<1>1. s \in Seq(S) /\ t \in Seq(S)
  <2>1. s \in Seq(S) BY DEF IsList
  <2>2. t \in [1..n -> S] OBVIOUS
  <2> HIDE DEF S
  <2>3. QED BY <2>1, <2>2
<1>2. DOMAIN s = 1..Len(s) /\ Len(s) \in Nat /\ Len(t) = n BY Listed
<1> HIDE DEF S
<1>3. /\ s \o t \in Seq(S) /\ Len(s \o t) = Len(s) + n
      /\ \A i \in 1..(Len(s) + n) : (s \o t)[i] = IF i <= Len(s) THEN s[i] ELSE t[i - Len(s)]
  BY <1>1, <1>2, ConcatProperties
<1>4. DOMAIN (s \o t) = 1..(Len(s) + n) BY <1>3
<1>5. \A i \in DOMAIN s : i \in DOMAIN (s \o t) /\ (s \o t)[i] = s[i] BY <1>2, <1>3, <1>4
<1>6. ASSUME NEW i \in 1..n PROVE Len(s) + i \in DOMAIN (s \o t) /\ (s \o t)[Len(s) + i] = t[i]
  <2>1. Len(s) + i \in 1..(Len(s) + n) /\ ~(Len(s) + i <= Len(s)) /\ (Len(s) + i) - Len(s) = i BY <1>2
  <2>2. QED BY <1>3, <1>4, <2>1
<1>7. ToSet(s \o t) \subseteq S BY <1>3, ListOfItsOwn
<1>8. S \subseteq ToSet(s \o t)
  <2>1. \A i \in DOMAIN (s \o t) : (s \o t)[i] \in ToSet(s \o t) BY DEF ToSet
  <2>2. \A x \in ToSet(s) : \E i \in DOMAIN s : s[i] = x BY Listed
  <2>3. ToSet(s) \subseteq ToSet(s \o t) BY <1>5, <2>1, <2>2
  <2>4. \A i \in 1..n : t[i] \in ToSet(s \o t) BY <1>6, <2>1
  <2>5. QED BY <2>3, <2>4 DEF S
<1>9. QED BY <1>3, <1>7, <1>8, ListOfItsOwn DEF S

-----------------------------------------------------------------------------
(* The call returns: it says which sorts it leaves out.                    *)
LEMMA Returning ==
    ASSUME IInv, Return
    PROVE  IInv'
<1> USE DEF IInv
<1> DEFINE whole == {id \in DOMAIN sorts : Resolvable(sorts[id])}
           left == DOMAIN sorts \ whole
           missing == InOrder(left)
           note(id) == Issue(sorts[id].scope, "sorts", Naming({id}))
           notes == [i \in DOMAIN missing |-> note(missing[i])]
<1>1. /\ phase = "composing" /\ position > Len(sources) /\ phase' = "returned"
      /\ UNCHANGED <<setting, edition, collection, sources, position, next, taken, filters>>
  BY DEF Return, call
<1>2. sorts' = [id \in whole |-> sorts[id]] BY DEF Return, Restrict
<1>3. issues' = issues \o notes BY DEF Return
<1>4. ExposedOf("filters") /\ ExposedOf("sorts") BY <1>1 DEF ExposedInv, Composing, Kinds
<1>5. Exposed("sorts") = sorts /\ Exposed("filters") = filters BY DEF Exposed
<1>6. whole = ResolvedSorts BY <1>1, <1>4, WholeSorts
<1>7. /\ DOMAIN filters = Unambiguous("filters") /\ DOMAIN sorts = Unambiguous("sorts")
  BY <1>1, <1>4, <1>5, AtTheEnd DEF ExposedOf
<1>8. IsFiniteSet(DOMAIN sorts) /\ IsFiniteSet(left) /\ left \subseteq Int
  <2>1. IsFiniteSet(DOMAIN sorts) BY <1>4, <1>5 DEF ExposedOf
  <2>2. IsFiniteSet(left) BY <2>1, FS_Difference
  <2>3. DOMAIN sorts \subseteq Int BY <1>1, <1>4, <1>5, ExposedThen
  <2>4. QED BY <2>1, <2>2, <2>3
<1> HIDE DEF whole, left
<1>9. PICK n \in Nat : DOMAIN missing = 1..n BY <1>8, InOrderIsAll
<1>10. /\ \A i \in 1..n : missing[i] \in left
       /\ \A id \in left : \E i \in 1..n : missing[i] = id
  BY <1>8, <1>9, InOrderIsAll
<1> HIDE DEF missing
<1>11. DOMAIN notes = 1..n /\ notes = [i \in 1..n |-> notes[i]] /\ \A i \in 1..n : notes[i] = note(missing[i])
  BY <1>9
<1> HIDE DEF notes, note
<1>12. IsList(issues') /\ ToSet(issues') = ToSet(issues) \cup {notes[i] : i \in 1..n}
  BY <1>3, <1>11, ListJoined DEF IssuesInv
<1>13. \A id \in left : note(id) \in ToSet(issues') BY <1>10, <1>11, <1>12
<1>14. ToSet(issues) \subseteq ToSet(issues') BY <1>12
<1>15. ASSUME NEW id \in DOMAIN sorts
       PROVE  \E i \in DOMAIN sources : Publishers("sorts", id) = {i} /\ GivenAs(i, id, sorts[id])
  BY <1>1, <1>4, <1>5, ExposedThen
<1>16. IssuesInv'
  <2>1. ASSUME NEW i \in 1..n
        PROVE  notes[i].scope \in {"service", "collection"} /\ notes[i].kind \in Kinds
    <3>1. missing[i] \in DOMAIN sorts BY <1>10 DEF left
    <3>2. sorts[missing[i]].scope \in {"service", "collection"} BY <1>15, <3>1, KindsTyped DEF GivenAs
    <3>3. notes[i] = Issue(sorts[missing[i]].scope, "sorts", Naming({missing[i]})) BY <1>11 DEF note
    <3>4. QED BY <3>2, <3>3 DEF Issue, Kinds
  <2>2. QED BY <1>12, <2>1 DEF IssuesInv
<1>17. SettingInv' /\ SourcesInv' BY <1>1 DEF SettingInv, SourcesInv
<1>18. ReadingInv' BY <1>1 DEF ReadingInv
<1>19. ExposedInv' BY <1>1 DEF ExposedInv, Composing
<1>20. StartInv' BY <1>1 DEF StartInv, Asking
<1>21. whole \subseteq DOMAIN sorts /\ DOMAIN sorts' = whole /\ \A id \in whole : sorts'[id] = sorts[id]
  BY <1>2 DEF whole
<1>22. Exposed("sorts")' = sorts' /\ Exposed("filters")' = filters BY <1>1 DEF Exposed
<1>23. \A kind \in Kinds : Cardinality(DOMAIN Exposed(kind)') <= MaximumOf[kind]
  <2>1. Cardinality(DOMAIN filters) <= MaximumOf["filters"] /\ Cardinality(DOMAIN sorts) <= MaximumOf["sorts"]
    BY <1>4, <1>5 DEF ExposedOf
  <2>2. Cardinality(whole) <= Cardinality(DOMAIN sorts) BY <1>8, <1>21, FS_Subset
  <2>3. Cardinality(whole) \in Nat /\ Cardinality(DOMAIN sorts) \in Nat
    BY <1>8, <1>21, FS_Subset, FS_CardinalityType
  <2>4. MaximumOf["sorts"] \in Nat BY MaximumTyped DEF Kinds
  <2>5. Cardinality(whole) <= MaximumOf["sorts"] BY <2>1, <2>2, <2>3, <2>4
  <2>6. QED BY <1>21, <1>22, <2>1, <2>5 DEF Kinds
<1>24. ExposedIsUnambiguous'
  <2> HIDE DEF IInv
  <2>1. DOMAIN filters' = Unambiguous("filters")' /\ DOMAIN sorts' = ResolvedSorts'
    BY <1>1, <1>6, <1>7, <1>21, SameSources
  <2>2. ASSUME NEW kind \in Kinds, NEW id \in DOMAIN Exposed(kind)'
        PROVE  AsPublished(kind, id, Exposed(kind)[id])'
    <3>1. id \in DOMAIN Exposed(kind) /\ Exposed(kind)'[id] = Exposed(kind)[id]
      BY <1>5, <1>21, <1>22, <2>2 DEF Kinds
    <3>2. PICK entry : entry = Exposed(kind)[id] OBVIOUS
    <3>3. AsPublished(kind, id, entry)
      <4>1. ExposedOf(kind) BY <1>4, <2>2 DEF Kinds
      <4>2. PICK i \in DOMAIN sources : Publishers(kind, id) = {i} /\ GivenAs(i, id, entry)
        BY <1>1, <3>1, <3>2, <4>1, ExposedThen DEF IInv
      <4>3. QED BY <4>2 DEF AsPublished, GivenAs
    <3>4. AsPublished(kind, id, entry)' BY <1>1, <3>3, SameSources
    <3>5. entry = Exposed(kind)'[id] BY <3>1, <3>2
    <3>6. QED BY <3>4, <3>5
  <2>3. ASSUME NEW i \in DOMAIN sources'
        PROVE  i \in UsableSources(sources[i].of)' \/
                   \E issue \in ToSet(issues') :
                       /\ issue.scope = sources'[i].scope /\ issue.kind = sources'[i].of
                       /\ "reason" \in DOMAIN issue.about
    <3>1. i \in DOMAIN sources /\ i < position BY <1>1, <2>3, AtTheEnd DEF IInv
    <3>2. i \in UsableSources(sources[i].of) \/ IsReported(i)
      BY <1>1, <3>1 DEF IInv, ExposedInv, Composing
    <3>3. QED BY <1>1, <1>14, <3>2, SameSources DEF IsReported
  <2>4. ASSUME NEW kind \in Kinds, Published(kind)' \ Unambiguous(kind)' # {}
        PROVE  Issue("collection", kind, Naming(Published(kind)' \ Unambiguous(kind)')) \in ToSet(issues')
    <3>1. Published(kind)' = Published(kind) /\ Unambiguous(kind)' = Unambiguous(kind)
      BY <1>1, SameSources
    <3>2. Contested(kind) = Published(kind) \ Unambiguous(kind) BY <1>1, AtTheEnd DEF IInv
    <3>3. ExposedOf(kind) BY <1>4, <2>4 DEF Kinds
    <3>4. Issue("collection", kind, Naming(Contested(kind))) \in ToSet(issues')
      BY <1>14, <2>4, <3>1, <3>2, <3>3 DEF ExposedOf
    <3>5. QED BY <3>1, <3>2, <3>4
  <2>5. ASSUME NEW id \in Unambiguous("sorts")' \ ResolvedSorts'
        PROVE  \E i \in Publishers("sorts", id)' :
                   Issue(sources'[i].scope, "sorts", Naming({id})) \in ToSet(issues')
    <3>1. id \in DOMAIN sorts /\ id \in left
      BY <1>1, <1>6, <1>7, <2>5, SameSources DEF left
    <3>2. PICK i \in DOMAIN sources : Publishers("sorts", id) = {i} /\ GivenAs(i, id, sorts[id])
      BY <1>15, <3>1
    <3>3. note(id) = Issue(sources[i].scope, "sorts", Naming({id})) BY <3>2 DEF note, GivenAs
    <3>4. Publishers("sorts", id)' = {i} BY <1>1, <3>2, SameSources
    <3>5. QED BY <1>1, <1>13, <3>1, <3>3, <3>4
  <2>6. QED BY <2>1, <2>2, <2>3, <2>4, <2>5 DEF ExposedIsUnambiguous, Issue, Naming
<1>25. ReturnedInv' BY <1>23, <1>24 DEF ReturnedInv
<1>26. QED BY <1>16, <1>17, <1>18, <1>19, <1>20, <1>25

(* The second inspection: the sources are there, or there is no search.    *)
LEMMA NothingGiven ==
    ASSUME sources = <<>>
    PROVE  /\ \A kind : UsableSources(kind) = {} /\ Unambiguous(kind) = {} /\ Published(kind) = {}
           /\ ResolvedSorts = {}
<1>1. \A kind : UsableSources(kind) = {} BY DEF UsableSources
<1>2. \A kind : Published(kind) = {} /\ Unambiguous(kind) = {} BY <1>1 DEF Published, Unambiguous
<1>3. QED BY <1>1, <1>2 DEF ResolvedSorts

LEMMA NothingExposed ==
    ASSUME filters = Empty, sorts = Empty, NEW kind \in Kinds
    PROVE  /\ DOMAIN Exposed(kind) = {} /\ IsFiniteSet(DOMAIN Exposed(kind))
           /\ Cardinality(DOMAIN Exposed(kind)) <= MaximumOf[kind]
BY MaximumTyped, FS_EmptySet DEF Exposed, Empty

LEMMA Searchless ==
    ASSUME IInv, Asking, phase' = "returned",
           UNCHANGED <<setting, edition, collection, sources, position, taken, filters, sorts>>,
           issues' = <<>> \/ issues' = <<Issue("collection", "filters", Because("search-offerings"))>>
    PROVE  IInv'
<1> USE DEF IInv
<1>1. /\ sources = <<>> /\ filters = Empty /\ sorts = Empty
      /\ DOMAIN sources = {} /\ DOMAIN taken = {} /\ position = 1
  BY NoSources
<1>2. SettingInv' /\ SourcesInv' BY DEF SettingInv, SourcesInv
<1>3. ReadingInv' BY <1>1 DEF ReadingInv
<1>4. ExposedInv' /\ StartInv' BY DEF ExposedInv, Composing, StartInv, Asking
<1>5. IssuesInv'
  <2>1. PICK issue : issue = Issue("collection", "filters", Because("search-offerings")) OBVIOUS
  <2>2. issue.scope = "collection" /\ issue.kind \in Kinds BY <2>1 DEF Issue, Kinds
  <2>3. IsList(<<>>) /\ IsList(<<issue>>) BY ShortLists
  <2>4. ToSet(<<>>) = {} /\ ToSet(<<issue>>) = {issue} BY DEF ToSet
  <2>5. QED BY <2>1, <2>2, <2>3, <2>4 DEF IssuesInv
<1>6. ReturnedInv'
  <2>1. sources' = <<>> /\ filters' = Empty /\ sorts' = Empty BY <1>1
  <2>2. /\ \A kind : Unambiguous(kind)' = {} /\ Published(kind)' = {}
        /\ ResolvedSorts' = {}
    BY <1>1, NothingGiven, SameSources
  <2>3. \A kind \in Kinds : DOMAIN Exposed(kind)' = {} /\ Cardinality(DOMAIN Exposed(kind)') <= MaximumOf[kind]
    BY <1>1, NothingExposed, SameExposed
  <2>4. DOMAIN filters' = {} /\ DOMAIN sorts' = {} /\ DOMAIN sources' = {} BY <2>1 DEF Empty
  <2>5. QED BY <2>2, <2>3, <2>4 DEF ReturnedInv, ExposedIsUnambiguous
<1>7. QED BY <1>2, <1>3, <1>4, <1>5, <1>6

LEMMA Beginning ==
    ASSUME IInv, Asking, phase' = "composing",
           UNCHANGED <<setting, edition, collection, position, next, filters, sorts, issues>>,
           AreSources(sources'), taken' = [i \in DOMAIN sources' |-> <<>>]
    PROVE  IInv'
<1> USE DEF IInv
<1>1. issues = <<>> /\ filters = Empty /\ sorts = Empty /\ position = 1 BY NoSources
<1>2. DOMAIN sources' = 1..Len(sources') /\ Len(sources') \in Nat BY Listed DEF AreSources
<1>3. SettingInv' /\ IssuesInv' BY DEF SettingInv, IssuesInv
<1>4. SourcesInv' BY DEF SourcesInv
<1>5. ReadingInv'
  <2>1. position' \in 1..(Len(sources') + 1) BY <1>1, <1>2
  <2>2. \A i \in DOMAIN sources' : taken'[i] = <<>> /\ ArePages(taken'[i]) BY NoPages
  <2>3. QED BY <2>1, <2>2 DEF ReadingInv
<1>6. ExposedInv'
  <2>1. \A i \in DOMAIN sources' : ~(i < position') BY <1>1, <1>2
  <2>2. ASSUME NEW kind \in Kinds PROVE ExposedOf(kind)'
    <3>1. Before(kind)' = {} BY <2>1 DEF Before, UsableSources
    <3>2. OnceBefore(kind)' = {} /\ Contested(kind)' = {}
      BY <3>1 DEF PublishedBefore, OnceBefore, Contested
    <3>3. Exposed(kind)' = Exposed(kind) BY SameExposed
    <3>4. /\ DOMAIN Exposed(kind) = {} /\ IsFiniteSet(DOMAIN Exposed(kind))
          /\ Cardinality(DOMAIN Exposed(kind)) <= MaximumOf[kind]
      BY <1>1, NothingExposed
    <3>5. QED BY <3>2, <3>3, <3>4 DEF ExposedOf
  <2>3. QED BY <2>1, <2>2 DEF ExposedInv
<1>7. StartInv' BY DEF StartInv, Asking
<1>8. ReturnedInv' BY DEF ReturnedInv, ExposedIsUnambiguous
<1>9. QED BY <1>3, <1>4, <1>5, <1>6, <1>7, <1>8

-----------------------------------------------------------------------------
(* The invariant, action by action.                                        *)
LEMMA Initially == Init => IInv
<1> SUFFICES ASSUME Init PROVE IInv OBVIOUS
<1>1. /\ setting \in Cases /\ edition = 1 /\ collection = NoCollection
      /\ sources = <<>> /\ position = 1 /\ taken = <<>> /\ issues = <<>>
      /\ filters = Empty /\ sorts = Empty /\ phase \in {"inspecting", "getting"}
  BY DEF Init
<1>2. edition \in DOMAIN setting.editions
  <2>1. IsList(setting.editions) /\ setting.editions # <<>> BY <1>1, CasesAssumption
  <2>2. QED BY <1>1, <2>1, Listed DEF IsList
<1>3. SettingInv BY <1>1, <1>2 DEF SettingInv, NoCollection, ParsedCapabilities
<1>4. IsList(<<>>) BY ShortLists
<1>5. SourcesInv /\ IssuesInv BY <1>1, <1>4 DEF SourcesInv, AreSources, IssuesInv, ToSet
<1>6. ReadingInv BY <1>1 DEF ReadingInv
<1>7. ExposedInv /\ StartInv /\ ReturnedInv
  BY <1>1 DEF ExposedInv, Composing, StartInv, Asking, ReturnedInv, ExposedIsUnambiguous
<1>8. QED BY <1>3, <1>5, <1>6, <1>7 DEF IInv

LEMMA Republishing == ASSUME IInv, Republish PROVE IInv'
<1>1. /\ edition' = edition + 1 /\ edition < Len(setting.editions) /\ phase' = phase
      /\ phase \notin {"failed", "returned"}
      /\ UNCHANGED <<setting, collection, sources, position, next, taken, filters, sorts, issues>>
  BY DEF Republish, call, result
<1>2. edition' \in DOMAIN setting.editions
  <2>1. IsList(setting.editions) /\ edition \in DOMAIN setting.editions
    BY PublishedNow DEF IInv
  <2>2. DOMAIN setting.editions = 1..Len(setting.editions) /\ Len(setting.editions) \in Nat
    BY <2>1, Listed
  <2>3. QED BY <1>1, <2>1, <2>2
<1>3. Asking \/ Composing BY <1>1 DEF IInv, StartInv, Composing, Asking
<1>4. CASE Asking
  <2>1. SettingInv' BY <1>1, <1>2 DEF IInv, SettingInv
  <2>2. QED BY <1>1, <1>4, <2>1, AskingOn DEF Asking, result, IInv, StartInv
<1>5. CASE Composing
  <2>1. ReadingInv' BY <1>1 DEF IInv, ReadingInv
  <2>2. SameBelow BY <1>1 DEF SameBelow
  <2>3. QED BY <1>1, <1>2, <1>5, <2>1, <2>2, GoingOn DEF Composing, call, result
<1>6. QED BY <1>3, <1>4, <1>5

LEMMA GettingReady ==
    ASSUME IInv, AskForCollection \/ GetCollection \/ RequestFails
    PROVE  IInv'
<1>1. /\ phase \in {"getting", "fetching", "inspecting"}
      /\ phase' \in {"fetching", "inspecting", "failed"}
      /\ phase' = "fetching" => phase = "getting" /\ collection' = collection
      /\ UNCHANGED <<setting, edition, sources, position, taken, result>>
  BY DEF AskForCollection, GetCollection, RequestFails, call
<1>2. SettingInv'
  <2>1. CASE UNCHANGED collection BY <1>1, <2>1 DEF IInv, SettingInv
  <2>2. CASE GetCollection /\ collection' # collection
    <3>1. collection' = NormalCollection(Publishes.collection) /\ CollectionTaken(collection', setting.id)
      BY <2>2 DEF GetCollection
    <3>2. PICK got : got = NormalCollection(Publishes.collection) OBVIOUS
    <3>3. ParsedCapabilities(got.capabilities) BY <3>1, <3>2, CollectionParsed DEF IInv
    <3>4. QED BY <1>1, <3>1, <3>2, <3>3 DEF IInv, SettingInv
  <2>3. QED BY <2>1, <2>2 DEF AskForCollection, RequestFails, call
<1>3. phase' \in {"getting", "fetching"} => collection' = NoCollection BY <1>1 DEF IInv, StartInv
<1>4. QED BY <1>1, <1>2, <1>3, AskingOn DEF Asking

LEMMA Inspecting == ASSUME IInv, Inspect PROVE IInv'
<1> DEFINE all == SourcesOf("service", InspectedNow.capabilities)
                  \o SourcesOf("collection", collection.capabilities)
<1>1. Asking /\ UNCHANGED <<setting, edition, collection, position, next, filters, sorts>>
  BY DEF Inspect, Asking
<1>2. CASE ~DocumentParses(InspectedNow)
  <2>1. phase' = "failed" /\ UNCHANGED <<sources, taken, issues>> BY <1>2 DEF Inspect
  <2>2. SettingInv' BY <1>1 DEF IInv, SettingInv
  <2>3. QED BY <1>1, <2>1, <2>2, AskingOn DEF result
<1>3. CASE DocumentParses(InspectedNow) /\ ~Supports(InspectedNow, "search-offerings")
  <2>1. /\ phase' = "returned" /\ UNCHANGED <<sources, taken>>
        /\ issues' = <<>> \/ issues' = <<Issue("collection", "filters", Because("search-offerings"))>>
    BY <1>3 DEF Inspect
  <2>2. QED BY <1>1, <2>1, Searchless
<1>4. CASE DocumentParses(InspectedNow) /\ Supports(InspectedNow, "search-offerings")
  <2>1. /\ phase' = "composing" /\ sources' = all /\ taken' = [i \in DOMAIN all |-> <<>>]
        /\ UNCHANGED issues
    BY <1>4 DEF Inspect
  <2>2. ParsedCapabilities(InspectedNow.capabilities) BY <1>4, DocumentParsed DEF IInv
  <2>3. ParsedCapabilities(collection.capabilities) BY DEF IInv, SettingInv
  <2>4. AreSources(all) BY <2>2, <2>3, SourcesOneEach, ServiceThenCollection
  <2> HIDE DEF all
  <2>5. QED BY <1>1, <2>1, <2>4, Beginning
<1>5. QED BY <1>2, <1>3, <1>4

LEMMA StartingLinked == ASSUME IInv, StartLinked PROVE IInv'
<1> USE DEF IInv
<1>1. position \in DOMAIN sources
  <2>1. DOMAIN sources = 1..Len(sources) /\ Len(sources) \in Nat BY Listed DEF SourcesInv, AreSources
  <2>2. QED BY <2>1 DEF StartLinked, ReadingInv
<1>2. /\ phase = "composing" /\ sources[position].published.kind = "linked"
      /\ next' = sources[position].published.href /\ phase' = "loading"
      /\ UNCHANGED <<call, edition, position, taken, result>>
  BY DEF StartLinked, Source
<1>3. sources[position].published.href # NoReference BY <1>1, <1>2, KindsTyped DEF ParsedSource
<1>4. UNCHANGED sources BY <1>2 DEF call
<1>5. taken[position] = <<>> BY <1>1, <1>2 DEF ReadingInv
<1>6. ReadingInv' BY <1>1, <1>2, <1>3, <1>4, <1>5 DEF ReadingInv, NoNext
<1>7. SameBelow BY <1>2 DEF SameBelow
<1>8. setting' = setting /\ edition' \in DOMAIN setting.editions BY <1>2 DEF SettingInv, call
<1>9. QED BY <1>2, <1>6, <1>7, <1>8, GoingOn DEF Composing

LEMMA AddTaken ==
    ASSUME NEW values, Add(values) PROVE NextSource
BY DEF Add, Discard

LEMMA TakingOne ==
    ASSUME IInv, TakeInline \/ TakeLinked \/ GiveUp
    PROVE  IInv'
<1>1. Added \/ PassedBy BY TakingInline, TakingLinked, GivingUp DEF IInv
<1>2. NextSource BY AddTaken DEF TakeInline, TakeLinked, GiveUp, Discard
<1>3. Composing /\ UNCHANGED <<call, edition, taken>>
  BY DEF TakeInline, TakeLinked, GiveUp, Composing
<1>4. position \in DOMAIN sources
  <2>1. DOMAIN sources = 1..Len(sources) /\ Len(sources) \in Nat
    BY Listed DEF IInv, SourcesInv, AreSources
  <2>2. QED BY <2>1 DEF TakeInline, TakeLinked, GiveUp, IInv, ReadingInv
<1>5. QED BY <1>1, <1>2, <1>3, <1>4, DoneWithPages

LEMMA LoadingPage == ASSUME IInv, LoadPage PROVE IInv'
<1>1. /\ phase = "loading" /\ next # NoNext /\ UNCHANGED <<call, edition>> /\ UNCHANGED sources
      /\ position \in DOMAIN sources /\ Composing
  BY DEF LoadPage, call, IInv, ReadingInv, Composing
<1>2. ASSUME NEW reason, Discard(reason), UNCHANGED taken PROVE IInv'
  <2>1. PICK p, kind : p = position /\ kind = sources[p].of OBVIOUS
  <2>2. p \notin UsableSources(kind)' BY <1>1, <1>2, <2>1, NotReceived DEF IInv
  <2>3. SameBelow BY <1>2 DEF SameBelow
  <2>4. PassedBy BY <1>1, <1>2, <2>1, <2>2, <2>3, Discarding
  <2>5. NextSource BY <1>2 DEF Discard
  <2>6. QED BY <1>1, <1>2, <2>4, <2>5, DoneWithPages
<1>3. ASSUME NEW pages, Loaded(pages), Len(Items(pages)) > Budget(Source.of), Discard("exceeds")
      PROVE  IInv'
  <2>1. PassedBy BY <1>3, LoadedTooMuch DEF IInv
  <2>2. NextSource BY <1>3 DEF Discard
  <2>3. /\ DOMAIN taken' = DOMAIN taken /\ taken'[position] = pages
        /\ \A i \in DOMAIN sources : i # position => taken'[i] = taken[i]
    BY <1>3, LoadedSame DEF IInv
  <2>4. ArePages(taken'[position]) BY <1>3, <2>3 DEF Loaded
  <2>5. QED BY <1>1, <2>1, <2>2, <2>3, <2>4, DoneWith
<1>4. ASSUME NEW pages, Loaded(pages), next' = Last(pages).next, UNCHANGED <<phase, position, result>>
      PROVE  IInv'
  <2>1. /\ DOMAIN taken' = DOMAIN taken /\ taken'[position] = pages /\ SameBelow
        /\ \A i \in DOMAIN sources : i # position => taken'[i] = taken[i]
    BY <1>4, LoadedSame DEF IInv
  <2>2. ReadingInv'
    <3>1. pages # <<>> /\ ArePages(pages) BY <1>4 DEF Loaded
    <3>2. DOMAIN sources = 1..Len(sources) /\ Len(sources) \in Nat
      BY Listed DEF IInv, SourcesInv, AreSources
    <3>3. \A i \in DOMAIN sources : i > position => i # position BY <1>1, <3>2
    <3>4. QED BY <1>1, <1>4, <2>1, <3>1, <3>3 DEF IInv, ReadingInv
  <2>3. setting' = setting /\ edition' \in DOMAIN setting.editions
    BY <1>1 DEF IInv, SettingInv, call
  <2>4. Composing' BY <1>1, <1>4 DEF Composing
  <2>5. QED BY <1>1, <1>4, <2>1, <2>2, <2>3, <2>4, GoingOn
<1>5. QED BY <1>2, <1>3, <1>4, Loading DEF IInv

LEMMA Stuttering == ASSUME IInv, UNCHANGED vars PROVE IInv'
<1> USE DEF IInv
<1>1. UNCHANGED <<setting, edition, phase, collection, sources, position, next, taken, filters, sorts, issues>>
  BY DEF vars
<1>2. SettingInv' BY <1>1 DEF SettingInv
<1>3. SourcesInv' BY <1>1 DEF SourcesInv
<1>4. ReadingInv' BY <1>1 DEF ReadingInv
<1>5. IssuesInv' /\ StartInv' BY <1>1 DEF IssuesInv, StartInv, Asking
<1>6. ReturnedInv' BY <1>1, ReturnedStays
<1>7. ExposedInv'
  <2>1. CASE Composing
    <3>1. SameBelow BY <1>1 DEF SameBelow
    <3>2. QED BY <1>1, <2>1, <3>1, Staying
  <2>2. CASE ~Composing BY <1>1, <2>2 DEF ExposedInv, Composing
  <2>3. QED BY <2>1, <2>2
<1>8. QED BY <1>2, <1>3, <1>4, <1>5, <1>6, <1>7

THEOREM Invariant == Spec => []IInv
<1>1. Init => IInv BY Initially
<1>2. IInv /\ [Next]_vars => IInv'
  <2> SUFFICES ASSUME IInv, [Next]_vars PROVE IInv' OBVIOUS
  <2>1. CASE Republish BY <2>1, Republishing
  <2>2. CASE AskForCollection \/ GetCollection \/ RequestFails BY <2>2, GettingReady
  <2>3. CASE Inspect BY <2>3, Inspecting
  <2>4. CASE TakeInline \/ TakeLinked \/ GiveUp BY <2>4, TakingOne
  <2>5. CASE StartLinked BY <2>5, StartingLinked
  <2>6. CASE LoadPage BY <2>6, LoadingPage
  <2>7. CASE Return BY <2>7, Returning
  <2>8. CASE UNCHANGED vars BY <2>8, Stuttering
  <2>9. QED BY <2>1, <2>2, <2>3, <2>4, <2>5, <2>6, <2>7, <2>8 DEF Next
<1>3. QED BY <1>1, <1>2, PTL DEF Spec

-----------------------------------------------------------------------------
(* A source is never asked for more pages, and no more of it is exposed,   *)
(* than the limits allow; every issue names where it comes from.           *)
THEOREM TypeCorrect == Spec => []TypeOK
<1>1. IInv => TypeOK
  <2> SUFFICES ASSUME IInv PROVE TypeOK OBVIOUS
  <2> USE DEF IInv
  <2>1. \A kind \in Kinds : Cardinality(DOMAIN Exposed(kind)) <= MaximumOf[kind]
    <3>1. CASE Composing BY <3>1 DEF ExposedInv, ExposedOf
    <3>2. CASE phase = "returned" BY <3>2 DEF ReturnedInv
    <3>3. CASE Asking \/ phase = "failed" BY <3>3, NothingExposed DEF StartInv
    <3>4. QED BY <3>1, <3>2, <3>3 DEF StartInv, Composing
  <2>2. edition \in DOMAIN setting.editions BY DEF SettingInv
  <2>3. phase \in {"getting", "fetching", "inspecting", "composing", "loading", "returned", "failed"}
    BY DEF StartInv, Asking
  <2>4. /\ position \in 1..(Len(sources) + 1) /\ DOMAIN taken = DOMAIN sources
        /\ \A i \in DOMAIN taken : Len(taken[i]) <= MaximumPages
    BY DEF ReadingInv, ArePages
  <2>5. QED BY <2>1, <2>2, <2>3, <2>4 DEF TypeOK, IssuesInv
<1>2. QED BY <1>1, Invariant, PTL

(* What is returned: a filter is exposed when exactly one usable source    *)
(* publishes it, as that one defines it, a sort when moreover all its      *)
(* filters are; and what is left out is reported.                          *)
THEOREM ReturnedIsUnambiguous == Spec => []ExposedIsUnambiguous
<1>1. IInv => ExposedIsUnambiguous BY DEF IInv, ReturnedInv
<1>2. QED BY <1>1, Invariant, PTL
=============================================================================

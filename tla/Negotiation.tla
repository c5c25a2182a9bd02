---------------------------- MODULE Negotiation ----------------------------
(***************************************************************************)
(* What the Service runtime reads from Accept and Accept-Language          *)
(* (service/service.go).  A header is the sequence of its entries; an      *)
(* entry is a range and the values of its q parameters.  Names are compared*)
(* without regard to case, so a language tag is the sequence of its folded *)
(* subtags, and weights are thousandths.                                   *)
(***************************************************************************)
EXTENDS Integers, SequencesExt

CONSTANTS
    Singletons,            \* the subtags of one character
    MaximumHeaderEntries   \* maximumHeaderEntries

AnyTag == <<"*">>          \* the range *
NoTag == <<>>              \* the empty string where a tag is expected
Malformed == -1            \* a q value outside the grammar

(* Entries past the bound are not read.                                    *)
HeaderEntries(header) ==
    SubSeq(header, 1, IF Len(header) < MaximumHeaderEntries
                      THEN Len(header) ELSE MaximumHeaderEntries)

(* The first q parameter decides; without one the weight is 1.             *)
QualityOf(entry) == IF entry.q = <<>> THEN 1000 ELSE Head(entry.q)
Weighted(entry) == QualityOf(entry) # Malformed

-----------------------------------------------------------------------------
(* acceptsODP: of the entries that match the media type the most specific  *)
(* decide, and the best of those must have a weight.                       *)
Specificity(range) ==
    CASE range = "application/odp+json" -> 2
      [] range = "application/*" -> 1
      [] range = "*/*" -> 0
      [] OTHER -> -1

AcceptsODP(accept) ==
    LET matching == {e \in ToSet(HeaderEntries(accept)) :
                        Specificity(e.range) >= 0 /\ Weighted(e)}
    IN  \/ accept = <<>>
        \/ \E e \in matching :
              /\ QualityOf(e) > 0
              /\ \A other \in matching : Specificity(other.range) <= Specificity(e.range)

-----------------------------------------------------------------------------
(* lookup (RFC 4647): the range, then the range with its last subtag cut   *)
(* off, and a singleton that then ends it dropped too, until a tag of the  *)
(* Service equals it.                                                      *)
Shortened(range, n) ==
    IF n > 2 /\ range[n - 1] \in Singletons THEN n - 2 ELSE n - 1

Lookup(range, tags) ==
    LET found[n \in 0..Len(range)] ==
            IF n = 0 THEN NoTag
            ELSE IF SubSeq(range, 1, n) \in ToSet(tags) THEN SubSeq(range, 1, n)
            ELSE found[Shortened(range, n)]
    IN  found[Len(range)]

(* A range covers the tag it equals and every tag it is a prefix of.       *)
Covers(range, tag) == IsPrefix(range, tag)

(* selectLanguage: the wanted ranges by falling weight, equal weights in   *)
(* the order written, each by lookup; then, if * has a weight, the first of*)
(* the default and the localizations that no refused range covers.         *)
SelectLanguage(header, fallback, localizations) ==
    LET entries == SelectSeq(HeaderEntries(header), LAMBDA e : e.range # NoTag /\ Weighted(e))
        wanted == {i \in DOMAIN entries :
                      entries[i].range # AnyTag /\ QualityOf(entries[i]) > 0}
        matched == {i \in wanted : Lookup(entries[i].range, localizations) # NoTag}
        refused == {e.range : e \in {x \in ToSet(entries) :
                                        x.range # AnyTag /\ QualityOf(x) = 0}}
        residual == \E e \in ToSet(entries) : e.range = AnyTag /\ QualityOf(e) > 0
        ahead(i, j) == \/ QualityOf(entries[i]) > QualityOf(entries[j])
                       \/ QualityOf(entries[i]) = QualityOf(entries[j]) /\ i <= j
        remaining == SelectSeq(<<fallback>> \o localizations,
                               LAMBDA tag : \A range \in refused : ~Covers(range, tag))
    IN  IF matched # {}
        THEN Lookup(entries[CHOOSE i \in matched : \A j \in matched : ahead(i, j)].range,
                    localizations)
        ELSE IF residual /\ remaining # <<>> THEN Head(remaining)
        ELSE NoTag

(* representationLanguage: the resource's own tag, the tag selected, the   *)
(* default.                                                                *)
RepresentationLanguage(declared, selected, fallback) ==
    IF declared # NoTag THEN declared ELSE IF selected # NoTag THEN selected ELSE fallback
=============================================================================

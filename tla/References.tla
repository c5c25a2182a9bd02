----------------------------- MODULE References -----------------------------
(***************************************************************************)
(* Origins, resource references and operation URLs (references.go), shared *)
(* by the Agent, which builds and resolves them, and the Service, which    *)
(* routes them.                                                            *)
(*                                                                         *)
(* A reference is a record of its parts as written: scheme and host (empty *)
(* when left out, so a reference with a host and no scheme begins with //),*)
(* rooted (it begins with /), user, fragment, and the location: the path,  *)
(* as its segments, and the query.  Hosts are compared as canonicalOrigin  *)
(* writes them: folded, with the default port left out.                    *)
(***************************************************************************)
CONSTANTS
    Loopback,         \* the hosts that are loopback
    MalformedIds      \* identifiers IsLocalResourceIdentifier refuses

GetOperations == {"get-collection", "get-offering"}
SearchOperations == {"search-collections", "search-offerings"}
ListOperations == {"list-collections", "list-offerings", "list-collection-offerings"}
Operations == GetOperations \cup SearchOperations \cup ListOperations

NoId == "no identifier"
IsLocalResourceIdentifier(id) == id \notin MalformedIds \cup {NoId, ""}

OperationMethod(operation) == IF operation \in SearchOperations THEN "POST" ELSE "GET"

(* operationPath: the path template, the identifier written as it is.      *)
OperationPath(operation, id) ==
    CASE operation = "list-collections" -> <<"collections">>
      [] operation = "search-collections" -> <<"collections", "search">>
      [] operation = "get-collection" -> <<"collections", id>>
      [] operation = "list-collection-offerings" -> <<"collections", id, "offerings">>
      [] operation = "list-offerings" -> <<"offerings">>
      [] operation = "search-offerings" -> <<"offerings", "search">>
      [] operation = "get-offering" -> <<"offerings", id>>

TakesId(operation) == operation \in GetOperations \cup {"list-collection-offerings"}
Buildable(operation, id) ==
    IF TakesId(operation) THEN IsLocalResourceIdentifier(id) ELSE id = NoId

(* requireSecureURL.                                                       *)
Secure(url) ==
    /\ url.host # ""
    /\ url.scheme = "https" \/ (url.scheme = "http" /\ url.host \in Loopback)

(* url.Parse and ResolveReference: what is left out is the base's.         *)
Resolve(reference, base) ==
    [reference EXCEPT
        !.scheme = IF @ = "" THEN base.scheme ELSE @,
        !.host = IF @ = "" THEN base.host ELSE @]

(* ResolveResourceReference: which spellings are taken, and what they      *)
(* resolve to must be.                                                     *)
Spelled(reference) ==
    \/ reference.scheme = "" /\ reference.host = "" /\ reference.rooted
    \/ reference.scheme = "https"
    \/ reference.scheme = "http" /\ reference.host \in Loopback

ResolvesResource(reference, origin) ==
    LET resolved == Resolve(reference, origin)
    IN  Spelled(reference) /\ ~resolved.fragment /\ ~resolved.user /\ Secure(resolved)

(* canonicalOrigin: scheme and host.                                       *)
OriginOf(url) == [scheme |-> url.scheme, host |-> url.host]

(* ResolveContinuation: a resource reference on the Service's own origin.  *)
ResolvesContinuation(reference, origin) ==
    /\ ResolvesResource(reference, origin)
    /\ OriginOf(Resolve(reference, origin)) = OriginOf(origin)
=============================================================================

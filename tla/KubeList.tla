------------------------------ MODULE KubeList ------------------------------
(***************************************************************************)
(* One paginated list request against the Kubernetes API:                  *)
(* getKubeListJSONStatusWithLimits (provider/kubernetes_pagination.go),    *)
(* with getJSONStatusBounded under it and getGatewayRouteJSON, which tries *)
(* a second API version, above it (provider/kubernetes_client.go).         *)
(*                                                                         *)
(* The collection on the server is a sequence of pages; an item list is    *)
(* the sequence of pages it was put together from, each tagged with the    *)
(* API version it was read from.  Continue token p stands for "page p      *)
(* comes next".  An honest server hands out p + 1 with page p and no token *)
(* with the last page; a faulty one any token or none.                     *)
(***************************************************************************)
EXTENDS Integers, Sequences

CONSTANTS
    Versions,       \* the API versions to try, in order
    Collections,    \* what the server may hold: sequences of pages, each with
                    \* its number of items and of bytes
    MaxPages, MaxItems, MaxPageBytes, MaxTotalBytes,    \* kubeListLimits
    Optional        \* are a 404 and a 403 an answer, and no error?

NoToken == 0
LongToken == -1     \* a token of more than kubeListMaxTokenBytes

VARIABLES
    collection,     \* what the server holds
    honest,         \* does the server hand out the right tokens?
    attempt,        \* index in Versions
    pageIndex, nextToken, seenTokens,
    items, count,   \* the pages appended so far, and len(items)
    totalBytes,
    out, result,
    requested       \* history: the tokens sent in this attempt

Pages == DOMAIN collection

server == <<collection, honest>>

vars == <<server, attempt, pageIndex, nextToken, seenTokens, items, count, totalBytes,
          out, result, requested>>

Results == {"running", "found", "not_found", "request_failed", "response_too_large",
            "pagination_incomplete", "pagination_token_invalid",
            "pagination_page_limit", "pagination_item_limit", "pagination_byte_limit"}

PageOf(v, p) == [version |-> v, page |-> p]

AllPages == {PageOf(Versions[v], p) : v \in DOMAIN Versions, p \in Pages}

\* *out is cleared before anything is requested.
Init ==
    /\ collection \in Collections /\ honest \in BOOLEAN
    /\ attempt = 1
    /\ pageIndex = 0 /\ nextToken = NoToken /\ seenTokens = {}
    /\ items = <<>> /\ count = 0 /\ totalBytes = 0
    /\ out = <<>> /\ result = "running"
    /\ requested = <<>>
----------------------------------------------------------------------------
Requesting == result = "running" /\ pageIndex < MaxPages

CurrentPage == IF nextToken = NoToken THEN 1 ELSE nextToken

\* A page is asked for and the call returns an error, or nothing.
Fail(reason) ==
    /\ result' = reason
    /\ requested' = Append(requested, nextToken)
    /\ UNCHANGED <<server, attempt, pageIndex, nextToken, seenTokens, items, count,
                   totalBytes, out>>

\* 404 or 403 on a request that may be refused, as every page after the first
\* may.  On a later page the list is incomplete.
Refused ==
    /\ Requesting /\ pageIndex > 0
    /\ Fail("pagination_incomplete")

\* On the first page nothing is found: there is no such API (404), or it may
\* not be read (403), and the code does not tell the two apart.  The caller's
\* list stays empty, or the next version is tried.
NotFound ==
    /\ Requesting /\ pageIndex = 0 /\ Optional
    /\ attempt = Len(Versions)
    /\ Fail("not_found")

NextVersion ==
    /\ Requesting /\ pageIndex = 0 /\ Optional
    /\ attempt < Len(Versions)
    /\ attempt' = attempt + 1
    /\ pageIndex' = 0 /\ nextToken' = NoToken /\ seenTokens' = {}
    /\ items' = <<>> /\ count' = 0 /\ totalBytes' = 0
    /\ out' = <<>> /\ requested' = <<>>
    /\ UNCHANGED <<server, result>>

\* Transport errors, an expired deadline, any other status, a body that
\* cannot be read or decoded.
RequestFails ==
    /\ Requesting
    /\ Fail("request_failed")

\* The checks made on a page that arrived with continue token c, in order.
Rejection(c) ==
    LET p == CurrentPage IN
    IF collection[p].bytes > MaxPageBytes THEN "response_too_large"
    ELSE IF totalBytes + collection[p].bytes > MaxTotalBytes THEN "pagination_byte_limit"
    ELSE IF count + collection[p].items > MaxItems THEN "pagination_item_limit"
    ELSE IF c = LongToken \/ c \in seenTokens THEN "pagination_token_invalid"
    ELSE "none"

PageRejected(c) ==
    /\ Requesting /\ Rejection(c) # "none"
    /\ Fail(Rejection(c))

\* The page is appended to the call's own items.
Accept(c) ==
    /\ Requesting /\ Rejection(c) = "none"
    /\ items' = Append(items, PageOf(Versions[attempt], CurrentPage))
    /\ count' = count + collection[CurrentPage].items
    /\ totalBytes' = totalBytes + collection[CurrentPage].bytes
    /\ requested' = Append(requested, nextToken)
    /\ UNCHANGED <<server, attempt>>

\* The last page: only now does the caller see the items.
LastPage ==
    /\ Accept(NoToken)
    /\ out' = items' /\ result' = "found"
    /\ UNCHANGED <<pageIndex, nextToken, seenTokens>>

\* Mutants: the caller's list is extended page by page; the tokens are not
\* remembered.
MiddlePageVisible(c) ==
    /\ Accept(c)
    /\ seenTokens' = seenTokens \cup {c} /\ nextToken' = c
    /\ pageIndex' = pageIndex + 1
    /\ out' = items'
    /\ UNCHANGED result

MiddlePageForgets(c) ==
    /\ Accept(c)
    /\ nextToken' = c
    /\ pageIndex' = pageIndex + 1
    /\ UNCHANGED <<out, result, seenTokens>>

MiddlePage(c) ==
    /\ Accept(c)
    /\ seenTokens' = seenTokens \cup {c} /\ nextToken' = c
    /\ pageIndex' = pageIndex + 1
    /\ UNCHANGED <<out, result>>

\* The loop ran out of pages.
PageLimit ==
    /\ result = "running" /\ pageIndex = MaxPages
    /\ result' = "pagination_page_limit"
    /\ UNCHANGED <<server, attempt, pageIndex, nextToken, seenTokens, items, count,
                   totalBytes, out, requested>>

\* The tokens the server may send with the current page.
ServerTokens ==
    IF honest
    THEN {IF CurrentPage = Len(collection) THEN NoToken ELSE CurrentPage + 1}
    ELSE Pages \cup {NoToken, LongToken}

Next ==
    \/ Refused \/ NotFound \/ NextVersion \/ RequestFails \/ PageLimit
    \/ NoToken \in ServerTokens /\ LastPage
    \/ \E c \in ServerTokens : PageRejected(c)
    \/ \E c \in ServerTokens \ {NoToken, LongToken} : MiddlePage(c)

\* http.Client.Timeout ends every request.
Spec == Init /\ [][Next]_vars /\ WF_vars(Next)
----------------------------------------------------------------------------
Received(p) == PageOf(Versions[attempt], p)

\* The caller's list is the whole collection of one API version, in order and
\* each page once, or it is empty: nothing that was read before an error, a
\* limit or a switch of version is ever merged into a snapshot.  (What a list is
\* worth when the server's tokens are wrong nobody can tell.)
AllOrNothing ==
    /\ result # "found" => out = <<>>
    /\ result = "found" /\ honest => out = [p \in Pages |-> Received(p)]

\* Whatever tokens the server sends, none is sent back twice, so a token loop
\* neither duplicates items nor runs up to the page limit.
NoTokenSentTwice ==
    \A i, j \in DOMAIN requested :
        i # j => requested[i] # requested[j]

\* Whatever the server sends, what the call holds stays within its limits.
WithinLimits ==
    /\ Len(requested) =< MaxPages
    /\ \A list \in {items, out} : Len(list) =< MaxPages
    /\ count =< MaxItems /\ totalBytes =< MaxTotalBytes
    /\ result = "found" => out = items

\* Every list request ends, even against a server that never stops paging.
Terminates == <>(result # "running")
============================================================================

---------------------------- MODULE ProxyRequest ----------------------------
(***************************************************************************)
(* What the proxy reads in the head of a request (src/src/main.rs): the    *)
(* reserved headers, the destination and its canonical forms, and the two  *)
(* policies on destinations.  Pure operators, used by HttpPath.            *)
(*                                                                         *)
(* A head is a record                                                      *)
(*   [wire    |-> "complete", or "broken": malformed, cut off or too long, *)
(*    method  |-> "CONNECT", "GET", "POST",                                *)
(*    host    |-> the authority of the Host header (of the target of a     *)
(*                CONNECT): [class, name, spelling, port],                 *)
(*    target  |-> the form of the request target: "relative", or absolute: *)
(*                "agrees" and "agrees_https" (with the Host header, of an *)
(*                http or https URI), "disagrees", "other_scheme",         *)
(*    path    |-> its path and query,                                      *)
(*    headers |-> a function from places in the head to [name, value]; no  *)
(*                operator depends on the order of the places,             *)
(*    private |-> it has an Authorization or Cookie header, or a           *)
(*                Cache-Control of no-store or private].                   *)
(* The spelling of a host is its letter case, trailing dot and brackets.   *)
(* An optional value is the empty set or a singleton; so is the result of  *)
(* an operation that may fail.                                             *)
(***************************************************************************)
EXTENDS Naturals, FiniteSets, Functions

\* The fields of a head; their values are free.
IsHead(head) ==
    head = [wire |-> head.wire, method |-> head.method, host |-> head.host, target |-> head.target,
            path |-> head.path, headers |-> head.headers, private |-> head.private]

\* The four headers that only this proxy may interpret.
Reserved == {"isolation", "mode", "authorization", "lease"}

\* A header value that fails its validation: empty, too long, not UTF-8 or
\* outside the accepted alphabet.
Unacceptable == "unacceptable"

Positions(headers, name) == {i \in DOMAIN headers : headers[i].name = name}
ValueOf(headers, name) == {headers[i].value : i \in Positions(headers, name)}

validate_isolation_identity(value) == value # Unacceptable

parse_isolation_mode(value) ==
    CASE value = "strict" -> {TRUE} [] value = "session" -> {FALSE} [] OTHER -> {}

AcceptableHeader(header) ==
    CASE header.name \in {"isolation", "lease"} -> validate_isolation_identity(header.value)
      [] header.name = "mode" -> parse_isolation_mode(header.value) # {}
      [] header.name = "authorization" -> header.value # Unacceptable
      [] OTHER -> TRUE

IsolationOf(headers) ==
    [identity |-> ValueOf(headers, "isolation"), strict |-> "strict" \in ValueOf(headers, "mode")]

(***************************************************************************)
(* The loop over the headers of a public request stops at the first        *)
(* duplicate or unacceptable reserved header, whichever it is.             *)
(***************************************************************************)
ingress_headers_from_httparse(headers) ==
    IF /\ \A name \in Reserved : Cardinality(Positions(headers, name)) <= 1
       /\ \A i \in DOMAIN headers : AcceptableHeader(headers[i])
    THEN {[isolation |-> IsolationOf(headers),
           proxy_authorization |-> ValueOf(headers, "authorization"),
           internal_identity |-> ValueOf(headers, "lease")]}
    ELSE {}

\* The same inside Pingora: only the two isolation headers are checked, and all
\* four are taken off the request.
WithoutReserved(headers) ==
    RestrictValues(headers, LAMBDA header : header.name \notin Reserved)

take_isolation_request(headers) ==
    IF \A name \in {"isolation", "mode"} :
            /\ Cardinality(Positions(headers, name)) <= 1
            /\ \A i \in Positions(headers, name) : AcceptableHeader(headers[i])
    THEN {[isolation |-> IsolationOf(headers), headers |-> WithoutReserved(headers)]}
    ELSE {}

strip_ingress_headers(headers) == WithoutReserved(headers)

parse_proxy_request(head) ==
    IF head.wire = "complete" /\ (head.method = "CONNECT" => head.host.class # "empty")
    THEN ingress_headers_from_httparse(head.headers)
    ELSE {}

-----------------------------------------------------------------------------
(***************************************************************************)
(* Destinations.  A host is classified by what the two policies tell       *)
(* apart; the port is an optional number.                                  *)
(***************************************************************************)
LocalNames == {"local_name"}
\* A name of digits and dots, or with a label outside the host name grammar.
OddNames == {"odd_name"}
SpecialV4 ==
    {"v4_unspecified", "v4_this_network", "v4_private", "v4_loopback", "v4_shared",
     "v4_link_local", "v4_documentation", "v4_benchmark", "v4_multicast", "v4_reserved",
     "v4_broadcast"}
SpecialV6 ==
    {"v6_unspecified", "v6_loopback", "v6_multicast", "v6_unique_local", "v6_link_local",
     "v6_embedded_v4", "v6_documentation", "v6_outside_global"}
HostClasses ==
    {"name", "v4_public", "v6_global"} \cup LocalNames \cup OddNames \cup SpecialV4
        \cup SpecialV6

connect_destination_allowed(host) ==
    host.class \notin LocalNames \cup
        {"v4_private", "v4_loopback", "v4_link_local", "v4_broadcast", "v4_unspecified",
         "v4_multicast", "v6_loopback", "v6_unspecified", "v6_multicast",
         "v6_unique_local", "v6_link_local"}

cache_origin_host_allowed(host) ==
    host.class \notin LocalNames \cup OddNames \cup SpecialV4 \cup SpecialV6

parse_connect_destination(host) ==
    /\ host.class \notin {"malformed", "empty"}
    /\ host.port # {} /\ 0 \notin host.port

\* Lower case, without brackets and trailing dot, with the default port.
normalized_authority(host, scheme) ==
    [name |-> host.name,
     port |-> IF host.port # {} THEN host.port ELSE IF scheme = "https" THEN {443} ELSE {80}]

format_canonical_origin(scheme, authority) ==
    [scheme |-> scheme, name |-> authority.name, port |-> authority.port]

\* The origin and the path of an HTTP request; an absolute target has to agree
\* with the Host header.
canonical_cache_key_parts(head) ==
    LET scheme == IF head.target = "agrees_https" THEN "https" ELSE "http"
    IN  IF \/ head.host.class \in {"malformed", "empty"} \/ 0 \in head.host.port
           \/ head.target \in {"disagrees", "other_scheme"}
        THEN {}
        ELSE {[origin |-> format_canonical_origin(scheme, normalized_authority(head.host, scheme)),
               path |-> head.path]}

request_cache_eligible(head) == head.method = "GET" /\ ~head.private

=============================================================================

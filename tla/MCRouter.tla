------------------------------ MODULE MCRouter ------------------------------
(* Router with routes of every kind of condition, for requests that differ *)
(* in host, address, method and path.                                      *)
EXTENDS RouterTrace

CONSTANTS a, b, c

(* The levels: scheme, host, ip, method, headers, date.                    *)
MCDepth == 6
MCHost == 2
MCIpLevel == 3
MCNamesAll == {1, 2, 4}
MCAskedAlways == {3, 5, 6}
MCRegexHost == {"re", "re2"}
MCKey == {"http", "hostA", "re", "re2", "net", "ip1", "GET", "POST", "notGET", "header", "today"}
MCPath == {"/p", "/q", "/.*", "/q?"}
MCRegexPath == {"/.*", "/q?"}

(* Some have no host and no address.                                       *)
MCRequest ==
  {q \in [host : {"A", "B", "C", "none"}, ip : 0..2, method : {"GET", "POST"}, path : {"/p", "/q"}] :
     q.host = "none" <=> q.ip = 0}

(* One request of each host and path.                                      *)
MCTraced ==
  {q \in MCRequest : /\ q.ip = (IF q.host = "none" THEN 0 ELSE IF q.path = "/q" THEN 1 ELSE 2)
                     /\ q.method = (IF q.host = "B" THEN "POST" ELSE "GET")}

MCMeets ==
  [k \in MCKey \cup MCPath |->
     CASE k = "hostA" -> {q \in MCRequest : q.host = "A"}
       [] k = "re"    -> {q \in MCRequest : q.host \in {"A", "B"}}
       [] k = "re2"   -> {q \in MCRequest : q.host = "B"}
       [] k = "net"   -> {q \in MCRequest : q.ip # 0}
       [] k = "ip1"   -> {q \in MCRequest : q.ip = 1}
       [] k = "GET"   -> {q \in MCRequest : q.method = "GET"}
       [] k \in {"POST", "notGET"} -> {q \in MCRequest : q.method = "POST"}
       [] k = "/p"    -> {q \in MCRequest : q.path = "/p"}
       [] k \in {"/q", "/q?"} -> {q \in MCRequest : q.path = "/q"}
       [] OTHER       -> MCRequest]

MCRoute == {
  (* without a condition, and the same route at another path *)
  [id |-> a, path |-> "/p", branches |-> {<<"any", "any", "any", "any", "any", "any">>}],
  [id |-> a, path |-> "/.*", branches |-> {<<"any", "any", "any", "any", "any", "any">>}],
  (* two addresses, the second in the first, and two methods *)
  [id |-> a, path |-> "/q", branches |-> {<<"any", "hostA", i, m, "any", "any">> :
                                            i \in {"net", "ip1"}, m \in {"GET", "POST"}}],
  (* a host, as a string and as a regex *)
  [id |-> b, path |-> "/.*", branches |-> {<<"any", "hostA", "any", "any", "any", "any">>}],
  [id |-> b, path |-> "/p", branches |-> {<<"http", "re", "any", "notGET", "any", "any">>}],
  (* conditions on the headers and on the date *)
  [id |-> c, path |-> "/p", branches |-> {<<"http", "re2", "net", "any", "header", "today">>}],
  (* a second regex where the first route has one *)
  [id |-> c, path |-> "/q?", branches |-> {<<"any", "any", "any", "any", "any", "any">>}]
}

MCLacking ==
  [l \in 1..MCDepth |-> {q \in MCRequest : \/ l = MCHost /\ q.host = "none"
                                           \/ l = MCIpLevel /\ q.ip = 0}]

(* The regexes of hosts begin with what A and B begin with, the regexes of *)
(* paths with what all paths begin with.                                   *)
MCBegun(n, regexes, q) == regexes \cap MCRegexHost # {} => q.host \in {"A", "B"}

MCTried(n, regexes, q) == IF MCBegun(n, regexes, q) THEN regexes ELSE {}

MCChanges == {<<>>} \cup {<<r>> : r \in MCRoute}

=============================================================================

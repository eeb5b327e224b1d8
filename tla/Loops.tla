------------------------------- MODULE Loops -------------------------------
(***************************************************************************)
(* The report on the redirections that an example of a rule starts         *)
(* (api/redirection_loop.rs): the rules are asked again and again, each    *)
(* time for the target of the redirection before.                          *)
(*                                                                         *)
(* A url is a host, an Option, and a path; one without a host is relative, *)
(* and all others have one scheme.  What the Router answers is a constant  *)
(* of one behaviour: for a url and a method a status and a Location, an    *)
(* Option; get_status_code and filter_headers, which decide it, are in     *)
(* Response.  The Router is asked for the url as it is written, so for a   *)
(* relative one without a host: no rule for a host meets that.             *)
(***************************************************************************)
EXTENDS Integers, Sequences, FiniteSets

CONSTANTS
  Host,     \* the hosts that urls can have
  Page,     \* the paths
  Site,     \* what the rules can answer: for each url and method
  Refused,  \* the urls of which no request can be made
  Example,  \* the requests that examples are of
  Domains,  \* the hosts of the project
  MaxHops   \* max_hops

Optional(S) == {{}} \cup {{x} : x \in S}

Link == [host : Optional(Host), path : Page]

(* Where a request can go: there are finitely many such places.            *)
Place == [url : Link, method : {"GET", "POST"}]

Places == Cardinality(Place)

ASSUME LoopsAssumption ==
  /\ IsFiniteSet(Host) /\ IsFiniteSet(Page)
  /\ \A rules \in Site : \A url \in Link : \A method \in {"GET", "POST"} :
       rules[url][method].location \in Optional(Link)
  /\ Example \subseteq Place
  /\ Domains \subseteq SUBSET Host
  /\ MaxHops \subseteq Nat

VARIABLES
  project,  \* project_domains
  example,  \* the example
  site,     \* the answers of the Router
  budget,   \* max_hops
  hops,     \* the urls and methods of RedirectionHop
  error,    \* the error, an Option
  compute   \* "hop" while the loop runs, "done" behind it

loopsVars == <<project, example, site, budget, hops, error, compute>>

Codes == {301, 302, 307, 308}

LoopsInit ==
  /\ project \in Domains
  /\ example \in Example
  /\ site \in Site
  /\ budget \in MaxHops
  /\ hops = <<example>>
  /\ error = {}
  /\ compute = "hop"

(* The hosts that the project answers on.                                  *)
KnownHosts == IF project = {} THEN example.url.host ELSE project

(* join_url: a location is resolved only against an absolute url.          *)
Join(base, location) ==
  IF base.host = {} \/ location.host # {} THEN location
  ELSE [location EXCEPT !.host = base.host]

Here == hops[Len(hops)]

MethodAfter(status, method) == IF status \in {301, 302} THEN "GET" ELSE method

(* There is no hop to be made, or no request for it; or the answer is no   *)
(* redirection, or one that goes nowhere.                                  *)
Stop ==
  LET reply == site[Here.url][Here.method]
  IN /\ compute = "hop"
     /\ \/ Len(hops) > budget
        \/ Here.url \in Refused
        \/ reply.status \notin Codes
        \/ reply.location = {}
     /\ compute' = "done"
     /\ UNCHANGED <<project, example, site, budget, hops, error>>

(* A mutant: only the hop before is looked at.                             *)
SeenLast(hop) == hop = Here

(* The hop was made before.                                                *)
Seen(hop) == \E k \in DOMAIN hops : hops[k] = hop

(* One more turn of the loop: its number is that of the hops so far.       *)
Hop ==
  LET reply == site[Here.url][Here.method]
      i == Len(hops)
  IN /\ compute = "hop" /\ i <= budget
     /\ Here.url \notin Refused
     /\ reply.status \in Codes
     /\ \E location \in reply.location :
          LET hop == [url |-> Join(Here.url, location),
                      method |-> MethodAfter(reply.status, Here.method)]
              away == hop.url.host # {} /\ hop.url.host \cap KnownHosts = {}
              tooMany == i >= budget
          IN /\ hops' = Append(hops, hop)
             /\ error' = IF Seen(hop) THEN {"Loop"}
                         ELSE IF ~ away /\ tooMany THEN {"TooManyHops"}
                         ELSE IF i > 1 THEN {"AtLeastOneHop"} ELSE error
             /\ compute' = IF Seen(hop) \/ away \/ tooMany THEN "done" ELSE "hop"
     /\ UNCHANGED <<project, example, site, budget>>

LoopsNext == Stop \/ Hop

LoopsSpec == LoopsInit /\ [][LoopsNext]_loopsVars

----------------------------------------------------------------------------
(* Properties.                                                             *)

(* Where a client is: a relative url is one of the project.                *)
At(hop) ==
  [hop EXCEPT !.url.host =
     IF @ # {} THEN @ ELSE IF project = {} THEN {} ELSE {CHOOSE h \in project : TRUE}]

(* Where a client that is somewhere goes next: nowhere when it has its     *)
(* page or leaves the project, whose example it may have begun with.       *)
Onward(at) ==
  LET reply == site[at.url][at.method]
      to(location) ==
        [url |-> [host |-> IF location.host = {} THEN at.url.host ELSE location.host,
                  path |-> location.path],
         method |-> IF reply.status \in {307, 308} THEN at.method ELSE "GET"]
      inside(at2) == at2.url.host \subseteq KnownHosts \/ at2 = At(example)
  IN IF reply.status \in Codes THEN {t \in {to(l) : l \in reply.location} : inside(t)}
     ELSE {}

(* The client after n redirections; more than there are places to be       *)
(* redirected from need not be looked at.                                  *)
Client[n \in 0..Places] ==
  IF n = 0 THEN {At(example)} ELSE UNION {Onward(at) : at \in Client[n - 1]}

Endless == Client[Places] # {}

(* The Router is asked for the hop, and answers it as it does a client     *)
(* that is there: always so for the hops of an absolute example, but those *)
(* of a relative one must not be the business of a rule for a host.        *)
AskedAsClient(hop) ==
  hop.url \notin Refused /\ site[hop.url] = site[At(hop).url]

(* The report is what a client sees that follows the redirections, if it   *)
(* was asked for as a client would: a loop is reported only if it never    *)
(* comes to an end, and whenever it does not and the budget is not smaller *)
(* than the number of places; too many hops, only if it is still on its    *)
(* way when the budget is used up; no error, only if it comes to an end,   *)
(* by at most one redirection of the project.                              *)
ReportsWhatAClientSees ==
  compute = "done" /\ (\A k \in DOMAIN hops : AskedAsClient(hops[k])) =>
    /\ "Loop" \in error => Endless
    /\ Endless /\ budget >= Places => error = {"Loop"}
    /\ "TooManyHops" \in error => Len(hops) = budget + 1 /\ Client[budget] # {}
    /\ error \subseteq {"AtLeastOneHop"} /\ budget > 0 => ~ Endless
    /\ error = {} /\ budget > 0 => Client[2] = {}
    /\ \A k \in DOMAIN hops : k < Len(hops) => At(hops[k]) \in Client[k - 1]

============================================================================

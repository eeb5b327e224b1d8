# TLA+ models of sozune-redirectionio

The repository holds a redirection plugin for the Sozune proxy and the tool that
feeds it: `src/bin/sync.rs` fetches the rules of a redirection.io project,
`src/translate.rs` turns them into rules of the redirection.io engine, the result
is written to a ruleset file, the proxy hands that file to the plugin as its
configuration, and `src/lib.rs`, a wasm guest, answers requests with the engine
under `patches/redirectionio`. This directory models that path, from the pages of
the API to the answer a request gets, and the engine beyond what the plugin uses of it: requests,
conditions, the tree of matchers, the radix tree of regexes, actions and their filters. It checks the models
with TLC and proves the main properties of the path with TLAPS.

(Source paths below are relative to the repository's root.)

## 1. Inventory

    API --pages--> sync (fetch, translate, write) --rename--> rules.json
    rules.json --loader--> route configuration --get_config--> guest --engine--> answer

| Part | State | Operations | Correct when |
|---|---|---|---|
| fetch (`fetch_page`, `fetch_all`) | cursor, attempt, rules received | a page, an empty page, 429 and its wait, failing answers | a walk that succeeds misses no rule that was there throughout, invents none, mixes no two versions of one; retries are bounded; it ends |
| translator (`translate_ruleset`) | none (a loop over the rules) | accept, skip, (panic) | a rule is honoured exactly, or skipped; never widened |
| ruleset file (`write_atomic`) | two names, inodes, descriptors | open, write, close, rename, errors, kills; the loader's open and reads | the loader never sees half a file; a failure leaves the previous file |
| cycle (`run`, `sync_once`) | asleep or in a cycle | start, wake, each step of a cycle, errors, kills | what is published is what one walk saw; the plugin ends up with the project's rules |
| guest (`lib.rs`) | `ROUTER`, the cached router and its key, one per instance | the two reads of the configuration, parsing, the cache, the answer, a trap | a request is answered under its own route's rules |
| engine: requests (`http/request.rs`, `query.rs`) | none | rewriting a url and a host for a configuration, and again for another | a rule and a request that mean the same meet; no parameter is lost |
| engine: conditions (`router/route_*.rs`, `request_matcher/*.rs`) | a memo during one match | matching, tracing | a rule is asked for exactly when all its conditions hold |
| engine: router tree (`router/mod.rs`) | maps of matchers with counts | insert, remove, batch, change set, match, trace | match finds exactly the rules whose conditions hold |
| engine: radix tree (`regex_radix_tree`) | nodes of common beginnings, compiled regexes | insert, remove, retain, find, get, cache, trace | a word finds what its regexes find one by one |
| engine: markers (`marker/`, `router/route.rs`) | none | two regexes of a source, capture, transform | what a rule is found by is captured, and leads to the target it reads like |
| engine: actions (`action/mod.rs`, `api/rule.rs`) | the action being merged, its trace, the rules applied | sort, draw, reset, merge, stop; peer, status, headers, body, log, tags | the rules of lowest rank and id win, and what is reported is what was done |
| engine: filters (`filter/`) | chain of body filters, held-back data, captured variables | filter, end, errors | a body in any chunks becomes what the whole would |
| engine: API tools (`api/redirection_loop.rs`, ...) | hops of a chain | follow, stop, report | the report says what a client would see |

How they interact: the sync and the loader share nothing but the file system, and
no lock; the loader and the plugin share the route's configuration, which the host
may replace between any two calls of the guest; requests on one instance share the
thread-local `ROUTER`, which survives them. The engine is a library called by the
guest; it keeps no state between calls but the router.

What is hard here, and therefore what the properties are about: the project is
edited while it is being paged through; 429 answers fall anywhere in a walk; a
process dies or fails between any two system calls; two processes overlap
(`README.md` allows "a small daemon, or a cron one-shot"); the file is replaced
while it is being read; the configuration is read by two calls; an instance is
reused by another route, or dropped; the end of a date range is the start of
another day; rules arrive in the order of a hash map and override, reset and stop
one another; a body is cut into chunks anywhere and fails to decode in the middle; variables wait for headers
that other rules change; a tree of regexes is cut, collapsed and cached while it is searched by text. Section 8 lists what of it no property covers.

## 2. Modules

| Module | Models | |
|---|---|---|
| `Processes` | `CONSTANT Proc`, shared by the next two | |
| `Fetch` | the walk of `fetch_all`, and the API as that walk uses it | |
| `RulesetFile` | `write_atomic` on a POSIX file system, and the loader | implements `RulesetRegister` |
| `RulesetRegister` | the abstract promise: an atomic register | |
| `Sync` | `run` and `sync_once`: composes `Fetch` and `RulesetFile` | |
| `EngineRule` | the conditions of an engine rule, evaluated for a request | |
| `Translate` | `translate_ruleset`, rule by rule, on top of `EngineRule` | |
| `Redirects` | the abstract decision of a set of matching rules | |
| `Answer` | `from_routes_rule`, `merge` and `route_request` step by step | decides as `Redirects` does |
| `Router` | the tree of matchers with its counts: `router/mod.rs`, `request_matcher/*.rs` | finds what a set of routes has to find |
| `RouterTrace` | `get_trace`, on top of `Router` | explains what `Router` finds |
| `Guest` | `lib.rs` in a pool of instances, on top of `Redirects` | |
| `RegexTree` | `regex_radix_tree/*.rs`, `LazyRegex`, `Router::cache` | finds what a set of regexes finds |
| `Texts` | letter case of texts, shared by the next two | |
| `Conditions` | header, time and weekday conditions: `HeaderMatcher`, `DateTimeMatcher`, match and trace | meets what a conjunction meets |
| `Requests` | `query.rs`, `host.rs`, `request.rs`, and a rule's source in `rule.rs` | |
| `Variables` | variables, the replacement of `@name`, log tags | |
| `HeaderFilters` | `filter/header_action/*.rs` and the units of the trace | |
| `Html` | the visitors of `filter/html_body_action/*.rs` under a streaming rewriter | |
| `BodyFilter` | `FilterBodyAction`: the chain over chunks, composing `Html` and `HeaderFilters`' trace | does what the filters do to the whole |
| `Response` | an `Action` from its rules to the end of a response, composing all of these | |
| `Markers` | `marker/mod.rs`, `marker/transformer/*.rs`, `Route::capture`, on top of `Variables` | leads back to the path that was asked |
| `Loops` | `api/redirection_loop.rs` | reports what a client sees |
| `MC*` | the small instances for TLC; `MCParts` has seven modules that touch no common state, one in each behaviour | |
| `*_proofs` | the theorems: `Sync_proofs` has those of `Fetch` and `RulesetFile` too, `Router_proofs` of `RouterTrace`, `Loops_proofs` of `Answer`, `Conditions` and `Requests`, `Body_proofs` those of `Response` and `BodyFilter` that are about a body, and `Response`'s about its trace | |

### Fetch

`rules` is the project the API holds, a body for each id; ids are numbered in the
order of the API's cursor. One walk has `phase`, `after` (the cursor), `attempt` and
`all`, the local variables of `fetch_all` and `fetch_page` under their own names. `NextPage`
is a page with rules: append them, take the last id for the cursor, start `fetch_page` anew.
`EmptyPage` ends the walk, `RateLimited` and `Retry` are the two ends of the wait of a 429,
`BadAnswer` every answer that fails the walk at once. `EditRule` is somebody editing,
creating or deleting a rule between two pages. A request and its answer are one
step, since the client is blocked meanwhile and the API evaluates the
request at one instant. The history variables `seen` and `held` are what the API
held at some moment of the walk, and throughout it.

The API is not part of the repository. It is taken to answer, as `fetch_all`
needs, a run of the rules that follow the cursor, in a fixed order of ids, of any length.

### RulesetFile and RulesetRegister

Names point to inodes and descriptors keep them, so a rename does not disturb a reader and a
writer goes on writing into a file that has been renamed under it. `OpenTmp`
(`O_CREAT | O_TRUNC`), `WriteBlock`, `CloseTmp` are `std::fs::write`;
`Rename` and `RenameMissing` are `std::fs::rename`. `IOError` may strike anywhere, `KillWrite`
too, and both leave the temporary file as it is. A content is a sequence of blocks and a block
tells which ruleset it is of: enough to tell a whole file from an empty, a short and
a mixed one. `LoadStep` is the process that reads the file for the plugin; it
is external, and does what "the file the plugin reads" asks of it.

`RulesetRegister` is what the plugin's side may rely on: the content is replaced
in one step and read in one step. The refinement mapping takes the visible
content, the inode the loader has open, and what it loaded.

### Sync

Each action is one of `Fetch` or of `RulesetFile` under the condition that the
cycle has come to it, or a step of the cycle of its own: `Start`, `Wake`, `TranslateFailed`
(one entry that is not an `EditorRule` fails the whole array), `Translate`, `Written`, `FetchFailed`, `Kill`.
`OneShot` processes exit after a cycle and are started again; the
others sleep and wake. `Overlap` says whether two processes may run at once.

### EngineRule and Translate

`EngineRule` translates the matchers that the translator's output can exercise:
datetime ranges (half-open, any of a list), weekdays, methods with the
`exclude_methods` that counts by its presence, host, path, sampling. `Canon` is the
rewriting of a request by `Request::rebuild_with_config` (sorted query, no `utm_*`, no
default port): an arbitrary idempotent function. Time is
counted in ticks, `TicksPerSecond` to a second, `TicksPerDay` to a day, days up to `LastDay`, the last
`NaiveDate`.

`Translate` takes the editor rules in order. `Accept` appends `TranslatedRule`,
`Skip` records what is refused, `Panic` is the overflow of a date. `Rfc3339` writes an instant as `rfc3339()` does,
in whole seconds. `EditorAsks` and `DatetimeHolds` say, independently of the code, which requests an editor rule is
for; since a fraction of a second is lost on the way, `EditorAboutApplies` and `EditorSurelyApplies` say so
with the rest of that second in doubt, and are the same for a datetime in whole seconds. The properties compare them with `RuleApplies` over `Asked`.

### Redirects and Answer

`Answer` runs the loop of `Action::from_routes_rule`: the next rule in the order of
`Ord for Rule`, passed over when it is not drawn (with its reset and its stop), else merged:
a fresh action after a reset, the status update replaced, the Location override
appended, the loop ended by a stop. `Respond` is the end of `route_request`.
`Redirects` says the same in one go: drop what comes after a stop,
drop what comes before a reset, and let the last rule with a status and the last with a target decide.
`Guest` uses that decision, so `DecidesAsWhole` is the link between the two.

### Router

A matcher is named by the keys that lead to it, one for each level (scheme, host, ip, method, headers, date), `Any`
for the child without a condition; `count[n]` is its count, 0 for one that does not exist. `stored` holds what the
`PathAndQueryMatcher`s at the ends hold, each route with its branch: a route with two ips and two methods has four.
`Insert` counts a route once in every matcher on the way. `Remove` goes first to the children without
a condition and, where these report nothing, to the others (`Called`), a `HostMatcher` ignores what its
regexes report (`Reports`), a `PathAndQueryMatcher` takes one route (`Takes`; a hash map
chooses), and a child whose count has come to 0 is dropped with all it holds (`Sweep`). `BatchRemove` visits everything and
changes no count. `ApplyChangeSet` is a batch, after which `InsertNext` inserts the updated and the added
routes. `Found` is `match_request`, for both values of `always_match_any_host`.
The regexes of hosts and paths are conditions like the others: the radix tree is taken to find those that match.
A route's branches agree on the levels at which they have no condition, since `Route` has one list of ips and one of
methods (`RouterAssumption`). `EngineRule` says, for the conditions of synced rules, what a branch means.

`RouterTrace` is the second walk over that tree, written beside the first in the code: nodes that say whether a child was met and asked,
and the fallback to any host decided from the routes traced so far. The regexes of a `HostMatcher` and of a `PathAndQueryMatcher` have a node of their own
(`RegexNode`), which always has the radix tree (`TraceTree`) below it, and a path regex that does not match has its `StorageNode` all the same, without routes. Of the tree, the node for what all its
regexes begin with is there, and what it leads to is any (`Begun`, `Tried`) that does not lose a regex that matches: that the real tree loses none is `RegexTree`'s business.

### RegexTree

An item is empty, a leaf of one regex and its routes, or a node that holds the common beginning of its children.
Regexes are sequences of characters, with groups (the `?:` is left out), escapes and classes; what a regex matches is computed by
`Language`, which stands for the regex crate, and gives nothing for a text that is no regex (`Reading` goes through it character by character). `CommonPrefixSize` is the cut of `prefix.rs`; it
counts characters, whereas `NodeInsert` compares it with a length in bytes (`ByteLen`), as `node.rs` does. `Insertion`,
`Removal`, `Retained`, `Found`, `Got`, `CacheItem` and `Trace` follow the functions of those names, each with
its order of children; they are recursive functions over `Items`, the items of at most `MaxChange` nodes one below the other, since one operation puts at most one node above others.
`Turn` is a turn of the iterator's `next()`, and `Iterated` what it has told after all of them. `content` is history: the entries that are there.

### Conditions

`Headers`, `RouteTimes` and `Dates` make a rule's constraints into the conditions of a route, as `rule.rs` does (an unknown kind, or one
without its value, is left out; a bound that cannot be read is none). Routes with one set of conditions share a group.
`AskGroup` goes through a group with the memo of the groups before, stopping at the first that fails; `TraceGroup` is the loop of
`trace`, which goes on and keeps another value in its memo. Both are checked against "all conditions hold".

### Requests

A text is a sequence of characters and escapes. `FromConfig` splits the query, collects the parameters (a repeated key moves to the
end), sorts, skips the marketing ones, escapes again; `Rebuild` does so for a request that already met another Router,
from its original text. `RulePathAndQuery` is what `rule.rs` makes of a source. The properties compare the two, and state where
they do not agree. The loops of the code over a text or a list are recursive functions here (`Split`, `Among`, `Collected`, `QueryOf`) and not the folds of the
library: these take an operator, and of such an operator the provers can show nothing.

### Variables, HeaderFilters, Html, BodyFilter and Response

`Response` begins with rules that got through their draws (`Answer` has these) and takes them in the loop of
`from_routes_rule`: `FromRouteRule`, `Merge` with `Over` for the one fallback a status and a log may have. Then come the calls in the
order of `RunExample::new`: `GetPeer`, `FilterRequestHeaders`, `AnswerAtOnce` or `AnswerBackend`, `FilterHeaders`,
`CreateFilterBody` (with the headers of the response, as a proxy does, or with none, as `RunExample` does), `FilterBody` for each
chunk, `ShouldLogRequest`, `GetLogTags`. `applied` is `rules_applied`, `trace` the unit trace with its per-target values.

A text is a sequence of words and references `@name`; a name may be the beginning of another, so variables are replaced longest
first. A variable that is a response header makes all texts of its rule wait (`IsDeferred`); one of the body is replaced
by its default or captured by the first item of the chain.

`BodyFilter` chains items: decoder, capture, buffer, text, HTML, markdown, encoder. `Feed` is an item's `filter`, `Flush` its `end`; `Filter(n)` feeds
the next n tokens, for any n, and `End` ends the body. A start tag is two tokens, so that chunks can end in it; a coded body has a token for each token and a trailer.
`Whole` says what the chain is for on the whole body, without a stream, and `StreamsTheWhole` compares.
Markup that may be read in two ways (`Odd`) is what a strict rewriter refuses: `Broken` is the write that returns an error, which
`html_filter_body.rs` logs and swallows, so that the rest of the chunk is lost; `Panic` is the next call of such a rewriter, and `RefusesHeld` its refusal to end within a tag that holds such markup. `Words`
gives back what is no UTF-8, or is not converted.

### Markers

`Pattern` is the regex of a source, with a group for each marker, the names in the regexes of other markers replaced too (`ReplaceName`); a regex with two groups of one name captures nothing (`NamesOnce`). `Way` is how it takes a text apart, and stands for the regex crate. `IsFound` asks the
one regex (`StaticOrDynamic`, `ValueCondition::MatchRegex`), `RouteCaptures` the other, with its own way of choosing headers and of joining what it
captured. `TransformedBy` has a case for each transformer but those that are a call of the heck crate; one that panics has no result.
`FoundLeadsBack` is about the two regexes staying in step.

### Loops

`Hop` is one turn of the loop in `redirection_loop.rs`, `Stop` its exits, the url of which no request can be made among them. What the rules answer for a url, with a host or without, and a method is any function. `Client[n]` is where
a client may be after n redirections, written without the report's bookkeeping; one that is still on its way after as many as there
are places (`Places`: pages, methods and hosts) never arrives.

### Guest

`config[r]` is what the host holds for route `r`; `Reload` replaces it at any
moment. An instance goes from `length` (the first `get_config`, into 64 KiB) to `whole`
(a second one, only for a longer text) to `handle` (parse or reuse the cached router, match, answer).
What was read is a pair of a configuration and the number of bytes read; if that
is not its length the text was cut off or padded and is no JSON. `Finish` keeps the
instance with its memory or drops it, `Trap` drops it. `given` is history: the
configurations the route has had since the request began.

## 3. What the runs check

| Run | Instance | States | Question |
|---|---|---|---|
| `parts` | seven modules, each alone: a walk over ids 1..3 with 2 retries and 2 edits; two processes one after the other that write a file of 2 blocks with 2 faults; up to 3 rules of 14 variants; 7 rules with 10 constraints on headers, 5 kinds of windows; 14 request texts under 32 configurations and 33 sources; rules with markers of which one begins another, under 40 requests; two pages that answer in 8 ways to 2 methods, also one way to a host and another without | 343634 | is a walk consistent, and does it end; is the file an atomic register; does the loop decide as the whole; are conditions asked and explained as a conjunction; do rules and requests that mean the same meet; is what a rule is found by captured, and does it lead back; does the loop report tell what a client sees? |
| `file_overlap` | two overlapping processes, two rulesets | violation | see section 7 |
| `sync` | two one-shots, 2 ids, a redirect and a malformed body, 2 edits, one of each fault | 898136 | is only a complete walk published, never an empty one instead, and does a failure keep the file? |
| `sync_live` | a daemon, 2 ids, 1 edit, one of each fault | 666072 | do file and plugin converge to the project? |
| `translate` | every operator with 9 operand lists for dates and 8 for datetimes, methods, sampling, sources, action lists | 3950 | is a translated rule as wide as its editor rule, but for a fraction of a second? |
| `translate_source`, `translate_scheme` | the same | violation | see section 7 |
| `router` | 7 routes of 3 ids, all kinds of conditions, 28 requests, 3 operations | 109237 | does a request find what is there, does no count drop a matcher in use, does a trace tell the same? |
| `guest` | 2 routes, 2 instances, 4 configurations, 2 reloads | 658890 | is every answer one of the request's own route? |
| `radix` | 9 regexes, 2 ids, 14 words, both cases, 4 operations | 158014 | does a word find what its regexes find, and does the tree stay in shape? |
| `radix_class` | 2 regexes with a class that holds a parenthesis | violation | see section 7 |
| `response` | rules of a palette for two places, fewer for three; about 90 lists of body filters on 5 documents and their codings and on odd markup, all chunkings | 185870 | do client, backend, log and reports get what the rules say? |

Why the bounds are enough to meet the cases the properties are about:

- `parts`: three ids allow a page to be preceded and followed by others; two edits
  delete and recreate a rule, or change one before and one after the cursor; two
  retries tell the first, a middle and the last attempt apart. Two blocks distinguish empty, half-written, mixed and whole; three inodes
  are the ones that can be in use at once (the file, the temporary file, the one
  the loader still has open); two faults crash over the remains of a crash. Three rules are a rule, one it overrides and one in between, and ties
  in rank need ids. Constraints are shared by groups that are met and not met, on both sides in the order of the groups. Two parameters stand in either order, repeated,
  empty, escaped and marketing ones among them. Two pages with two methods make chains with and without a beginning before the loop; budgets of one and twelve hops
  end before and after the longest chain.
- `sync`: blocks are not needed again (one each), for the interest is in the order
  of cycles; one fault of each kind between two cycles of different processes, with
  an edit in each. `VIEW` leaves out the data of inodes that nothing refers to: they are
  emptied when they are allocated. Symmetry is among processes of one kind and inodes;
  `sync_live` has none, as liveness requires.
- `translate`: a day of two seconds, of three ticks each, puts instants at the boundary
  of every day, inside it, and inside a second; eight days wrap the week and reach the last day of the calendar,
  whose first day is a Sunday as day 0 is.
- `router`: each matcher has children with and without a condition, a host is met by a string and a regex, an
  address by two ranges; two routes share an id and a branch, an id and nothing else, or a branch and no id. Three operations
  insert up to six routes (a change set two) and take some of them away, before or after one with the same id. Some requests have no host or no address; regexes are none, one or two.
- `guest`: a short text, two long ones of different lengths, one that holds no rule;
  two instances and two routes so that each may have cached the other's router.
- `radix`: each way to cut (in a literal, before a group, in an escape, behind a class, at a character of two bytes) has two regexes
  that share it; four operations build a node under a node and take it down again.
- `response`: two rules of the whole palette cover every pair of parts for all, some, and all but some codes; the third tells a fallback of a fallback. A
  list of two filters has one that holds back what the other must still see. Documents are empty, plain, nested, and cut off in a tag; odd markup stands in text or in a tag, and its chunk comes out in part or not at all.

`router` and `radix` stop only at their bounds, and `response`, the answers of `guest`, `translate` and the answers in `parts` are over when they are
given; where that would be a deadlock it is not checked (`parts` stutters in a named action instead).

In `sync_live` the fault counters are bounded, so eventually no fault happens:
that is the assumption of convergence, not a consequence.

## 4. Properties

- `CompleteWalk`, `OneVersion`, `GivesUpWhenExhausted`, `WalkEnds` (`Fetch`): what
  paging through a changing project guarantees.
- `ImplementsRegister`, `NeverHalfWritten` (`RulesetFile`): atomicity for a reader, crashes included; the second is what overlap breaks.
- `PublishesTheWalk`, `FailureKeepsTheFile` (action properties) and `Converges` (`Sync`). The first is about the process that renames: its own walk is done, and that is what it publishes.
- `NeverWider`, `HonouredInFull` (`Translate`): both inclusions between an editor rule and its translation, but for less than a second around a datetime that was given with a fraction (section 7).
- `DecidesAsWhole`, `OneRuleRedirects` (`Answer`).
- `FindsTheRoutes`, `NeverLost`, `CountsCover` (`Router`): the tree against the set of its routes. `FindsTheRoutes` is for ids
  that are inserted once at a time (`fresh`), as the rules of a project have; the other two hold whatever is inserted. What is not true, and nothing claims, is that
  `remove` leaves no entry of an id behind which was inserted twice. `TraceTellsTheRoutes` (`RouterTrace`) needs no fresh ids.
- `CacheIsFaithful`, `AnswersOwnRules` (`Guest`).
- `FindsAll`, `TreeIsWellFormed` (`RegexTree`): the tree against the entries one by one, by word and by text; `RemovesOne` and `CacheWithinLimit` are action properties. They take
  an entry to be inserted once: inserting an id again under the same regex is left out (section 7).
- `FindsByConjunction`, `TraceTellsTheConditions` (`Conditions`): neither memo changes an answer or an explanation.
- `RebuiltAsIfFirst`, `NoParameterIsLost`, `RewritingIsIdempotent`, `SameParametersMeet` (`Requests`). The third is what `EngineRule` assumes of `Canon`.
  The last three name the texts for which they do not hold: an escaped `&` or `=`, a rule with a marketing parameter, a path the http crate refuses,
  upper case that is folded after sorting, and, where order counts, a query that is not written as the engine writes it.
  A parameter with neither name nor value, as in `a&=`, is counted as none: it is written as nothing, or as the separator before it; a rule that has one is counted out of `SameParametersMeet` (section 7).
- `StreamsTheWhole`, `FailsOpen` (`BodyFilter`): a body in chunks against the whole; a body that does not decode goes through from there on. No body is cut off, and nothing panics, but for markup that the rewriter refuses.
- `StatusHasItsRule`, `LogHasItsRule`, `AppliedWereHeard`, `HeadersAsRulesSay`, `BodyAsRulesSay`, `TraceTellsTheHeaders`,
  `NoProxyNoChange`, `TagsSeeTheBackend` (`Response`): each compares what came out with what the list of rules says, without merging.
- `FoundLeadsBack` (`Markers`): but for a source whose regex has a name twice (a marker used twice, or one whose name begins what stands in the regex of another), a marker that the path shares with another source, captured text
  that has an `@name` in it, and headers that are found but not captured (section 7).
- `ReportsWhatAClientSees` (`Loops`): if every url is asked for as a client would (`AskedAsClient`), which a relative example under a rule for a host is not (section 7).
- `TraceTellsTheRoutes`: what is found is found in both walks, and no route is shown below what was not met. Nodes without routes may be.

Each module has one type invariant besides. They are proved where a proof is about the module (section 6), as theorems or as a part of the inductive invariant, and the
steps of the other proofs cite them; `TreeTypeOK` is part of `TreeIsWellFormed`.

## 5. Fairness

`FetchFairness` is weak fairness of a walk's steps: the process runs what it has
begun, the HTTP client has a timeout of ten seconds, so every request is answered or
fails, and the wait of a 429 is finite. Nothing is assumed of which answer comes:
`WalkEnds` holds although every answer may be a 429, since the retries are counted, and a page
always moves the cursor. It does rest on the ids being finite and on the API's
fixed order. `Sync!Fairness` adds that a daemon's sleep ends, that cron or a
supervisor starts a process when none runs, and that the loader keeps reading. There
is no fairness of faults, edits or kills.

## 6. What is proved

Every theorem holds for all values of the constants that satisfy the named
assumptions (`FetchAssumption`, `FileAssumption`, `SyncAssumption`, `EngineAssumption`,
`TranslateAssumption`, `RedirectsAssumption`, `AnswerAssumption`, `GuestAssumption`,
`RouterAssumption`, `TraceAssumption`, `TextAssumption`, `ConditionsAssumption`, `RequestsAssumption`, `SeparatorsAssumption`, `KeyOrderAssumption`, `LoopsAssumption`, `RequestAssumption`, `RulesAssumption`,
`FiltersAssumption`, `BackendAssumption`, `KeyAssumption`, `TreeAssumption`): they
give types to the constants and bounds, say that lists and sets of the code are finite, that texts, names and headers are sequences, that a rule's filter of the request names a header, one of the response has a value
and one of the body a type, an operation and a content that the code knows, that filters of headers have their action, header, target and unit and those of the body their unit (`FiltersAssumption`), that a backend answers with a code, headers and a body, and `KeyAssumption` says that the
64-bit hash tells apart the texts that the plugin meets. `SeparatorsAssumption`: `?`, `&`, `=`, a space, `+` and their escapes are characters that lower case leaves as they are,
and makes no other character into. `KeyOrderAssumption`: the order of keys has each key of a query at most once, none is missing, and the key without a character comes first, as in the order of bytes.

- `Sync_proofs`, on the walk: `FetchTypeCorrect`, `WalkIsComplete`, `WalkHasOneVersion`, `RetriesAreExact`. The invariant behind completeness is about
  the cursor: what was held throughout and lies at or before the cursor has been received, and nothing
  received lies after it. A page being a run of what follows the cursor then keeps it, and an empty page means
  that nothing lies beyond. `limited = attempt` while a page is asked for, plus one during a wait, gives the retries.
- `Sync_proofs`, on the file: `FileTypeCorrect`, `FileStaysWhole`, `LoaderReadsWhole`, `FileImplementsRegister`,
  all while processes do not overlap (`~ Overlap`). Invariant: at most one process is in
  `write_atomic`; the file, the temporary file and the loader's inode are told apart where they must be
  (`NamesInv`); the first `off` blocks of the inode being written are those of the wanted ruleset
  (`WriterInv`); what the loader has read is the beginning of the whole content it opened (`LoaderInv`).
  `FileIsWhole` alone is not inductive: a rename publishes the temporary file, of which it says nothing.
- `Sync_proofs`, on the cycle: `TypeCorrect`, `SyncNeverHalfWritten`, `SyncPublishesTheWalk`, `SyncFailureKeepsTheFile`. The two
  action properties follow from an invariant that ties what a process wants to write to what it has fetched, and has its walk done before it writes,
  and `before` to the visible content until the rename. They rest on the invariants of the two
  parts, whose lemmas are cited, not repeated.
- `Translate_proofs`: `TranslateTypeCorrect`, `TranslationIsNeverWider`, `TranslationIsFull`, for any calendar, any
  length of a day and of a second, any set of requests. That writing in whole seconds moves a bound by less than one is arithmetic on `\div`; days begin at whole seconds. One lemma per kind of condition (days, instants, weekdays, methods,
  sampling, source), each an equivalence between the editor's meaning and the engine's.
- `Loops_proofs`, on `Answer`: `AnswerTypeCorrect`, `LoopDecidesAsWhole`, `RedirectIsOfOneRule`, for any number of rules. The
  invariant says that the state is the decision of the rules taken so far: no stop among them
  while some are left, `update` is the last with a status, `filters` are, in order, those since the last reset.
- `Guest_proofs`: `GuestTypeCorrect`, `CacheStaysFaithful`, `RequestsGetTheirOwnRules`. The invariant is about what has been
  read (`ReadInv`): a text is a configuration the route has had, cut at the length of another one it has had.
- `Router_proofs`: `RequestsFindTheRoutes`, `CountsSuffice`, for any number of levels and any change sets. While ids are fresh, the
  entries are exactly those of the routes (`StoredInv`), and a count is at least the number of routes in its matcher (`CountInv`): at least, as
  `batch_remove` and regex hosts leave counts too high. The first needs the second, or a matcher could be dropped over an entry; that `remove` is called on every
  branch of the route rests on its branches having no condition at the same levels (`AllAreCalled`).
  `NoRouteIsLost`, `CountsCoverTheStored` and `RouterTypes` need no fresh ids. `CountInv` is false then: `insert` of an id that is there adds to the counts but
  replaces entries, and a `remove` may take another entry than the one meant. `CoverInv` bounds by the count of a matcher
  every set of entries in it that may need as many calls of `remove` (`Together`: no two of one id lie where one call goes to one or the other), in every matcher at once.
  `ExplanationFindsTheRoutes` is about `RouterTrace`: what `get_trace` says was met (`Told`) is compared level by level with
  what `match_request` descends to (`Reach`), by a smallest counterexample, since both walks are functions over the levels; they are written differently at the fallback of `HostMatcher` and at the regexes of hosts and paths, whose nodes come between. It rests on `CountsCover`: the walks pass over a matcher with a count of 0.
- `Response_proofs`: `StatusIsObeyed`, `LogIsObeyed`, `AppliedAreHeard`, `BodyIsAsSaid`, `HeadersAreAsSaid`, `TagsAreTheBackends`, for any rules and any backend. `ResponseInv` says that the action is the
  merge of the rules that no reset and no stop has ended (`Kept`), of which at most two are remembered for a status and for the log: the last and, for a fallback, the one it took the place of;
  what was said so far is said by the rule that is obeyed (`StatusObeyed`, `LogObeyed`), and what was applied is what was heard up to this call.
  `TextsInv` says what the texts of the merged action mean, for every code and all headers a backend may send: the body filters those of the rules, one rule after the other
  (flattening a list of lists distributes over their concatenation; sorting the variables by insertion keeps each of them), the tags those of the rules, in any order; what waits for no header resolves to itself with any.
  `HeadersInv` says the same of headers, of the response and of the request: what the merged filters are once the headers are known is what the rules say (`Picked`, `HeardOfRules`).
  A filter that has waited and the one its rule means are the same or differ in a value with two question marks (`Similar`; `TargetAlike` has the argument about a target), and lists of headers that are alike stay alike
  through each kind of filter (`FilterAllAlike`). A rule has no filter for a protected header of the request, and one for another header leaves the protected ones in their order (`FrameStays`).
- `Body_proofs`: `NoNeedNoChange`, `BodyFailsOpen`, `TraceTellsHeaders`, for any rules and any backend.
  `QuietInv` is about an action that does not need the proxy: it has no filter that could do anything, so its chain is empty or one visitor that listens for a variable of the body, between a decoder and an encoder if the body is coded.
  Such a visitor lets every token through up to one that it refuses (`RewritePasses`), and `Untouched` says what the chain holds back after each chunk: the text so far, decoded if the body is coded, to be encoded again to what came if the body is what an encoder made (`Intact`).
  `BodyFailsOpen` is about any chain. While nothing has failed, `FlowInv` only has to say that every item is one that `Item` can make and holds texts (`GoodChain`), that what is captured are texts (`GoodRegistry`), and that what came out is a sequence:
  then what the next chunk gives is one too (`FilterChainIsGood`, `EndChainIsGood`). Once an item has refused, what came out is what was out by then and the chunks since (`Flowing`), which is `FailsOpen`. That what is put in stays a text through replacement of variables,
  header filters and all visitors is most of the proof.
  `TraceTellsHeaders` has a hypothesis about the rules, `UnitsAreLabels`, without which the trace could not be compared with the headers at all, since it names units and not values: a filter that sets a header
  has its unit in its value, no other value, variable, target or header of the backend has it, no other filter uses that unit, and a filter has the same target in the trace exactly when it is about the same header.
  `LabelsAssumption` of `MCResponse` says that all rules of the run satisfy it. The invariant (`LabelInv`) says of each such filter that the trace has nothing of its unit until the headers are filtered, and that
  from then on the unit is there as applied, under the filter's target, just as a value with it stands in the headers (`Telling`). Whatever is merged, and whatever headers the variables are resolved from, no text of the action but that filter's value has the unit
  (most of the proof, text by text); so each step of the filters' loop puts the unit on both sides, takes it off both, or leaves both as they are, also where a value is replaced, and the filters of the body, the log and the tags are of other targets or other units.
- `Loops_proofs`, on `Conditions`: `FoundByConjunction`, `TraceTells`, for any finite set of rules. The walk through the groups is a set of possible loop states, as the code's order
  of hash maps is any. The invariant is that a memo holds nothing but what is true of the request, whichever groups were seen; then a group is met as the conjunction says.
  `trace` goes on after a failure and fills its memo otherwise, so its memo has an invariant of its own.
- `Loops_proofs`, on `Loops`: `ReportsAreTrue`, for any answers, to a url with or without a host, any hosts and budgets, under the hypothesis of the property that the Router is asked as by a client. The chain in the report is where the client goes (`ChainInv`). That a hop that is in the report already
  means going round for ever follows by repeating the steps from there; that a client who does not go round arrives within `Places` hops is the pigeonhole principle.
- `Loops_proofs`, on `Requests`: `RebuiltIsAsFirst`, for any list of texts, any configurations, schemes and hosts. What a rebuilt request keeps of the first one is its
  text in the case it came in (`RequestsInv`), and a text in lower case is one that lower case leaves as it is (`LowerTwice`); the host is read anew from what was first written.
  `NoneIsLost`, `RewritingStays`, `ParametersMeet`, for any texts, sources, configurations and any choice of marketing parameters. What they rest on is that a query which `QueryOf` has written
  is read by `ParseQuery` as the parameters it was written from, but for the one with neither a name nor a value (`RoundTrip`): an induction over the list (`ByAppending`), in which the escaped text of a
  parameter has no separator of its own, so that splitting finds just those that were put in. Of a list in which each key is once, sorting keeps the set (`SortedAmong`), and depends on nothing else;
  a part of a sorted list is sorted, so what is left after the marketing parameters are taken out, or those alone, is read back in the order it had. Such a list and a function from keys to values say the same
  (`SameFunction`, `SaidIs`), which turns what the properties say of functions into sets of pairs. Two texts are equal only if they split at the first `?` alike.
  The parameter that is written as nothing has to be first where the keys are sorted, or it would leave an `&` behind: this is what `KeyOrderAssumption` is for.

- `RegexTree_proofs`: `TreeInvHolds`, `TreeStaysWellFormed`, `TreeFindsAll`, `TreeRemovesOne`, `TreeCachesWithinLimit`, for any regexes, words, ids, limits and number of operations.
  `TreeInv` says that the tree is well (`Well`: two children at least under a node, none of them empty, each beginning with the node's regex at a place where it may be cut, no entry below two of them) and that it holds (`Held`) what was inserted and not taken out.
  Each function over the tree is unfolded once (`FoundUnfold`, `InsertionUnfold` and so on), and what it gives is shown by induction over items (`TreeInduction`): an item of depth n is made of items of less depth, so the items for which a fact is false would have one of least depth.
  That insertion keeps `Well` rests on `prefix.rs`: of two texts, what they have in common up to a place outside of groups and escapes is a cut of both (`CommonCuts`), and a longer common beginning is one behind the node's regex (`LongerIsCut`), also where the lengths compared are one of characters and one of bytes.
  `TreeFindsAll` has a hypothesis, `ClassesArePlain` for every regex: a class is in a group, as `MarkerString::new` makes it, and has no parenthesis but escaped ones. Then the count of `prefix.rs` is the depth of groups (`ReadAsScanned`), a word of the regex begins with one of what is cut off (`WordsBegin`), and a node hides nothing.
  Without it the theorem is false, as `radix_class` shows; `MCRegexTree` has an assumption which says that the regexes of `radix` satisfy it and those two do not. The other theorems need no hypothesis.
  Of the cache: a level compiles what it counts, child after child with what the one before has left (`CacheItemIs`), and the loops over levels add that up. Of the iterator: from an item, `TurnsOf` turns tell each of its entries once and lead on to what comes behind it (`VisitsEach`).

Only model-checked:

- The liveness properties `WalkEnds` and `Converges`: liveness under fairness is beyond the prover. The runs that expect a violation need an instance and no proof.
- `Markers`: `FoundLeadsBack`. That a text can be cut into the words of a pattern is asked by a recursive operator over both, out of the provers' reach as it is written.
- `BodyFilter`: that the chain over chunks is the chain over the whole (`StreamsTheWhole`) is a property of the visitors of `Html` and of the codecs, each a fold, and of what the chunks in them add up to. That every step keeps such data what it is has been proved (`BodyFailsOpen`).

## 7. Disagreements found

1. `file_overlap` - the temporary file has one fixed name. Two syncs that overlap
   (a cron one-shot slower than its period, or one started by hand beside a daemon) share it: A has
   written and closed `<path>.tmp`, B truncates it, A renames it, and the loader reads an empty or half-written
   file, until B has finished writing into what is now the ruleset file. B's own rename then fails
   with ENOENT.
   The damage to the file is transient, for the other process finishes what it writes; what the loader took is not, until it reads again.
2. `translate_source` (`HonouredOrSkipped`) - sources are copied as they are written, requests are compared after
   being rewritten. A source with an unsorted query, a `utm_` parameter or a default
   port is accepted and never matches, although unsupported rules are to be "skipped
   and reported". `HonouredInFull` shows it is the only such case within what is modelled: every translated rule with a
   canonical source applies to all its requests.
3. `translate_scheme` (`SchemeHonoured`) - the scheme of a source is dropped, so a rule for `http://h/x` redirects `https://h/x`.
   `NeverWider` therefore leaves the scheme out, and this run has it on its own.

4. `radix_class` - the common beginning of two regexes is cut by counting parentheses, also those in a class. Two rules whose marker has
   the regex `[)]` get a node whose beginning, `(?:[)]`, is no regex, and neither is found any more, although each is found alone. The plugin's own rules have no markers.

Met while modelling, and stated where a property has to leave them out:

- A datetime of an editor rule may have a fraction of a second (`translate.rs:280`), and `rfc3339()` (`translate.rs:251`) cuts it: "after 12:00:00.9" applies from 12:00:00 on, so the rule is wider by less than a second, and "before" one is narrower by as much. `NeverWider` and `HonouredInFull` allow that and no more.
- A relative example is asked for without a host (`redirection_loop.rs:68`), although a comment there counts a relative url as one on the project itself: for a project on host `p`, a rule for `p` that sends `/a` to `/a` is a loop for every client, and the report on the example `/a` says nothing of it. A url of which no request can be made ends the report in the same silence.
- A rule with a source like `/?a&=` gets the text `/?&a` from `Request::build_sorted_query`, which puts a separator after every parameter and takes off the last one, while no request is written so: such a rule meets nothing, and is not reported.
- `MarkerString::new` replaces an `@name` in the whole regex, also within the regex of a marker that is already in it. A source `@ma/@m` with an `@m` in the regex of `ma` has two groups of one name: the rule is found, but the capturing regex does not compile and the target keeps its `@name`s.
- `get_trace` shows nodes below a regex that does not match (the tree below the node of the regexes, the storage below a path), all without routes, and headers, dates and addresses are said to have been asked (`executed`) also when they were not met.
- An HTML body with markup that can be read in two ways is refused by the strict rewriter. `html_filter_body.rs:33` logs the error and goes on: what is left of the chunk is lost without `in_error`, what comes before it may be, and the next call of the same rewriter panics. It happens to a rule with a variable of the body too, though `need_proxification` is false (`NoProxyNoChange` allows it for such markup alone).
- An entry that is inserted again under a regex that is the whole beginning of its node does not replace itself: `Node::insert` looks for a child with more in common than the node, finds none, and adds a second leaf. `RegexTree` inserts an entry once (`InsertedOnce`), as the rules of a project have one route each.
- `RegexTreeMap::cache` without a level ends at the first level that adds nothing, also when the levels below would; `Router::cache` passes over five such levels in all, for `retry` is never set back.
- A target that waits for a response header does not see a `?` that a variable brings, and gets a second one for the skipped parameters; and these wait with it, so that an `@name` in a skipped parameter is taken for the rule's variable (`HeadersAsRulesSay` leaves both out).
- A rule with a variable of the body and no filter has a coded body decoded and encoded again, though `need_proxification` says that the response need not be looked at: one that is damaged or cut off comes out otherwise than it came (`NoProxyNoChange` counts it out).
- `RunExample` asks `should_log_request` with the action's status, 0 if it has none, and `get_log_tags` with that of the response: a log rule for some codes is told otherwise than by a proxy.
- A body that fails to decode in the middle loses what buffers held of it, and a truncated gzip body its last output (`FailsOpen` counts them out).
- A header with a marker is looked for under any spelling of its name and anywhere in its value, but captured only under the rule's spelling and from the whole value
  (`route.rs:129` and `header.rs`): a rule can be found without what its markers match.
- What was captured is text of the target, and an `@name` in it is expanded by the variables that come after.
- A parameter with neither name nor value is written by `query.rs:88` as nothing where parameters are sorted, and leaves the `&` before it where they are not: `a&=` becomes `a` or `a&`, and
  `a&` read again is another list of parameters (`NoParameterIsLost`, `RewritingIsIdempotent` and `SameParametersMeet` count it out). The attempt to prove the first of them showed it.
- A marker that is used twice in a source becomes two groups of one name, so nothing is captured; `Slice` panics when it ends before it begins or within a character; the first eleven failures are kept under the name `first_ten_failures`.

## 8. Not modelled, and why

- Of the router: `graph`, which draws the tree, and in a trace the inner nodes of a radix tree below its root. That a route is returned once for each of its ranges that
  holds the address. A ruleset with two rules of one id in the plugin: `Answer` and `Guest` ask for rules that `Before` tells apart.
- A date condition on the last day of chrono's calendar overflows in `date_ranges` and ends the process; `Panic` models it, no property is about it.
- The regex of a marker is a list of words, and is not percent-encoded, which the code does (`rule.rs:130`); the transformers `camelize`, `dasherize` and `underscorize` are the heck crate's. `Response` takes captured texts as given and marks what a transformer has touched; `Markers` has both, for one rule.
- External crates: regexes are modelled by their language over short words, lol_html by the tags and texts it calls a visitor for (that it is strict by default, refuses ambiguous markup, and panics when it is used after an error, is taken from its interface; which markup that is, and how much of the chunk is let out before, is left to the document), the codecs by a token for a token, the markdown renderer by the words that are left.
- API tools but for loops and the calls of `RunExample`: impact, test examples, explanations run those over a list and collect what comes out. FFI and JavaScript bindings: conversions at the boundary, not in the plugin's build.
- `Config::from_env` and URL building: read once, no state. Parsing of JSON and dates: an operand is a number, or `Unreadable`.
- `BodyAfter` and the other visitors override a unit under a target's hash when they have one (`body_after.rs:28`); the hashes are taken to differ, so the trace of a visitor is `add_unit_id`.
- The ABI shims of the guest and their fixed buffers: a URI or header beyond them is cut off, which the models do not see.
- The patched chrono, which is by far the largest directory, and getrandom: third-party code. Of the first only the overflow matters here and is modelled.
- Power loss: the model's file system keeps what was written. Nothing is fsynced, so a file could be empty after one.
- Time: a `Retry-After` of any length is a wait that ends.
- An API that goes round in a circle between two last ids would keep a walk going for ever; the model's API keeps one order.
- Two configurations with the same 64-bit hash, which share a cached router: `KeyAssumption` excludes it.

## 9. Plan

Done, in this order, the most important behaviour first: `Fetch`, `RulesetFile` with its register, `Sync` as
their composition, `EngineRule` and `Translate`, `Redirects` and `Answer`, `Guest`, `Router`, and the theorems of each; then `RegexTree`,
`Variables`, `HeaderFilters`, `Html`, `BodyFilter`, `Response`, `RouterTrace`, `Conditions`, `Requests`, `Loops`, `Markers`.

What would come next:

1. `Router`, further: which entries stay behind when an id is inserted twice.
2. `Guest` on top of that router instead of `Matches`, and `Translate` in front of it: from an editor rule
   to the answer of a request in one composition; and `Sync` with `Guest`: the host's reload as the loader's `EndLoad`.
3. `Markers` in front of `Response`, and `RegexTree` as the matcher of `Router`'s paths.

## 10. Running

    tlc -workers 2 -config MCParts.cfg MCParts.tla
    tlapm Sync_proofs.tla

and likewise for the others. `PROJECT.json` lists the runs with their properties, the
definitions with the lines they stand for, a mutated form of the code for each property, the findings, the hazards and the theorems.

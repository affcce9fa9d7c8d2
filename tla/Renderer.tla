------------------------------ MODULE Renderer ------------------------------
(***************************************************************************)
(* One call of runExtraction (packages/scraper/src/extractor.ts) and what  *)
(* the processor makes of its result: the static attempt, the browser that *)
(* renders the page or only takes its screenshot, robots.txt and the URL   *)
(* policy on the way, the extracted output and its difference to the       *)
(* previous one.  Crawlee and Playwright fetch, redirect and fail at will. *)
(* The resolver may answer every check of a URL differently: a verdict is  *)
(* that of the moment, and no claim on the connection made after it.       *)
(***************************************************************************)
EXTENDS Values, ChangeSet, UrlPolicy

CONSTANTS
  Urls,          \* URL records a page may be, redirect to or load
  Answers,       \* what the resolver may answer, at any time, for any host
  Pages,         \* [price, tags, stock, needsScript]: what a page shows; its price is [text, value]
  Previous,      \* outputs of the execution before
  MaxRedirects, MaxMatches,
  MaxRefused     \* bound: requests of one page the policy refuses

Modes == {"static", "browser", "auto"}

ASSUME RendererConstants ==
  /\ MaxRedirects \in Nat /\ MaxMatches \in Nat /\ MaxRefused \in Nat
  /\ \A p \in Pages : p.price.value = NullValue \/ p.price.value[2] \in Int
  /\ \A output \in Previous : IsOutput(output)

(* The fields: one required price, all the tags, and whether it is in stock. *)
Price == "price"
Tags  == "tags"
Stock == "stock"

VARIABLES
  mode, target,  \* the configuration
  page,          \* what the page shows: price and tags, statically or after rendering
  robots,        \* whether robots.txt allows the target
  pc,
  at, hops,      \* where the navigation is, and its redirects
  purpose,       \* why the browser runs: extract or screenshot
  refused,       \* requests of the browser's page that the policy refused: [url, code]
  browserRuns,   \* observer: browsers started
  checks,        \* observer: verdicts on the URLs navigated to: [stage, url, verdict]
  found,         \* the static result
  outcome        \* result or error of the call

vars == <<mode, target, page, robots, pc, at, hops, purpose, refused, browserRuns, checks, found, outcome>>
Config == <<mode, target, page, robots>>

Nothing == [output |-> <<>>, warnings |-> 0, finalUrl |-> target]
Pending == [kind |-> "pending"]

Init == /\ mode \in Modes /\ target \in Urls
        /\ page \in Pages /\ robots \in BOOLEAN
        /\ pc = "start" /\ at = target /\ hops = 0 /\ purpose = "none"
        /\ refused = <<>> /\ browserRuns = 0 /\ checks = {} /\ found = Nothing /\ outcome = Pending

PolicyCodes == {"URL_INVALID", "URL_SCHEME_BLOCKED", "URL_CREDENTIALS_BLOCKED", "URL_PORT_BLOCKED",
                "HOSTNAME_BLOCKED", "DNS_RESOLUTION_FAILED", "IP_RANGE_BLOCKED", "REDIRECT_BLOCKED",
                "ROBOTS_DISALLOWED"}
Blocks(code) == code \in PolicyCodes

(* The resolver is asked anew by every check. *)
Verdicts(url) == {AssertPublicHttpUrl(url, addresses) : addresses \in Answers}

Checked(v) == checks' = checks \cup {[stage |-> pc, url |-> at, verdict |-> v]}

Throw(code) == /\ outcome' = [kind |-> "error", code |-> code]
               /\ pc' = "done"
               /\ UNCHANGED <<purpose, browserRuns, at, hops>>

OpenBrowser(why) == /\ pc' = "open" /\ purpose' = why /\ browserRuns' = browserRuns + 1
                    /\ at' = target /\ hops' = 0
                    /\ UNCHANGED outcome

-----------------------------------------------------------------------------
Start == /\ pc = "start"
         /\ \E v \in Verdicts(target) :
              /\ Checked(v)
              /\ CASE v # "OK" -> Throw(v)
                   [] v = "OK" /\ mode = "browser" -> OpenBrowser("extract")
                   [] OTHER -> /\ pc' = "fetch"
                               /\ UNCHANGED <<at, hops, purpose, browserRuns, outcome>>
         /\ UNCHANGED <<Config, refused, found>>

(* Values of a field, one or all of them; null does not count as a match.   *)
BuildValue(texts, type, multiple) ==
  LET values == [i \in DOMAIN texts |-> CoerceExtractedValue(texts[i], type)] IN
  IF multiple THEN List(SelectSeq(values, LAMBDA v : v # NullValue))
              ELSE IF values = <<>> THEN NullValue ELSE values[1]

Matches(texts, limit) == SubSeq(texts, 1, IF Len(texts) < limit THEN Len(texts) ELSE limit)

RequiredWarnings(value) == IF value \in {NullValue, List(<<>>)} THEN 1 ELSE 0

(* extractFromCheerio and extractFromPage: the output with its warnings,    *)
(* for a list that was cut and for a required field without a value.        *)
Extract(rendered) ==
  LET shown == rendered \/ ~page.needsScript
      price == BuildValue(IF shown THEN <<page.price.text>> ELSE <<>>, "currency", FALSE)
      tags  == BuildValue(Matches(IF shown THEN page.tags ELSE <<>>, MaxMatches), "text", TRUE)
      stock == BuildValue(IF shown THEN page.stock ELSE <<>>, "boolean", FALSE)
  IN [output |-> <<[field |-> Price, value |-> price], [field |-> Tags, value |-> tags],
                   [field |-> Stock, value |-> stock]>>,
      warnings |-> (IF shown /\ Len(page.tags) > MaxMatches THEN 1 ELSE 0)
                   + RequiredWarnings(price),
      finalUrl |-> at]

HasUsefulData(output) == \E i \in DOMAIN output : output[i].value \notin {NullValue, List(<<>>)}

AutoRetriesBlocked(code) == IF mode = "auto" THEN OpenBrowser("extract") ELSE Throw(code)

(* In auto mode the browser takes over what is not a matter of policy. *)
StaticFails(code) == IF mode = "auto" /\ ~Blocks(code) THEN OpenBrowser("extract") ELSE Throw(code)

(* Each hop is checked before it is requested; got gives up on its own     *)
(* after the limit, with an error that is not a matter of policy.          *)
Fetch ==
  /\ pc = "fetch"
  /\ \/ ~robots /\ StaticFails("ROBOTS_DISALLOWED") /\ UNCHANGED checks
     \/ \E v \in Verdicts(at) :
          /\ robots /\ Checked(v)
          /\ \/ v # "OK" /\ StaticFails(v)
             \/ v = "OK" /\ StaticFails("EXTRACTION_FAILED")
             \/ /\ v = "OK"
                /\ \/ hops < MaxRedirects /\ at' \in Urls /\ hops' = hops + 1 /\ UNCHANGED pc
                   \/ pc' = "read" /\ UNCHANGED <<at, hops>>
                /\ UNCHANGED <<purpose, browserRuns, outcome>>
  /\ UNCHANGED <<Config, refused, found>>

(* The final URL is refused after all, the answer is too large, a selector  *)
(* is invalid, or there is an output.                                       *)
Read ==
  /\ pc = "read"
  /\ \E v \in Verdicts(at) :
       /\ Checked(v)
       /\ \/ v # "OK" /\ StaticFails(v) /\ UNCHANGED found
          \/ /\ v = "OK" /\ UNCHANGED found
             /\ \E code \in {"RESPONSE_TOO_LARGE", "SELECTOR_INVALID"} : StaticFails(code)
          \/ /\ v = "OK" /\ found' = Extract(FALSE)
             /\ OpenBrowser(IF mode = "static" \/ HasUsefulData(found'.output)
                              THEN "screenshot" ELSE "extract")
  /\ UNCHANGED <<Config, refused>>

-----------------------------------------------------------------------------
Return(renderer, result, shot, extra) ==
  /\ outcome' = [kind |-> "result", renderer |-> renderer, output |-> result.output,
                 warnings |-> result.warnings + extra, screenshot |-> shot, finalUrl |-> result.finalUrl]
  /\ pc' = "compare"
  /\ UNCHANGED <<purpose, browserRuns, at, hops>>

ScreenshotFailureThrows(code) == Throw(code)

(* The browser fails: with the first refusal of the page, if there was one, *)
(* except for robots.txt and a crawler that throws by itself.  A missing    *)
(* screenshot is only a warning.                                            *)
BrowserFails(code) ==
  IF purpose = "screenshot" THEN Return("cheerio", found, FALSE, 1)
  ELSE Throw(IF refused # <<>> /\ code \notin {"ROBOTS_DISALLOWED", "NAVIGATION_TIMEOUT"}
               THEN refused[1].code ELSE code)

(* The navigation starts: robots.txt, then the policy. *)
Open == /\ pc = "open"
        /\ \/ ~robots /\ BrowserFails("ROBOTS_DISALLOWED") /\ UNCHANGED checks
           \/ \E v \in Verdicts(target) :
                /\ robots /\ Checked(v)
                /\ \/ v # "OK" /\ BrowserFails(v)
                   \/ /\ v = "OK" /\ pc' = "load"
                      /\ UNCHANGED <<at, hops, purpose, browserRuns, outcome>>
        /\ UNCHANGED <<Config, refused, found>>

(* The browser follows redirects by itself: the route guard sees the first  *)
(* request of a chain, the request handler the last URL of it, and nobody   *)
(* those between.  It loads what the page names, of which                   *)
(* guardBrowserRequests aborts what the policy refuses, with one verdict    *)
(* per origin and page; or the navigation fails.                            *)
Load ==
  /\ pc = "load"
  /\ \/ /\ hops <= MaxRedirects /\ at' \in Urls /\ hops' = hops + 1
        /\ UNCHANGED <<pc, purpose, browserRuns, outcome, refused>>
     \/ /\ Len(refused) < MaxRefused
        /\ \E u \in Urls : \E v \in Verdicts(u) \ {"OK"} :
             /\ \A i \in DOMAIN refused : Origin(refused[i].url) = Origin(u) => refused[i].code = v
             /\ refused' = Append(refused, [url |-> u, code |-> v])
        /\ UNCHANGED <<pc, at, hops, purpose, browserRuns, outcome>>
     \/ \E code \in {"EXTRACTION_FAILED", "NAVIGATION_TIMEOUT"} : BrowserFails(code) /\ UNCHANGED refused
     \/ pc' = "render" /\ UNCHANGED <<at, hops, purpose, browserRuns, outcome, refused>>
  /\ UNCHANGED <<Config, checks, found>>

ChecksTheRequestOnly(v) ==
  LET own == {i \in DOMAIN refused : refused[i].url = target} IN
  CASE hops > MaxRedirects -> "REDIRECT_BLOCKED"
    [] hops <= MaxRedirects /\ own # {} -> refused[Min(own)].code
    [] OTHER -> "OK"

CountsToTheLimit(v) ==
  LET own == {i \in DOMAIN refused : refused[i].url \in {at, target}} IN
  CASE v # "OK" -> v
    [] v = "OK" /\ hops >= MaxRedirects -> "REDIRECT_BLOCKED"
    [] v = "OK" /\ hops < MaxRedirects /\ own # {} -> refused[Min(own)].code
    [] OTHER -> "OK"

(* What the request handler holds against the page: its final URL, the      *)
(* redirects, and the first refusal of one of its own two URLs.             *)
PageVerdict(v) ==
  LET own == {i \in DOMAIN refused : refused[i].url \in {at, target}} IN
  CASE v # "OK" -> v
    [] v = "OK" /\ hops > MaxRedirects -> "REDIRECT_BLOCKED"
    [] v = "OK" /\ hops <= MaxRedirects /\ own # {} -> refused[Min(own)].code
    [] OTHER -> "OK"

(* The request handler; a screenshot that fails there is a warning of the   *)
(* browser's own result, which only the extract purpose keeps.              *)
Render ==
  /\ pc = "render"
  /\ \E v \in Verdicts(at) :
       /\ Checked(v)
       /\ \/ PageVerdict(v) # "OK" /\ BrowserFails(PageVerdict(v))
          \/ v = "OK" /\ hops <= MaxRedirects /\ BrowserFails("RESPONSE_TOO_LARGE")
          \/ PageVerdict(v) = "OK" /\ purpose = "extract" /\ BrowserFails("SELECTOR_INVALID")
          \/ \E shot \in BOOLEAN :
               /\ PageVerdict(v) = "OK"
               /\ IF purpose = "extract" THEN Return("playwright", Extract(TRUE), shot, IF shot THEN 0 ELSE 1)
                                         ELSE Return("cheerio", found, shot, 0)
  /\ UNCHANGED <<Config, refused, found>>

(* The processor compares the result with the output of an earlier execution *)
(* and stores the hash of its canonical form.                                *)
CompareOutputs ==
  /\ pc = "compare"
  /\ \E previous \in Previous :
       outcome' = [kind |-> "compared", renderer |-> outcome.renderer, output |-> outcome.output,
                   warnings |-> outcome.warnings, finalUrl |-> outcome.finalUrl, previous |-> previous,
                   sameHash |-> Canonicalize(previous) = Canonicalize(outcome.output),
                   changes |-> BuildChangeSet(previous, outcome.output)]
  /\ pc' = "done"
  /\ UNCHANGED <<Config, at, hops, purpose, refused, browserRuns, checks, found>>

Next == Start \/ Fetch \/ Read \/ Open \/ Load \/ Render \/ CompareOutputs

Spec == Init /\ [][Next]_vars

-----------------------------------------------------------------------------
Compared == outcome.kind = "compared"
Failed == outcome.kind = "error"

(* A call starts one browser at most, and none once the policy refused a    *)
(* URL of the static attempt, a redirect included, or robots.txt its target. *)
OneBrowserPerCall ==
  /\ browserRuns <= 1
  /\ browserRuns > 0 =>
       /\ robots \/ mode = "browser"
       /\ \A c \in checks : c.stage \in {"start", "fetch", "read"} => c.verdict = "OK"

(* A result comes from a page whose URL was accepted after the redirects    *)
(* had led to it, for a target that was accepted and that robots.txt        *)
(* allows; one of the browser neither passed the limit of redirects nor     *)
(* comes from a page whose own request the guard refused.                   *)
Accepted(stage, url) == \E c \in checks : c.stage = stage /\ c.url = url /\ c.verdict = "OK"

ResultIsWithinPolicy == outcome.kind \in {"result", "compared"} =>
  /\ robots /\ Accepted("start", target)
  /\ \/ outcome.renderer = "cheerio" /\ Accepted("read", outcome.finalUrl)
     \/ /\ outcome.renderer = "playwright" /\ Accepted("render", outcome.finalUrl)
        /\ hops <= MaxRedirects
        /\ \A i \in DOMAIN refused : refused[i].url \notin {target, outcome.finalUrl}

(* What the static attempt found is not lost when the browser, which is     *)
(* only to take the screenshot, fails in any way.                           *)
StaticResultSurvives == pc = "done" /\ purpose = "screenshot" =>
  Compared /\ outcome.renderer = "cheerio" /\ outcome.output = found.output

(* A number is read as it is shown, in the notation of either convention.   *)
NumbersAreRead == Compared /\ (outcome.renderer = "playwright" \/ ~page.needsScript) =>
  Get(outcome.output, Price) = page.price.value

(* A blocked verdict, which ends the job for good, has a cause: robots.txt,  *)
(* too many redirects, or a refusal that the policy gave in this call, of a  *)
(* URL navigated to or of a request that the page made.                      *)
BlockedHasCause == Failed /\ Blocks(outcome.code) =>
  \/ outcome.code = "ROBOTS_DISALLOWED" /\ ~robots
  \/ outcome.code = "REDIRECT_BLOCKED" /\ hops > MaxRedirects
  \/ \E c \in checks : c.verdict = outcome.code
  \/ \E i \in DOMAIN refused : refused[i].code = outcome.code

(* SECURITY_MODEL.md says that a blocked decision of the route guard, which  *)
(* asset hosts pass as well, becomes an execution error.  The code does not  *)
(* keep this (see the README), so no run claims it.                          *)
BlockedRequestIsAnError == pc = "done" /\ refused # <<>> => Failed

(* The entries turn the previous output into the current one, name each     *)
(* field once, and exist exactly when the hashes differ.                    *)
Applied(previous, changes) ==
  LET gone == {e.field : e \in {c \in changes.entries : c.kind = "removed"}}
      new  == {c \in changes.entries : c.kind # "removed"}
      keys == (KeysOf(previous) \ gone) \cup {c.field : c \in new}
  IN [f \in keys |-> IF \E c \in new : c.field = f THEN (CHOOSE c \in new : c.field = f).after
                                                   ELSE Get(previous, f)]

ChangeSetIsExact == Compared => LET changes == outcome.changes IN
  /\ Applied(outcome.previous, changes) = Canonicalize(outcome.output)
  /\ changes.hasChanges = ~outcome.sameHash
  /\ changes.changeCount = Cardinality({c.field : c \in changes.entries})
  /\ changes.changeCount = changes.added + changes.removed + changes.changed
=============================================================================

--------------------------- MODULE RendererProofs ---------------------------
(***************************************************************************)
(* For any pages, URLs, answers of the resolver and limits: a call starts  *)
(* one browser at most, and none after a refusal; the URL of its result    *)
(* was accepted when it was reached; what the static attempt found         *)
(* survives; a block has a cause; and the change set of any two outputs is *)
(* exact.                                                                  *)
(***************************************************************************)
EXTENDS Renderer, FiniteSetTheorems, WellFoundedInduction, TLAPS

Codes == UNION {Verdicts(u) : u \in Urls}
Refusals == [url : Urls, code : Codes]

Typed ==
  /\ mode \in Modes /\ robots \in BOOLEAN /\ target \in Urls /\ at \in Urls
  /\ pc \in {"start", "fetch", "read", "open", "load", "render", "compare", "done"}
  /\ purpose \in {"none", "extract", "screenshot"} /\ hops \in Nat
  /\ refused \in Seq(Refusals) /\ \A i \in DOMAIN refused : refused[i].code # "OK"

(* The policy has refused nothing of the static attempt so far. *)
NothingRefused == \A c \in checks : c.stage \in {"start", "fetch", "read"} => c.verdict = "OK"

(* What has been found out on the way to the browser and in it. *)
PathInv ==
  /\ pc \in {"start", "fetch", "read"} => browserRuns = 0 /\ purpose = "none" /\ NothingRefused
  /\ pc \notin {"start", "done"} => Accepted("start", target)
  /\ pc = "start" => at = target
  /\ pc = "read" => robots
  /\ pc \in {"open", "load", "render"} => browserRuns = 1 /\ purpose # "none" /\ (robots \/ mode = "browser")
  /\ pc \in {"load", "render"} => robots
  /\ purpose # "none" => NothingRefused
  /\ purpose = "screenshot" => robots /\ Accepted("read", found.finalUrl)

(* The call has an outcome when the processor goes on, and not before; for  *)
(* the sake of a screenshot it is what the static attempt found.            *)
OutcomeInv ==
  /\ pc \notin {"compare", "done"} => outcome.kind = "pending"
  /\ pc = "compare" => outcome.kind = "result"
  /\ pc = "done" => outcome.kind \in {"error", "compared"}
  /\ purpose = "screenshot" /\ pc \in {"compare", "done"} =>
       outcome.kind # "error" /\ outcome.renderer = "cheerio" /\ outcome.output = found.output

IInv == Typed /\ PathInv /\ OutcomeInv /\ OneBrowserPerCall /\ ResultIsWithinPolicy /\ BlockedHasCause

(* A code may be thrown by this step. *)
Cause(code) == Blocks(code) =>
  \/ code = "ROBOTS_DISALLOWED" /\ ~robots
  \/ code = "REDIRECT_BLOCKED" /\ hops > MaxRedirects
  \/ \E c \in checks' : c.verdict = code
  \/ \E i \in DOMAIN refused : refused[i].code = code

(* A step adds at most a check of its own stage. *)
Grows == checks \subseteq checks' /\ \A c \in checks' : c \in checks \/ c.stage = pc

-----------------------------------------------------------------------------
(* The first of a nonempty set of positions. *)
LEMMA MinIsMember ==
  ASSUME NEW S \in SUBSET Nat, S # {}
  PROVE  Min(S) \in S
<1>1. PICK t \in S : \A u \in S : ~(<<u, t>> \in OpToRel(<, Nat))
  BY NatLessThanWellFounded, WFMin, Zenon
<1>2. \A u \in S : ~(u < t)
  BY <1>1 DEF OpToRel
<1>3. \A u \in S : t <= u
  BY <1>2
<1> QED
  BY <1>3 DEF Min

LEMMA CheckedIs ==
  ASSUME NEW v, Checked(v)
  PROVE  /\ Grows /\ \E c \in checks' : c.stage = pc /\ c.url = at /\ c.verdict = v
         /\ v = "OK" /\ NothingRefused => NothingRefused'
         /\ Blocks(v) => \E c \in checks' : c.verdict = v
<1> DEFINE new == [stage |-> pc, url |-> at, verdict |-> v]
<1>1. new.stage = pc /\ new.url = at /\ new.verdict = v /\ checks' = checks \cup {new}
  BY DEF Checked
<1> HIDE DEF new
<1> QED
  BY <1>1 DEF Grows, NothingRefused

LEMMA AcceptedStays ==
  ASSUME NEW stage, NEW url, Accepted(stage, url), Grows
  PROVE  \E c \in checks' : c.stage = stage /\ c.url = url /\ c.verdict = "OK"
BY DEF Accepted, Grows

LEMMA RefusalStays ==
  ASSUME Grows, pc \notin {"start", "fetch", "read"}, NothingRefused PROVE NothingRefused'
BY DEF Grows, NothingRefused

(* A refusal of the policy counts as a block. *)
LEMMA FirstBrokenIs ==
  ASSUME NEW n \in Nat, NEW rules, DOMAIN rules = 1..n
  PROVE  FirstBroken(rules) = "OK" \/ \E i \in 1..n : FirstBroken(rules) = rules[i][1]
<1> DEFINE broken == {i \in DOMAIN rules : rules[i][2]}
<1>1. broken # {} => Min(broken) \in broken
  BY MinIsMember
<1>2. FirstBroken(rules) = IF broken = {} THEN "OK" ELSE rules[Min(broken)][1]
  BY DEF FirstBroken
<1> QED
  BY <1>1, <1>2

LEMMA NormalizedBlocks == ASSUME NEW u, NormalizePublicUrl(u) # "OK" PROVE Blocks(NormalizePublicUrl(u))
<1> DEFINE rules == <<
      <<"URL_INVALID",             ~u.valid>>,
      <<"URL_SCHEME_BLOCKED",      u.scheme \notin {"http", "https"}>>,
      <<"URL_CREDENTIALS_BLOCKED", u.credentials>>,
      <<"URL_PORT_BLOCKED",        u.port \notin {0, 80, 443}>>,
      <<"HOSTNAME_BLOCKED",        u.host \in BlockedHostnames \/ u.suffix \in BlockedSuffixes>> >>
<1>1. DOMAIN rules = 1..5 /\ \A i \in 1..5 : Blocks(rules[i][1])
  BY DEF Blocks, PolicyCodes
<1>2. NormalizePublicUrl(u) = FirstBroken(rules)
  BY DEF NormalizePublicUrl
<1> HIDE DEF rules
<1> QED
  BY <1>1, <1>2, FirstBrokenIs

LEMMA RefusalBlocks ==
  ASSUME NEW u, NEW v \in Verdicts(u), v # "OK" PROVE Blocks(v)
<1>1. PICK addresses \in Answers : v = AssertPublicHttpUrl(u, addresses)
  BY DEF Verdicts
<1> DEFINE rules == <<
      <<NormalizePublicUrl(u),   NormalizePublicUrl(u) # "OK">>,
      <<"DNS_RESOLUTION_FAILED", addresses = <<>> >>,
      <<"IP_RANGE_BLOCKED",      AnyAddressBlocked(addresses)>> >>
<1>2. DOMAIN rules = 1..3 /\ \A i \in 1..3 : rules[i][1] # "OK" => Blocks(rules[i][1])
  BY NormalizedBlocks DEF Blocks, PolicyCodes
<1>3. v = FirstBroken(rules)
  BY <1>1 DEF AssertPublicHttpUrl
<1> HIDE DEF rules
<1> QED
  BY <1>2, <1>3, FirstBrokenIs

(* What was found out stays known in the browser. *)
LEMMA PathStays ==
  ASSUME IInv, pc \in {"open", "load", "render"}, pc' \in {"load", "render"}, robots, Grows,
         UNCHANGED <<mode, target, robots, purpose, browserRuns, found>>
  PROVE  PathInv'
<1>1. /\ Accepted("start", target) /\ NothingRefused /\ browserRuns = 1 /\ purpose # "none"
      /\ purpose = "screenshot" => Accepted("read", found.finalUrl)
  BY DEF IInv, PathInv
<1>2. NothingRefused' /\ Accepted("start", target)'
  BY <1>1, RefusalStays, AcceptedStays DEF Accepted
<1>3. purpose = "screenshot" => Accepted("read", found.finalUrl)'
  BY <1>1, AcceptedStays DEF Accepted
<1> QED
  BY <1>1, <1>2, <1>3 DEF PathInv

LEMMA ThrowKeeps ==
  ASSUME IInv, pc \notin {"compare", "done"}, purpose # "screenshot", NEW code, Throw(code), Cause(code),
         Grows, UNCHANGED <<Config, refused, found>>
  PROVE  IInv'
<1> USE DEF Config
<1>1. /\ outcome' = [kind |-> "error", code |-> code] /\ pc' = "done"
      /\ UNCHANGED <<mode, target, page, robots, at, hops, purpose, browserRuns, refused, found>>
  BY DEF Throw
<1>2. outcome'.kind = "error" /\ outcome'.code = code
  BY <1>1
<1>3. Typed'
  BY <1>1 DEF IInv, Typed
<1>4. PathInv'
  <2>1. purpose # "none" => pc \in {"open", "load", "render"} /\ NothingRefused
    BY DEF IInv, PathInv, Typed
  <2>2. purpose # "none" => NothingRefused'
    BY <2>1, RefusalStays
  <2> QED
    BY <1>1, <2>2 DEF PathInv
<1>5. OutcomeInv'
  BY <1>1, <1>2 DEF IInv, OutcomeInv
<1>6. OneBrowserPerCall'
  <2>1. browserRuns > 0 => pc \in {"open", "load", "render"} /\ purpose # "none"
    BY DEF IInv, PathInv, Typed
  <2> QED
    BY <1>1, <1>4, <2>1 DEF IInv, PathInv, NothingRefused, OneBrowserPerCall
<1>7. ResultIsWithinPolicy'
  BY <1>2 DEF ResultIsWithinPolicy
<1>8. BlockedHasCause'
  BY <1>1, <1>2 DEF BlockedHasCause, Cause
<1> QED
  BY <1>3, <1>4, <1>5, <1>6, <1>7, <1>8 DEF IInv

LEMMA OpenKeeps ==
  ASSUME IInv, pc \in {"start", "fetch", "read"}, NEW why \in {"extract", "screenshot"}, OpenBrowser(why),
         UNCHANGED <<Config, refused>>, Grows, NothingRefused', Accepted("start", target)',
         robots \/ mode = "browser",
         why = "screenshot" => robots /\ Accepted("read", found.finalUrl)'
  PROVE  IInv'
<1> USE DEF Config
<1>1. /\ pc' = "open" /\ purpose' = why /\ browserRuns' = browserRuns + 1 /\ at' = target /\ hops' = 0
      /\ UNCHANGED <<mode, target, page, robots, outcome, refused>>
  BY DEF OpenBrowser
<1>2. browserRuns = 0 /\ outcome.kind = "pending"
  BY DEF IInv, PathInv, OutcomeInv
<1>3. Typed'
  BY <1>1 DEF IInv, Typed
<1>4. PathInv'
  BY <1>1, <1>2 DEF IInv, PathInv
<1>5. OutcomeInv'
  BY <1>1, <1>2 DEF IInv, OutcomeInv
<1>6. OneBrowserPerCall'
  BY <1>1, <1>2 DEF OneBrowserPerCall, NothingRefused
<1>7. ResultIsWithinPolicy' /\ BlockedHasCause'
  BY <1>1, <1>2 DEF ResultIsWithinPolicy, BlockedHasCause, Failed
<1> QED
  BY <1>3, <1>4, <1>5, <1>6, <1>7 DEF IInv

LEMMA StaticFailsKeeps ==
  ASSUME IInv, pc \in {"fetch", "read"}, NEW code, StaticFails(code), Cause(code), Grows,
         (robots /\ NothingRefused') \/ Blocks(code), UNCHANGED <<Config, refused, found>>
  PROVE  IInv'
<1>1. Accepted("start", target) /\ purpose = "none"
  BY DEF IInv, PathInv
<1>2. CASE mode = "auto" /\ ~Blocks(code)
  <2>1. Accepted("start", target)'
    BY <1>1, AcceptedStays DEF Accepted, Config
  <2> QED
    BY <1>2, <2>1, OpenKeeps DEF StaticFails
<1>3. CASE ~(mode = "auto" /\ ~Blocks(code))
  BY <1>1, <1>3, ThrowKeeps DEF StaticFails
<1> QED
  BY <1>2, <1>3

LEMMA ReturnKeeps ==
  ASSUME IInv, pc \in {"open", "load", "render"}, NEW renderer, NEW result, NEW shot, NEW extra,
         Return(renderer, result, shot, extra), robots, Grows,
         IF purpose = "screenshot"
           THEN renderer = "cheerio" /\ result.output = found.output /\ result.finalUrl = found.finalUrl
           ELSE /\ renderer = "playwright" /\ hops <= MaxRedirects
                /\ \E c \in checks' : c.stage = "render" /\ c.url = result.finalUrl /\ c.verdict = "OK"
                /\ \A i \in DOMAIN refused : refused[i].url \notin {target, result.finalUrl},
         UNCHANGED <<Config, refused, found>>
  PROVE  IInv'
<1> USE DEF Config
<1>1. /\ outcome' = [kind |-> "result", renderer |-> renderer, output |-> result.output,
                     warnings |-> result.warnings + extra, screenshot |-> shot, finalUrl |-> result.finalUrl]
      /\ pc' = "compare"
      /\ UNCHANGED <<mode, target, page, robots, at, hops, purpose, browserRuns, refused, found>>
  BY DEF Return
<1>2. /\ outcome'.kind = "result" /\ outcome'.renderer = renderer /\ outcome'.output = result.output
      /\ outcome'.finalUrl = result.finalUrl
  BY <1>1
<1>0. /\ Accepted("start", target) /\ NothingRefused /\ browserRuns = 1
      /\ purpose = "screenshot" => Accepted("read", found.finalUrl)
  BY DEF IInv, PathInv
<1>a. NothingRefused' /\ Accepted("start", target)'
  BY <1>0, <1>1, RefusalStays, AcceptedStays DEF Accepted
<1>b. purpose = "screenshot" => Accepted("read", found.finalUrl)'
  BY <1>0, <1>1, AcceptedStays DEF Accepted
<1>3. Typed'
  BY <1>1 DEF IInv, Typed
<1>4. PathInv'
  BY <1>1, <1>a, <1>b DEF IInv, PathInv
<1>5. OutcomeInv'
  BY <1>1, <1>2 DEF IInv, OutcomeInv
<1>6. OneBrowserPerCall'
  BY <1>0, <1>1, <1>a DEF IInv, OneBrowserPerCall, NothingRefused
<1>7. ResultIsWithinPolicy'
  <2>1. CASE purpose = "screenshot"
    <3>1. outcome'.renderer = "cheerio" /\ outcome'.finalUrl = found'.finalUrl
      BY <1>1, <1>2, <2>1
    <3>2. Accepted("read", outcome.finalUrl)'
      BY <1>b, <2>1, <3>1 DEF Accepted
    <3> QED
      BY <1>1, <1>a, <3>1, <3>2 DEF ResultIsWithinPolicy
  <2>2. CASE purpose # "screenshot"
    <3>1. Accepted("render", outcome.finalUrl)'
      BY <1>2, <2>2 DEF Accepted
    <3> QED
      BY <1>1, <1>2, <1>a, <2>2, <3>1 DEF ResultIsWithinPolicy
  <2> QED
    BY <2>1, <2>2
<1>8. BlockedHasCause'
  BY <1>2 DEF BlockedHasCause, Failed
<1> QED
  BY <1>3, <1>4, <1>5, <1>6, <1>7, <1>8 DEF IInv

(* The browser fails with a refusal of the page or for a reason of its own. *)
LEMMA BrowserFailsKeeps ==
  ASSUME IInv, pc \in {"open", "load", "render"}, NEW code, BrowserFails(code), Cause(code), Grows,
         UNCHANGED <<Config, refused, found>>
  PROVE  IInv'
<1>1. CASE purpose = "screenshot"
  <2>1. Return("cheerio", found, FALSE, 1) /\ robots
    BY <1>1 DEF BrowserFails, IInv, PathInv
  <2> QED
    BY <1>1, <2>1, ReturnKeeps
<1>2. CASE purpose # "screenshot"
  <2> DEFINE thrown == IF refused # <<>> /\ code \notin {"ROBOTS_DISALLOWED", "NAVIGATION_TIMEOUT"}
                         THEN refused[1].code ELSE code
  <2>1. Throw(thrown)
    BY <1>2 DEF BrowserFails
  <2>2. refused # <<>> => 1 \in DOMAIN refused
    BY DEF IInv, Typed
  <2>3. refused # <<>> => Cause(refused[1].code)
    BY <2>2 DEF Cause
  <2>4. Cause(thrown)
    BY <2>3
  <2> HIDE DEF thrown
  <2> QED
    BY <1>2, <2>1, <2>4, ThrowKeeps
<1> QED
  BY <1>1, <1>2

LEMMA StartKeeps == ASSUME IInv, Start PROVE IInv'
<1> USE DEF Config
<1>1. PICK v \in Verdicts(target) :
        /\ Checked(v)
        /\ CASE v # "OK" -> Throw(v)
             [] v = "OK" /\ mode = "browser" -> OpenBrowser("extract")
             [] OTHER -> pc' = "fetch" /\ UNCHANGED <<at, hops, purpose, browserRuns, outcome>>
  BY DEF Start
<1>2. /\ pc = "start" /\ purpose = "none" /\ UNCHANGED <<mode, target, page, robots, refused, found>>
      /\ pc \notin {"compare", "done"} /\ NothingRefused /\ at = target
  BY DEF Start, IInv, PathInv
<1>a. /\ Grows /\ (Blocks(v) => \E c \in checks' : c.verdict = v)
      /\ v = "OK" => NothingRefused' /\ Accepted("start", target)'
  BY <1>1, <1>2, CheckedIs DEF Accepted
<1>3. CASE v # "OK"
  <2>1. Throw(v) /\ Cause(v)
    BY <1>1, <1>3, <1>a DEF Cause
  <2> QED
    BY <1>2, <1>a, <2>1, ThrowKeeps
<1>4. CASE v = "OK" /\ mode = "browser"
  <2>1. OpenBrowser("extract")
    BY <1>1, <1>4
  <2> QED
    BY <1>2, <1>4, <1>a, <2>1, OpenKeeps
<1>5. CASE v = "OK" /\ mode # "browser"
  <2>1. pc' = "fetch" /\ UNCHANGED <<at, hops, purpose, browserRuns, outcome>>
    BY <1>1, <1>5
  <2>2. Typed'
    BY <1>2, <2>1 DEF IInv, Typed
  <2>3. PathInv'
    BY <1>2, <1>5, <1>a, <2>1 DEF IInv, PathInv
  <2>4. OutcomeInv' /\ ResultIsWithinPolicy' /\ BlockedHasCause'
    BY <1>2, <2>1 DEF IInv, OutcomeInv, ResultIsWithinPolicy, BlockedHasCause, Failed
  <2>5. OneBrowserPerCall'
    BY <1>2, <2>1 DEF IInv, PathInv, OneBrowserPerCall
  <2> QED
    BY <2>2, <2>3, <2>4, <2>5 DEF IInv
<1> QED
  BY <1>3, <1>4, <1>5

LEMMA FetchKeeps == ASSUME IInv, Fetch PROVE IInv'
<1> USE DEF Config
<1>1. /\ pc = "fetch" /\ purpose = "none" /\ UNCHANGED <<mode, target, page, robots, refused, found>>
      /\ outcome.kind = "pending" /\ NothingRefused /\ Accepted("start", target) /\ browserRuns = 0
  BY DEF Fetch, IInv, PathInv, OutcomeInv
<1>2. CASE ~robots /\ StaticFails("ROBOTS_DISALLOWED") /\ UNCHANGED checks
  <2>1. Cause("ROBOTS_DISALLOWED") /\ Blocks("ROBOTS_DISALLOWED") /\ Grows
    BY <1>2 DEF Cause, Blocks, PolicyCodes, Grows
  <2> QED
    BY <1>1, <1>2, <2>1, StaticFailsKeeps
<1>3. ASSUME NEW v \in Verdicts(at), robots, Checked(v), v # "OK", StaticFails(v) PROVE IInv'
  <2>1. Cause(v) /\ Grows /\ Blocks(v)
    BY <1>3, CheckedIs, RefusalBlocks DEF Cause
  <2> QED
    BY <1>1, <1>3, <2>1, StaticFailsKeeps
<1>4. CASE robots /\ Checked("OK") /\ StaticFails("EXTRACTION_FAILED")
  <2>1. Cause("EXTRACTION_FAILED")
    BY DEF Cause, Blocks, PolicyCodes
  <2>2. Grows /\ NothingRefused'
    BY <1>1, <1>4, CheckedIs
  <2> QED
    BY <1>1, <1>4, <2>1, <2>2, StaticFailsKeeps
<1>5. CASE /\ robots /\ Checked("OK")
           /\ \/ hops < MaxRedirects /\ at' \in Urls /\ hops' = hops + 1 /\ UNCHANGED pc
              \/ pc' = "read" /\ UNCHANGED <<at, hops>>
           /\ UNCHANGED <<purpose, browserRuns, outcome>>
  <2>0. Grows /\ NothingRefused'
    BY <1>1, <1>5, CheckedIs
  <2>a. Accepted("start", target)'
    BY <1>1, <2>0, AcceptedStays DEF Accepted
  <2>1. at' \in Urls /\ hops' \in Nat /\ pc' \in {"fetch", "read"} /\ (pc' = "read" => at' = at)
    BY <1>1, <1>5 DEF IInv, Typed
  <2>2. Typed'
    BY <1>1, <1>5, <2>1 DEF IInv, Typed
  <2>3. PathInv'
    BY <1>1, <1>5, <2>0, <2>1, <2>a DEF IInv, PathInv
  <2>4. OutcomeInv' /\ ResultIsWithinPolicy' /\ BlockedHasCause'
    BY <1>1, <1>5, <2>1 DEF IInv, OutcomeInv, ResultIsWithinPolicy, BlockedHasCause, Failed
  <2>5. OneBrowserPerCall'
    BY <1>1, <1>5 DEF IInv, OneBrowserPerCall
  <2> QED
    BY <2>2, <2>3, <2>4, <2>5 DEF IInv
<1> QED
  BY <1>2, <1>3, <1>4, <1>5 DEF Fetch

LEMMA ReadKeeps == ASSUME IInv, Read PROVE IInv'
<1> USE DEF Config
<1>1. /\ pc = "read" /\ UNCHANGED <<mode, target, page, robots, refused>>
      /\ robots /\ NothingRefused /\ Accepted("start", target)
  BY DEF Read, IInv, PathInv
<1>2. ASSUME NEW v \in Verdicts(at), Checked(v), v # "OK", StaticFails(v), UNCHANGED found PROVE IInv'
  <2>1. Cause(v) /\ Grows /\ Blocks(v)
    BY <1>2, CheckedIs, RefusalBlocks DEF Cause
  <2> QED
    BY <1>1, <1>2, <2>1, StaticFailsKeeps
<1>3. ASSUME NEW code \in {"RESPONSE_TOO_LARGE", "SELECTOR_INVALID"}, Checked("OK"), StaticFails(code),
             UNCHANGED found
      PROVE  IInv'
  <2>1. Cause(code)
    BY <1>3 DEF Cause, Blocks, PolicyCodes
  <2>2. Grows /\ NothingRefused'
    BY <1>1, <1>3, CheckedIs
  <2> QED
    BY <1>1, <1>3, <2>1, <2>2, StaticFailsKeeps
<1>4. CASE /\ Checked("OK") /\ found' = Extract(FALSE)
           /\ OpenBrowser(IF mode = "static" \/ HasUsefulData(found'.output) THEN "screenshot" ELSE "extract")
  <2> DEFINE why == IF mode = "static" \/ HasUsefulData(found'.output) THEN "screenshot" ELSE "extract"
  <2>1. why \in {"extract", "screenshot"} /\ OpenBrowser(why)
    BY <1>4
  <2> HIDE DEF why
  <2>2. Grows /\ NothingRefused' /\ \E c \in checks' : c.stage = "read" /\ c.url = at /\ c.verdict = "OK"
    BY <1>1, <1>4, CheckedIs
  <2>3. Accepted("start", target)'
    BY <1>1, <2>2, AcceptedStays DEF Accepted
  <2>4. found'.finalUrl = at
    BY <1>4 DEF Extract
  <2>5. Accepted("read", found.finalUrl)'
    BY <2>2, <2>4 DEF Accepted
  <2> QED
    BY <1>1, <2>1, <2>2, <2>3, <2>5, OpenKeeps
<1> QED
  BY <1>2, <1>3, <1>4 DEF Read

LEMMA OpenStepKeeps == ASSUME IInv, Open PROVE IInv'
<1> USE DEF Config
<1>1. /\ pc = "open" /\ UNCHANGED <<mode, target, page, robots, refused, found>>
      /\ Accepted("start", target) /\ NothingRefused
  BY DEF Open, IInv, PathInv
<1>2. CASE ~robots /\ BrowserFails("ROBOTS_DISALLOWED") /\ UNCHANGED checks
  <2>1. Cause("ROBOTS_DISALLOWED") /\ Grows
    BY <1>2 DEF Cause, Grows
  <2> QED
    BY <1>1, <1>2, <2>1, BrowserFailsKeeps
<1>3. ASSUME NEW v \in Verdicts(target), Checked(v), BrowserFails(v) PROVE IInv'
  <2>1. Cause(v) /\ Grows
    BY <1>3, CheckedIs DEF Cause
  <2> QED
    BY <1>1, <1>3, <2>1, BrowserFailsKeeps
<1>4. CASE /\ robots /\ Checked("OK") /\ pc' = "load"
           /\ UNCHANGED <<at, hops, purpose, browserRuns, outcome>>
  <2>0. Grows
    BY <1>4, CheckedIs
  <2>1. Typed'
    BY <1>1, <1>4 DEF IInv, Typed
  <2>2. PathInv'
    BY <1>1, <1>4, <2>0, PathStays
  <2>3. OutcomeInv' /\ ResultIsWithinPolicy' /\ BlockedHasCause'
    BY <1>1, <1>4 DEF IInv, OutcomeInv, ResultIsWithinPolicy, BlockedHasCause, Failed
  <2>4. OneBrowserPerCall'
    BY <1>1, <1>4, <2>0, RefusalStays DEF IInv, OneBrowserPerCall, NothingRefused
  <2> QED
    BY <2>1, <2>2, <2>3, <2>4 DEF IInv
<1> QED
  BY <1>2, <1>3, <1>4 DEF Open

LEMMA LoadKeeps == ASSUME IInv, Load PROVE IInv'
<1> USE DEF Config
<1>1. pc = "load" /\ UNCHANGED <<mode, target, page, robots, checks, found>> /\ Grows /\ robots
  BY DEF Load, Grows, IInv, PathInv
<1>2. ASSUME pc' \in {"load", "render"}, at' \in Urls, hops' \in Nat, refused' \in Seq(Refusals),
             \A i \in DOMAIN refused' : refused'[i].code # "OK",
             UNCHANGED <<purpose, browserRuns, outcome>>
      PROVE  IInv'
  <2>1. Typed'
    BY <1>1, <1>2 DEF IInv, Typed
  <2>2. PathInv'
    BY <1>1, <1>2, PathStays
  <2>3. OutcomeInv' /\ ResultIsWithinPolicy' /\ BlockedHasCause'
    BY <1>1, <1>2 DEF IInv, OutcomeInv, ResultIsWithinPolicy, BlockedHasCause, Failed
  <2>4. OneBrowserPerCall'
    BY <1>1, <1>2 DEF IInv, OneBrowserPerCall
  <2> QED
    BY <2>1, <2>2, <2>3, <2>4 DEF IInv
<1>3. CASE /\ hops <= MaxRedirects /\ at' \in Urls /\ hops' = hops + 1
           /\ UNCHANGED <<pc, purpose, browserRuns, outcome, refused>>
  BY <1>1, <1>2, <1>3 DEF IInv, Typed
<1>4. CASE /\ \E u \in Urls : \E v \in Verdicts(u) \ {"OK"} : refused' = Append(refused, [url |-> u, code |-> v])
           /\ UNCHANGED <<pc, at, hops, purpose, browserRuns, outcome>>
  <2>0. PICK u \in Urls : \E v \in Verdicts(u) \ {"OK"} : refused' = Append(refused, [url |-> u, code |-> v])
    BY <1>4
  <2>1. PICK v \in Verdicts(u) \ {"OK"} : refused' = Append(refused, [url |-> u, code |-> v])
    BY <2>0
  <2> DEFINE new == [url |-> u, code |-> v]
  <2>2. new \in Refusals /\ new.code # "OK"
    BY DEF Refusals, Codes
  <2> HIDE DEF new
  <2>3. refused \in Seq(Refusals) /\ refused' = Append(refused, new)
    BY <2>1 DEF IInv, Typed, new
  <2>4. refused' \in Seq(Refusals)
    BY <2>2, <2>3
  <2>5. \A i \in DOMAIN refused' : refused'[i].code # "OK"
    BY <2>2, <2>3 DEF IInv, Typed
  <2> QED
    BY <1>1, <1>2, <1>4, <2>4, <2>5 DEF IInv, Typed
<1>5. ASSUME NEW code \in {"EXTRACTION_FAILED", "NAVIGATION_TIMEOUT"}, BrowserFails(code), UNCHANGED refused
      PROVE  IInv'
  <2>1. Cause(code)
    BY DEF Cause, Blocks, PolicyCodes
  <2> QED
    BY <1>1, <1>5, <2>1, BrowserFailsKeeps
<1>6. CASE pc' = "render" /\ UNCHANGED <<at, hops, purpose, browserRuns, outcome, refused>>
  BY <1>1, <1>2, <1>6 DEF IInv, Typed
<1> QED
  BY <1>3, <1>4, <1>5, <1>6 DEF Load

(* What is held against a page has a cause, and holds if nothing is.        *)
LEMMA PageVerdictIs ==
  ASSUME Typed, NEW v \in Verdicts(at), Checked(v)
  PROVE  /\ Cause(PageVerdict(v))
         /\ PageVerdict(v) = "OK" => /\ v = "OK" /\ hops <= MaxRedirects
                                     /\ \A i \in DOMAIN refused : refused[i].url \notin {target, at}
<1> DEFINE own == {i \in DOMAIN refused : refused[i].url \in {at, target}}
<1>0. DOMAIN refused \subseteq Nat /\ hops \in Nat /\ MaxRedirects \in Nat
  BY RendererConstants DEF Typed
<1>1. PageVerdict(v) = CASE v # "OK" -> v
                         [] v = "OK" /\ hops > MaxRedirects -> "REDIRECT_BLOCKED"
                         [] v = "OK" /\ hops <= MaxRedirects /\ own # {} -> refused[Min(own)].code
                         [] OTHER -> "OK"
  BY DEF PageVerdict
<1>2. own # {} => Min(own) \in own
  BY <1>0, MinIsMember
<1>3. own # {} => Cause(refused[Min(own)].code) /\ refused[Min(own)].code # "OK"
  BY <1>2 DEF Cause, Typed
<1>4. Cause(v) /\ Cause("OK")
  BY CheckedIs DEF Cause, Blocks, PolicyCodes
<1>5. hops > MaxRedirects => Cause("REDIRECT_BLOCKED")
  BY DEF Cause
<1>6. own = {} => \A i \in DOMAIN refused : refused[i].url \notin {target, at}
  OBVIOUS
<1> HIDE DEF own
<1> QED
  BY <1>0, <1>1, <1>3, <1>4, <1>5, <1>6

LEMMA RenderKeeps == ASSUME IInv, Render PROVE IInv'
<1> USE DEF Config
<1>1. pc = "render" /\ UNCHANGED <<mode, target, page, robots, refused, found>> /\ Typed /\ robots
  BY DEF Render, IInv, PathInv
<1>2. PICK v \in Verdicts(at) :
        /\ Checked(v)
        /\ \/ PageVerdict(v) # "OK" /\ BrowserFails(PageVerdict(v))
           \/ v = "OK" /\ hops <= MaxRedirects /\ BrowserFails("RESPONSE_TOO_LARGE")
           \/ PageVerdict(v) = "OK" /\ purpose = "extract" /\ BrowserFails("SELECTOR_INVALID")
           \/ \E shot \in BOOLEAN :
                /\ PageVerdict(v) = "OK"
                /\ IF purpose = "extract" THEN Return("playwright", Extract(TRUE), shot, IF shot THEN 0 ELSE 1)
                                          ELSE Return("cheerio", found, shot, 0)
  BY DEF Render
<1>a. Grows /\ \E c \in checks' : c.stage = "render" /\ c.url = at /\ c.verdict = v
  BY <1>1, <1>2, CheckedIs
<1>3. CASE BrowserFails(PageVerdict(v))
  BY <1>1, <1>2, <1>3, <1>a, PageVerdictIs, BrowserFailsKeeps
<1>4. CASE BrowserFails("RESPONSE_TOO_LARGE")
  <2>1. Cause("RESPONSE_TOO_LARGE")
    BY DEF Cause, Blocks, PolicyCodes
  <2> QED
    BY <1>1, <1>4, <1>a, <2>1, BrowserFailsKeeps
<1>5. CASE BrowserFails("SELECTOR_INVALID")
  <2>1. Cause("SELECTOR_INVALID")
    BY DEF Cause, Blocks, PolicyCodes
  <2> QED
    BY <1>1, <1>5, <1>a, <2>1, BrowserFailsKeeps
<1>6. ASSUME NEW shot \in BOOLEAN, PageVerdict(v) = "OK",
             IF purpose = "extract" THEN Return("playwright", Extract(TRUE), shot, IF shot THEN 0 ELSE 1)
                                    ELSE Return("cheerio", found, shot, 0)
      PROVE  IInv'
  <2>1. /\ v = "OK" /\ hops <= MaxRedirects
        /\ \A i \in DOMAIN refused : refused[i].url \notin {target, at}
    BY <1>1, <1>2, <1>6, PageVerdictIs
  <2>2. CASE purpose = "extract"
    <3>1. Return("playwright", Extract(TRUE), shot, IF shot THEN 0 ELSE 1)
      BY <1>6, <2>2
    <3>2. Extract(TRUE).finalUrl = at
      BY DEF Extract
    <3> QED
      BY <1>1, <1>a, <2>1, <2>2, <3>1, <3>2, ReturnKeeps
  <2>3. CASE purpose # "extract"
    <3>1. Return("cheerio", found, shot, 0)
      BY <1>6, <2>3
    <3>2. purpose = "screenshot"
      BY <1>1, <2>3 DEF IInv, PathInv, Typed
    <3> QED
      BY <1>1, <1>a, <3>1, <3>2, ReturnKeeps
  <2> QED
    BY <2>2, <2>3
<1> QED
  BY <1>2, <1>3, <1>4, <1>5, <1>6

LEMMA CompareKeeps == ASSUME IInv, CompareOutputs PROVE IInv'
<1> USE DEF Config
<1>1. PICK previous \in Previous :
        outcome' = [kind |-> "compared", renderer |-> outcome.renderer, output |-> outcome.output,
                    warnings |-> outcome.warnings, finalUrl |-> outcome.finalUrl, previous |-> previous,
                    sameHash |-> Canonicalize(previous) = Canonicalize(outcome.output),
                    changes |-> BuildChangeSet(previous, outcome.output)]
  BY DEF CompareOutputs
<1>2. /\ outcome'.kind = "compared" /\ outcome'.renderer = outcome.renderer
      /\ outcome'.output = outcome.output /\ outcome'.finalUrl = outcome.finalUrl
  BY <1>1
<1>3. /\ pc = "compare" /\ pc' = "done" /\ outcome.kind = "result"
      /\ UNCHANGED <<mode, target, page, robots, at, hops, purpose, refused, browserRuns, checks, found>>
  BY DEF CompareOutputs, IInv, OutcomeInv
<1>4. Typed'
  BY <1>3 DEF IInv, Typed
<1>5. PathInv'
  BY <1>3 DEF IInv, PathInv, NothingRefused, Accepted
<1>6. OutcomeInv'
  BY <1>2, <1>3 DEF IInv, OutcomeInv
<1>7. OneBrowserPerCall'
  BY <1>3 DEF IInv, OneBrowserPerCall
<1>8. ResultIsWithinPolicy'
  BY <1>2, <1>3 DEF IInv, ResultIsWithinPolicy, Accepted
<1>9. BlockedHasCause'
  BY <1>2 DEF BlockedHasCause, Failed
<1> QED
  BY <1>4, <1>5, <1>6, <1>7, <1>8, <1>9 DEF IInv

-----------------------------------------------------------------------------
LEMMA Initially == ASSUME Init PROVE IInv
<1> USE DEF Init
<1>1. outcome.kind = "pending"
  BY DEF Pending
<1>2. Typed
  BY DEF Typed
<1>3. PathInv /\ OutcomeInv /\ OneBrowserPerCall
  BY <1>1 DEF PathInv, OutcomeInv, OneBrowserPerCall, NothingRefused
<1>4. ResultIsWithinPolicy /\ BlockedHasCause
  BY <1>1 DEF ResultIsWithinPolicy, BlockedHasCause, Failed
<1> QED
  BY <1>2, <1>3, <1>4 DEF IInv

LEMMA Stutter == ASSUME IInv, UNCHANGED vars PROVE IInv'
<1> USE DEF IInv, vars
<1>1. Typed' /\ PathInv'
  BY DEF Typed, PathInv, NothingRefused, Accepted
<1>2. OutcomeInv' /\ OneBrowserPerCall' /\ ResultIsWithinPolicy'
  BY DEF OutcomeInv, OneBrowserPerCall, ResultIsWithinPolicy, Accepted
<1>3. BlockedHasCause'
  BY DEF BlockedHasCause, Failed
<1> QED
  BY <1>1, <1>2, <1>3

LEMMA Inductive == ASSUME IInv, [Next]_vars PROVE IInv'
BY StartKeeps, FetchKeeps, ReadKeeps, OpenStepKeeps, LoadKeeps, RenderKeeps, CompareKeeps, Stutter DEF Next

LEMMA Invariant == Spec => []IInv
BY Initially, Inductive, PTL DEF Spec

(* However the static attempt ends, a browser is started once at most, and  *)
(* none after the policy or robots.txt refused the target or a redirect.    *)
THEOREM BrowserStartsOnce == Spec => []OneBrowserPerCall
<1>1. IInv => OneBrowserPerCall
  BY DEF IInv
<1> QED
  BY <1>1, Invariant, PTL

(* Whatever the resolver answers from one check to the next, a result comes *)
(* from a page whose URL was accepted after the redirects had led to it.    *)
THEOREM ResultsAreAllowed == Spec => []ResultIsWithinPolicy
<1>1. IInv => ResultIsWithinPolicy
  BY DEF IInv
<1> QED
  BY <1>1, Invariant, PTL

(* A browser that is only to take the screenshot cannot lose the result.    *)
THEOREM StaticResultIsKept == Spec => []StaticResultSurvives
<1>1. IInv => StaticResultSurvives
  BY DEF IInv, OutcomeInv, StaticResultSurvives, Compared
<1> QED
  BY <1>1, Invariant, PTL

(* The verdict that ends a job for good is the policy's on a URL of this    *)
(* call, robots.txt, or the limit of redirects.                             *)
THEOREM BlocksAreCaused == Spec => []BlockedHasCause
<1>1. IInv => BlockedHasCause
  BY DEF IInv
<1> QED
  BY <1>1, Invariant, PTL

-----------------------------------------------------------------------------
(* The change set.  An image of a finite set is finite. *)
LEMMA ImageIsFinite ==
  ASSUME NEW F, IsFiniteSet(F), NEW g, NEW S, g \in [F -> S], S = {g[f] : f \in F}
  PROVE  IsFiniteSet(S)
<1>1. g \in Surjection(F, S)
  BY DEF Surjection
<1> QED
  BY <1>1, FS_Surjection

LEMMA KeysAreFinite == ASSUME NEW o, IsOutput(o) PROVE IsFiniteSet(KeysOf(o))
<1> DEFINE g == [i \in DOMAIN o |-> o[i].field]
<1>1. IsFiniteSet(DOMAIN o)
  BY FS_Interval DEF IsOutput
<1>2. g \in [DOMAIN o -> KeysOf(o)] /\ KeysOf(o) = {g[i] : i \in DOMAIN o}
  BY DEF KeysOf
<1> HIDE DEF g
<1> QED
  BY <1>1, <1>2, ImageIsFinite

(* The three kinds of entries, one for each field that differs. *)
FieldsAdded(b, c) == KeysOf(c) \ KeysOf(b)
FieldsRemoved(b, c) == KeysOf(b) \ KeysOf(c)
FieldsChanged(b, c) == {f \in KeysOf(b) \cap KeysOf(c) : Differs(b, c, f)}
Added(b, c) == {[field |-> f, kind |-> "added", after |-> Get(c, f)] : f \in FieldsAdded(b, c)}
Removed(b, c) == {[field |-> f, kind |-> "removed", before |-> Get(b, f)] : f \in FieldsRemoved(b, c)}
Changed(b, c) == {[field |-> f, kind |-> "changed", before |-> Get(b, f), after |-> Get(c, f)] :
                    f \in FieldsChanged(b, c)}

(* S has one entry for each field of F, all of a kind. *)
EntriesFor(S, F, kind) ==
  /\ \A e \in S : e.field \in F /\ e.kind = kind
  /\ \A f \in F : \E e \in S : e.field = f
  /\ \A d, e \in S : d.field = e.field => d = e
  /\ IsFiniteSet(S)

LEMMA EntriesOfAKind ==
  ASSUME NEW F, IsFiniteSet(F), NEW g, NEW S, g \in [F -> S], S = {g[f] : f \in F}, NEW kind,
         \A f \in F : g[f].field = f /\ g[f].kind = kind
  PROVE  EntriesFor(S, F, kind)
<1>1. IsFiniteSet(S)
  BY ImageIsFinite
<1>2. \A e \in S : e.field \in F /\ e.kind = kind
  OBVIOUS
<1>3. \A f \in F : \E e \in S : e.field = f
  OBVIOUS
<1>4. ASSUME NEW d \in S, NEW e \in S, d.field = e.field PROVE d = e
  <2>1. PICK f \in F : d = g[f]
    OBVIOUS
  <2>2. PICK h \in F : e = g[h]
    OBVIOUS
  <2> QED
    BY <1>4, <2>1, <2>2
<1> QED
  BY <1>1, <1>2, <1>3, <1>4 DEF EntriesFor

LEMMA EntriesAre ==
  ASSUME NEW b, NEW c, IsOutput(b), IsOutput(c)
  PROVE  /\ EntriesFor(Added(b, c), FieldsAdded(b, c), "added")
         /\ EntriesFor(Removed(b, c), FieldsRemoved(b, c), "removed")
         /\ EntriesFor(Changed(b, c), FieldsChanged(b, c), "changed")
         /\ \A e \in Added(b, c) \cup Changed(b, c) : e.after = Get(c, e.field)
<1>1. /\ IsFiniteSet(FieldsAdded(b, c)) /\ IsFiniteSet(FieldsRemoved(b, c))
      /\ IsFiniteSet(FieldsChanged(b, c))
  BY KeysAreFinite, FS_Subset DEF FieldsAdded, FieldsRemoved, FieldsChanged
<1>2. EntriesFor(Added(b, c), FieldsAdded(b, c), "added")
  <2> DEFINE F == FieldsAdded(b, c)
             g == [f \in F |-> [field |-> f, kind |-> "added", after |-> Get(c, f)]]
             S == Added(b, c)
  <2>1. g \in [F -> S] /\ S = {g[f] : f \in F}
    BY DEF Added
  <2>2. \A f \in F : g[f].field = f /\ g[f].kind = "added"
    OBVIOUS
  <2>3. IsFiniteSet(F)
    BY <1>1
  <2> HIDE DEF g, F, S
  <2>4. EntriesFor(S, F, "added")
    BY <2>1, <2>2, <2>3, EntriesOfAKind
  <2> QED
    BY <2>4 DEF F, S
<1>3. EntriesFor(Removed(b, c), FieldsRemoved(b, c), "removed")
  <2> DEFINE F == FieldsRemoved(b, c)
             g == [f \in F |-> [field |-> f, kind |-> "removed", before |-> Get(b, f)]]
             S == Removed(b, c)
  <2>1. g \in [F -> S] /\ S = {g[f] : f \in F}
    BY DEF Removed
  <2>2. \A f \in F : g[f].field = f /\ g[f].kind = "removed"
    OBVIOUS
  <2>3. IsFiniteSet(F)
    BY <1>1
  <2> HIDE DEF g, F, S
  <2>4. EntriesFor(S, F, "removed")
    BY <2>1, <2>2, <2>3, EntriesOfAKind
  <2> QED
    BY <2>4 DEF F, S
<1>4. EntriesFor(Changed(b, c), FieldsChanged(b, c), "changed")
  <2> DEFINE F == FieldsChanged(b, c)
             g == [f \in F |-> [field |-> f, kind |-> "changed", before |-> Get(b, f), after |-> Get(c, f)]]
             S == Changed(b, c)
  <2>1. g \in [F -> S] /\ S = {g[f] : f \in F}
    BY DEF Changed
  <2>2. \A f \in F : g[f].field = f /\ g[f].kind = "changed"
    OBVIOUS
  <2>3. IsFiniteSet(F)
    BY <1>1
  <2> HIDE DEF g, F, S
  <2>4. EntriesFor(S, F, "changed")
    BY <2>1, <2>2, <2>3, EntriesOfAKind
  <2> QED
    BY <2>4 DEF F, S
<1>5. ASSUME NEW e \in Added(b, c) \cup Changed(b, c) PROVE e.after = Get(c, e.field)
  <2>1. CASE e \in Added(b, c)
    <3>1. PICK f \in FieldsAdded(b, c) : e = [field |-> f, kind |-> "added", after |-> Get(c, f)]
      BY <2>1 DEF Added
    <3> QED
      BY <3>1
  <2>2. CASE e \in Changed(b, c)
    <3>1. PICK f \in FieldsChanged(b, c) :
            e = [field |-> f, kind |-> "changed", before |-> Get(b, f), after |-> Get(c, f)]
      BY <2>2 DEF Changed
    <3> QED
      BY <3>1
  <2> QED
    BY <1>5, <2>1, <2>2
<1> QED
  BY <1>2, <1>3, <1>4, <1>5

LEMMA BuildChangeSetIs ==
  ASSUME NEW b, NEW c
  PROVE  LET cs == BuildChangeSet(b, c)
         IN /\ cs.entries = Added(b, c) \cup Removed(b, c) \cup Changed(b, c)
            /\ cs.hasChanges = (cs.entries # {}) /\ cs.changeCount = Cardinality(cs.entries)
            /\ cs.added = Cardinality(Added(b, c)) /\ cs.removed = Cardinality(Removed(b, c))
            /\ cs.changed = Cardinality(Changed(b, c))
BY DEF BuildChangeSet, Added, Removed, Changed, FieldsAdded, FieldsRemoved, FieldsChanged

(* The entries turn the previous output into the current one.               *)
LEMMA AppliedIsCurrent ==
  ASSUME NEW b, NEW c, IsOutput(b), IsOutput(c)
  PROVE  Applied(b, BuildChangeSet(b, c)) = Canonicalize(c)
<1> DEFINE cs == BuildChangeSet(b, c)
           gone == {e.field : e \in {d \in cs.entries : d.kind = "removed"}}
           new  == {d \in cs.entries : d.kind # "removed"}
           keys == (KeysOf(b) \ gone) \cup {d.field : d \in new}
           value(f) == IF \E d \in new : d.field = f THEN (CHOOSE d \in new : d.field = f).after ELSE Get(b, f)
<1>1. Applied(b, cs) = [f \in keys |-> value(f)]
  BY DEF Applied
<1>2. cs.entries = Added(b, c) \cup Removed(b, c) \cup Changed(b, c)
  BY BuildChangeSetIs
<1> HIDE DEF cs
<1>3. new = Added(b, c) \cup Changed(b, c)
  BY <1>2, EntriesAre DEF EntriesFor
<1>4. {d \in cs.entries : d.kind = "removed"} = Removed(b, c)
  BY <1>2, EntriesAre DEF EntriesFor
<1>5. gone = FieldsRemoved(b, c)
  BY <1>4, EntriesAre DEF EntriesFor
<1>6. {d.field : d \in new} = FieldsAdded(b, c) \cup FieldsChanged(b, c)
  BY <1>3, EntriesAre DEF EntriesFor
<1>7. keys = KeysOf(c)
  BY <1>5, <1>6 DEF FieldsAdded, FieldsRemoved, FieldsChanged
<1>8. ASSUME NEW f \in KeysOf(c) PROVE value(f) = Get(c, f)
  <2>1. CASE \E d \in new : d.field = f
    <3>1. (CHOOSE d \in new : d.field = f) \in new /\ (CHOOSE d \in new : d.field = f).field = f
      BY <2>1
    <3> QED
      BY <1>3, <2>1, <3>1, EntriesAre
  <2>2. CASE ~\E d \in new : d.field = f
    <3>1. f \notin FieldsAdded(b, c) \cup FieldsChanged(b, c)
      BY <1>6, <2>2
    <3>2. Get(b, f) = Get(c, f)
      BY <3>1 DEF FieldsAdded, FieldsChanged, Differs
    <3> QED
      BY <2>2, <3>2
  <2> QED
    BY <2>1, <2>2
<1> HIDE DEF keys, value
<1>9. [f \in keys |-> value(f)] = [f \in KeysOf(c) |-> Get(c, f)]
  BY <1>7, <1>8
<1> QED
  BY <1>1, <1>9 DEF Canonicalize, cs

(* There are changes when the canonical forms differ, hence the hashes.     *)
LEMMA ChangesMeanDifference ==
  ASSUME NEW b, NEW c, IsOutput(b), IsOutput(c)
  PROVE  BuildChangeSet(b, c).hasChanges = ~(Canonicalize(b) = Canonicalize(c))
<1>1. BuildChangeSet(b, c).hasChanges = (Added(b, c) \cup Removed(b, c) \cup Changed(b, c) # {})
  BY BuildChangeSetIs
<1>2. Added(b, c) \cup Removed(b, c) \cup Changed(b, c) # {}
        <=> FieldsAdded(b, c) \cup FieldsRemoved(b, c) \cup FieldsChanged(b, c) # {}
  BY EntriesAre DEF EntriesFor
<1>3. CASE FieldsAdded(b, c) \cup FieldsRemoved(b, c) \cup FieldsChanged(b, c) = {}
  <2>1. KeysOf(b) = KeysOf(c) /\ \A f \in KeysOf(c) : Get(b, f) = Get(c, f)
    BY <1>3 DEF FieldsAdded, FieldsRemoved, FieldsChanged, Differs
  <2>2. Canonicalize(b) = Canonicalize(c)
    BY <2>1 DEF Canonicalize
  <2> QED
    BY <1>1, <1>2, <1>3, <2>2
<1>4. CASE FieldsAdded(b, c) \cup FieldsRemoved(b, c) # {}
  <2>1. KeysOf(b) # KeysOf(c)
    BY <1>4 DEF FieldsAdded, FieldsRemoved
  <2>2. Canonicalize(b) # Canonicalize(c)
    BY <2>1 DEF Canonicalize
  <2> QED
    BY <1>1, <1>2, <1>4, <2>2
<1>5. CASE FieldsChanged(b, c) # {}
  <2>1. PICK f \in KeysOf(b) \cap KeysOf(c) : Get(b, f) # Get(c, f)
    BY <1>5 DEF FieldsChanged, Differs
  <2>2. Canonicalize(b)[f] = Get(b, f) /\ Canonicalize(c)[f] = Get(c, f)
    BY DEF Canonicalize
  <2> QED
    BY <1>1, <1>2, <1>5, <2>1, <2>2
<1> QED
  BY <1>3, <1>4, <1>5

(* One entry per field; the three counts add up. *)
LEMMA CountsAddUp ==
  ASSUME NEW b, NEW c, IsOutput(b), IsOutput(c)
  PROVE  LET cs == BuildChangeSet(b, c)
         IN /\ cs.changeCount = Cardinality({e.field : e \in cs.entries})
            /\ cs.changeCount = cs.added + cs.removed + cs.changed
<1> DEFINE A == Added(b, c)
           R == Removed(b, c)
           C == Changed(b, c)
           E == A \cup R \cup C
           F == {e.field : e \in E}
<1>1. EntriesFor(A, FieldsAdded(b, c), "added") /\ EntriesFor(R, FieldsRemoved(b, c), "removed")
      /\ EntriesFor(C, FieldsChanged(b, c), "changed")
  BY EntriesAre
<1> HIDE DEF A, R, C
<1>2. IsFiniteSet(A) /\ IsFiniteSet(R) /\ IsFiniteSet(C) /\ A \cap R = {} /\ (A \cup R) \cap C = {}
  BY <1>1 DEF EntriesFor
<1>3. IsFiniteSet(A \cup R) /\ Cardinality(A \cup R) = Cardinality(A) + Cardinality(R) - Cardinality(A \cap R)
  BY <1>2, FS_Union
<1>4. IsFiniteSet(E) /\ Cardinality(E) = Cardinality(A \cup R) + Cardinality(C) - Cardinality((A \cup R) \cap C)
  BY <1>2, <1>3, FS_Union
<1>5. Cardinality(E) = Cardinality(A) + Cardinality(R) + Cardinality(C)
  <2>1. Cardinality(A) \in Nat /\ Cardinality(R) \in Nat /\ Cardinality(C) \in Nat
    BY <1>2, FS_CardinalityType
  <2>2. Cardinality(A \cap R) = 0 /\ Cardinality((A \cup R) \cap C) = 0
    BY <1>2, FS_EmptySet
  <2> QED
    BY <1>3, <1>4, <2>1, <2>2
<1>6. \A d, e \in E : d.field = e.field => d = e
  <2>1. FieldsAdded(b, c) \cap FieldsRemoved(b, c) = {} /\ FieldsAdded(b, c) \cap FieldsChanged(b, c) = {}
        /\ FieldsRemoved(b, c) \cap FieldsChanged(b, c) = {}
    BY DEF FieldsAdded, FieldsRemoved, FieldsChanged
  <2> QED
    BY <1>1, <2>1 DEF EntriesFor
<1> DEFINE g == [e \in E |-> e.field]
<1>7. g \in Bijection(E, F)
  <2>1. g \in [E -> F] /\ \A e \in E : g[e] = e.field
    OBVIOUS
  <2>2. \A f \in F : \E e \in E : e.field = f
    OBVIOUS
  <2> HIDE DEF g, E, F
  <2>3. g \in Injection(E, F)
    BY <1>6, <2>1 DEF Injection, IsInjective
  <2>4. g \in Surjection(E, F)
    BY <2>1, <2>2 DEF Surjection
  <2> QED
    BY <2>3, <2>4 DEF Bijection
<1> HIDE DEF g, E, F
<1>8. Cardinality(F) = Cardinality(E)
  BY <1>4, <1>7, FS_Bijection DEF ExistsBijection
<1>9. BuildChangeSet(b, c).entries = E
  BY BuildChangeSetIs DEF E, A, R, C
<1> QED
  BY <1>5, <1>8, <1>9, BuildChangeSetIs DEF A, R, C, F

(* The outputs that meet are sequences. *)
OutputInv ==
  /\ IsOutput(found.output)
  /\ outcome.kind = "result" => IsOutput(outcome.output)
  /\ ChangeSetIsExact

LEMMA TripleIsOutput == ASSUME NEW d, NEW e, NEW f PROVE IsOutput(<<d, e, f>>)
BY DEF IsOutput

LEMMA ExtractIsOutput == ASSUME NEW rendered PROVE IsOutput(Extract(rendered).output)
<1>1. \E d, e, f : Extract(rendered).output = <<d, e, f>>
  BY Zenon DEF Extract
<1> QED
  BY <1>1, TripleIsOutput

(* Any step that compares nothing leaves the outputs sequences. *)
LEMMA OutputsStay ==
  ASSUME OutputInv, IsOutput(found'.output),
         \/ outcome' = outcome
         \/ outcome'.kind \in {"pending", "error"}
         \/ outcome'.kind = "result" /\ IsOutput(outcome'.output)
  PROVE  OutputInv'
<1>1. CASE outcome' = outcome
  BY <1>1 DEF OutputInv, ChangeSetIsExact, Compared, IsOutput
<1>2. CASE outcome'.kind \in {"pending", "error"}
  BY <1>2 DEF OutputInv, ChangeSetIsExact, Compared, IsOutput
<1>3. CASE outcome'.kind = "result" /\ IsOutput(outcome'.output)
  BY <1>3 DEF OutputInv, ChangeSetIsExact, Compared, IsOutput
<1> QED
  BY <1>1, <1>2, <1>3

LEMMA ThrowOutputs == ASSUME OutputInv, NEW code, Throw(code), UNCHANGED found PROVE OutputInv'
<1>1. outcome'.kind = "error" /\ found' = found
  BY DEF Throw
<1>2. IsOutput(found'.output)
  BY <1>1 DEF OutputInv
<1> QED
  BY <1>1, <1>2, OutputsStay

LEMMA ReturnOutputs ==
  ASSUME OutputInv, NEW renderer, NEW result, NEW shot, NEW extra, Return(renderer, result, shot, extra),
         IsOutput(result.output), UNCHANGED found
  PROVE  OutputInv'
<1>1. outcome'.kind = "result" /\ outcome'.output = result.output /\ found' = found
  BY DEF Return
<1>2. IsOutput(found'.output) /\ IsOutput(outcome'.output)
  BY <1>1 DEF OutputInv
<1> QED
  BY <1>1, <1>2, OutputsStay

LEMMA BrowserFailsOutputs ==
  ASSUME OutputInv, NEW code, BrowserFails(code), UNCHANGED found PROVE OutputInv'
<1>1. CASE purpose = "screenshot"
  <2>1. Return("cheerio", found, FALSE, 1) /\ IsOutput(found.output)
    BY <1>1 DEF BrowserFails, OutputInv
  <2> QED
    BY <2>1, ReturnOutputs
<1>2. CASE purpose # "screenshot"
  <2>1. \E thrown : Throw(thrown)
    BY <1>2 DEF BrowserFails
  <2> QED
    BY <2>1, ThrowOutputs
<1> QED
  BY <1>1, <1>2

LEMMA StaticFailsOutputs ==
  ASSUME OutputInv, NEW code, StaticFails(code), UNCHANGED found PROVE OutputInv'
<1>1. Throw(code) \/ outcome' = outcome
  BY DEF StaticFails, OpenBrowser
<1>2. IsOutput(found'.output)
  BY DEF OutputInv
<1> QED
  BY <1>1, <1>2, ThrowOutputs, OutputsStay

LEMMA CompareOutputsKeeps == ASSUME IInv, OutputInv, CompareOutputs PROVE OutputInv'
<1>1. PICK previous \in Previous :
        outcome' = [kind |-> "compared", renderer |-> outcome.renderer, output |-> outcome.output,
                    warnings |-> outcome.warnings, finalUrl |-> outcome.finalUrl, previous |-> previous,
                    sameHash |-> Canonicalize(previous) = Canonicalize(outcome.output),
                    changes |-> BuildChangeSet(previous, outcome.output)]
  BY DEF CompareOutputs
<1>2. /\ outcome'.kind = "compared" /\ outcome'.output = outcome.output /\ outcome'.previous = previous
      /\ outcome'.sameHash = (Canonicalize(previous) = Canonicalize(outcome.output))
      /\ outcome'.changes = BuildChangeSet(previous, outcome.output)
  BY <1>1
<1>3. IsOutput(outcome.output) /\ IsOutput(previous)
  BY RendererConstants DEF CompareOutputs, IInv, OutcomeInv, OutputInv
<1>4. found' = found
  BY DEF CompareOutputs
<1>5. ChangeSetIsExact'
  <2>1. Applied(outcome'.previous, outcome'.changes) = Canonicalize(outcome'.output)
    BY <1>2, <1>3, AppliedIsCurrent
  <2>2. outcome'.changes.hasChanges = ~outcome'.sameHash
    <3>1. BuildChangeSet(previous, outcome.output).hasChanges
            = ~(Canonicalize(previous) = Canonicalize(outcome.output))
      BY <1>3, ChangesMeanDifference
    <3> QED
      BY <1>2, <3>1
  <2>3. /\ outcome'.changes.changeCount = Cardinality({c.field : c \in outcome'.changes.entries})
        /\ outcome'.changes.changeCount =
             outcome'.changes.added + outcome'.changes.removed + outcome'.changes.changed
    <3> DEFINE cs == BuildChangeSet(previous, outcome.output)
    <3>1. /\ cs.changeCount = Cardinality({e.field : e \in cs.entries})
          /\ cs.changeCount = cs.added + cs.removed + cs.changed
      BY <1>3, CountsAddUp
    <3> HIDE DEF cs
    <3>2. outcome'.changes = cs
      BY <1>2 DEF cs
    <3> QED
      BY <3>1, <3>2
  <2> QED
    BY <2>1, <2>2, <2>3 DEF ChangeSetIsExact, Compared, Applied, Canonicalize
<1> QED
  BY <1>2, <1>4, <1>5 DEF OutputInv, IsOutput

LEMMA OutputsInductive == ASSUME IInv, OutputInv, [Next]_vars PROVE OutputInv'
<1>1. CASE Start
  <2>1. found' = found /\ (outcome' = outcome \/ \E code : Throw(code))
    BY <1>1 DEF Start, OpenBrowser
  <2>2. IsOutput(found'.output)
    BY <2>1 DEF OutputInv
  <2> QED
    BY <2>1, <2>2, OutputsStay, ThrowOutputs
<1>2. CASE Fetch
  <2>1. found' = found /\ (outcome' = outcome \/ \E code : StaticFails(code))
    BY <1>2 DEF Fetch
  <2>2. IsOutput(found'.output)
    BY <2>1 DEF OutputInv
  <2> QED
    BY <2>1, <2>2, OutputsStay, StaticFailsOutputs
<1>3. CASE Read
  <2>1. \/ (\E code : StaticFails(code)) /\ found' = found
        \/ found' = Extract(FALSE) /\ outcome' = outcome
    BY <1>3 DEF Read, OpenBrowser
  <2>2. CASE found' = Extract(FALSE) /\ outcome' = outcome
    <3>1. IsOutput(found'.output)
      BY <2>2, ExtractIsOutput
    <3> QED
      BY <2>2, <3>1, OutputsStay
  <2> QED
    BY <2>1, <2>2, StaticFailsOutputs
<1>4. CASE Open
  <2>1. found' = found /\ (outcome' = outcome \/ \E code : BrowserFails(code))
    BY <1>4 DEF Open
  <2>2. IsOutput(found'.output)
    BY <2>1 DEF OutputInv
  <2> QED
    BY <2>1, <2>2, OutputsStay, BrowserFailsOutputs
<1>5. CASE Load
  <2>1. found' = found /\ (outcome' = outcome \/ \E code : BrowserFails(code))
    BY <1>5 DEF Load
  <2>2. IsOutput(found'.output)
    BY <2>1 DEF OutputInv
  <2> QED
    BY <2>1, <2>2, OutputsStay, BrowserFailsOutputs
<1>6. CASE Render
  <2>1. /\ found' = found
        /\ \/ \E code : BrowserFails(code)
           \/ \E shot, extra : Return("playwright", Extract(TRUE), shot, extra)
           \/ \E shot : Return("cheerio", found, shot, 0)
    BY <1>6 DEF Render
  <2>2. IsOutput(found.output) /\ IsOutput(Extract(TRUE).output)
    BY ExtractIsOutput DEF OutputInv
  <2> QED
    BY <2>1, <2>2, BrowserFailsOutputs, ReturnOutputs
<1>7. CASE CompareOutputs
  BY <1>7, CompareOutputsKeeps
<1>8. CASE UNCHANGED vars
  <2>1. found' = found /\ outcome' = outcome
    BY <1>8 DEF vars
  <2>2. IsOutput(found'.output)
    BY <2>1 DEF OutputInv
  <2> QED
    BY <2>1, <2>2, OutputsStay
<1> QED
  BY <1>1, <1>2, <1>3, <1>4, <1>5, <1>6, <1>7, <1>8 DEF Next

LEMMA OutputsInitially == ASSUME Init PROVE OutputInv
<1>1. found.output = <<>> /\ outcome.kind = "pending"
  BY DEF Init, Nothing, Pending
<1>2. IsOutput(<<>>)
  BY DEF IsOutput
<1> QED
  BY <1>1, <1>2 DEF OutputInv, ChangeSetIsExact, Compared

(* Whatever the page shows and whatever was shown before, the change set    *)
(* that the processor stores is the exact difference of the two outputs,    *)
(* has one entry for each field of it, and is there when the hashes differ. *)
THEOREM ChangeSetsAreExact == Spec => []ChangeSetIsExact
<1>1. Init => IInv /\ OutputInv
  BY Initially, OutputsInitially
<1>2. IInv /\ OutputInv /\ [Next]_vars => (IInv /\ OutputInv)'
  BY Inductive, OutputsInductive
<1>3. OutputInv => ChangeSetIsExact
  BY DEF OutputInv
<1> QED
  BY <1>1, <1>2, <1>3, PTL DEF Spec

=============================================================================

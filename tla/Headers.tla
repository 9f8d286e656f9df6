------------------------------ MODULE Headers ------------------------------
(***************************************************************************)
(* The HTTP headers of an HTTPS target (headers.rs): a GET, up to two      *)
(* OPTIONS requests, and the findings drawn from the answers.  A site is   *)
(* what the end of the GET's redirects answers with:                       *)
(*   ok         whether its status is a success                            *)
(*   hsts       [maxAge, sub, preload], or Absent                          *)
(*   csp        the policy, directive -> its tokens, or Absent             *)
(*   sent       the other headers it sends, by what is said of them        *)
(*   cookies    the cookies it sets, each the set of its attributes        *)
(*   allow      the methods in the OPTIONS answer's Allow, none without it *)
(*   allows     whether that answer's status is a success                  *)
(***************************************************************************)
EXTENDS Naturals, Preload

Absent == [absent |-> TRUE]

(* What is found of a header for being there, in the order of the code.    *)
Disclosures ==
  [version |-> "HTTP-SERVER-VERSION-LEAK", poweredBy |-> "HTTP-X-POWERED-BY-PRESENT"]
ProxyDisclosures ==
  [timing |-> "HTTP-SERVER-TIMING-PRESENT", via |-> "HTTP-VIA-PRESENT"]
Outdated ==
  [reportTo |-> "HTTP-DEPRECATED-REPORT-TO", noCharset |-> "HTTP-CONTENT-TYPE-NO-CHARSET"]
LateDisclosures == [hpkp |-> "TLS-HPKP-PRESENT", compressed |-> "TLS-BREACH-ELIGIBLE"]

CookieLacks == [secure |-> "HTTP-COOKIE-NO-SECURE", httponly |-> "HTTP-COOKIE-NO-HTTPONLY",
                samesite |-> "HTTP-COOKIE-NO-SAMESITE"]

Found(table, sent) == {table[x] : x \in sent \intersect DOMAIN table}
If(condition, id) == IF condition THEN {id} ELSE {}

-----------------------------------------------------------------------------
(* What is known when the GET fails, or answers with 4xx or 5xx: as of a   *)
(* site that sends nothing.                                                *)
Default == [hsts |-> Absent, csp |-> Absent, sent |-> {}, cookies |-> {}, allow |-> {},
            in_preload_list |-> FALSE]

(* The first OPTIONS counts when it succeeds.  A second is made when it    *)
(* does not, and counts when that is answered with 4xx or 5xx.             *)
Allow(site, fate) ==
  IF (site.allows /\ fate.options) \/ (~site.allows /\ fate.retry) THEN site.allow ELSE {}

fetch(site, fate, list, host) ==
  IF ~fate.get \/ ~site.ok THEN Default
  ELSE [hsts |-> site.hsts, csp |-> site.csp, sent |-> site.sent, cookies |-> site.cookies,
        allow |-> Allow(site, fate),
        in_preload_list |-> site.hsts # Absent /\ is_preloaded(list, host) # None]

-----------------------------------------------------------------------------
(* The directive's tokens; of a directive that is absent, none.            *)
csp_directive_value(csp, directive) ==
  IF directive \in DOMAIN csp THEN csp[directive] ELSE {}

(* script-src, or default-src in its place.                                *)
ScriptTokens(csp) ==
  csp_directive_value(csp, IF "script-src" \in DOMAIN csp THEN "script-src" ELSE "default-src")

INLINE == "'unsafe-inline'"
Mentions(csp, token) == \E d \in DOMAIN csp : token \in csp[d]

StyleDirectives == {"style-src", "style-src-elem", "style-src-attr"}

InStyles(csp) == \E d \in StyleDirectives : INLINE \in csp_directive_value(csp, d)

(* The style directives are asked first, a mutated form.                   *)
classify_style_first(csp) ==
  IF ~Mentions(csp, INLINE) THEN "none"
  ELSE IF InStyles(csp) THEN "Low" ELSE "Medium"

(* Inline scripts count, and inline sources of neither kind as scripts.    *)
classify_csp_unsafe_inline(csp) ==
  IF ~Mentions(csp, INLINE) THEN "none"
  ELSE IF INLINE \in ScriptTokens(csp) \/ ~InStyles(csp) THEN "Medium" ELSE "Low"

CspFindings(csp) ==
  If(classify_csp_unsafe_inline(csp) # "none", "HTTP-CSP-UNSAFE-INLINE")
  \union If(Mentions(csp, "'unsafe-eval'"), "HTTP-CSP-UNSAFE-EVAL")
  \union If("data:" \in ScriptTokens(csp), "HTTP-CSP-DATA-IN-SCRIPT-SRC")
  \union If("*" \in ScriptTokens(csp), "HTTP-CSP-WILDCARD-SCRIPT-SRC")

YearAge == 31536000
ShortAge == 15768000

(* Without a look at the subdomains, a mutated form.                       *)
EligibleAlone(info) ==
  info.hsts.maxAge >= YearAge /\ info.hsts.preload /\ ~info.in_preload_list
Eligible(info) ==
  /\ info.hsts.maxAge >= YearAge /\ info.hsts.sub /\ info.hsts.preload
  /\ ~info.in_preload_list

HstsFindings(info) ==
  If(info.hsts.maxAge < ShortAge, "HSTS-SHORT-MAX-AGE")
  \union If(~info.hsts.sub, "HSTS-NO-SUBDOMAINS")
  \union If(info.hsts.preload /\ ~info.in_preload_list, "HSTS-NOT-PRELOADED")
  \union If(Eligible(info), "HSTS-PRELOAD-ELIGIBLE-BUT-UNREGISTERED")

Framable(info) ==
  /\ "x-frame-options" \notin info.sent
  /\ info.csp = Absent \/ "frame-ancestors" \notin DOMAIN info.csp

PolicyFindings(info) ==
  If(info.csp = Absent /\ "csp-report-only" \notin info.sent, "HTTP-CSP-MISSING")
  \union (IF info.csp = Absent THEN {} ELSE CspFindings(info.csp))
  \union If(Framable(info), "HTTP-X-FRAME-OPTIONS-MISSING")
  \union If("nosniff" \notin info.sent, "HTTP-NOSNIFF-MISSING")

CookieFindings(info) ==
  {CookieLacks[a] : a \in {b \in DOMAIN CookieLacks : \E c \in info.cookies : b \notin c}}
  \union If(info.cookies # {} /\ "cache-control" \notin info.sent, "HTTP-CACHE-CONTROL-MISSING")

(* Without HSTS the function returns, before it looks at pins and at the   *)
(* compression.                                                            *)
contribute_findings(info) ==
  Found(Disclosures, info.sent)
  \union CookieFindings(info)
  \union Found(ProxyDisclosures, info.sent)
  \union PolicyFindings(info)
  \union Found(Outdated, info.sent)
  \union If("TRACE" \in info.allow, "HTTP-TRACE-ENABLED")
  \union (IF info.hsts = Absent THEN {"HSTS-MISSING"}
          ELSE HstsFindings(info) \union Found(LateDisclosures, info.sent))
=============================================================================

----------------------------- MODULE UrlPolicy ------------------------------
(***************************************************************************)
(* Which URLs ChangeLens requests (packages/scraper/src/url-policy.ts).  A *)
(* URL is a record of what the policy looks at: whether it parses within   *)
(* 2 048 characters, scheme, credentials, port and host name.  What the    *)
(* resolver answers belongs to a check, not to the URL.                    *)
(***************************************************************************)
EXTENDS Naturals, Sequences, FiniteSetsExt

BlockedHostnames == {"localhost", "localhost.localdomain", "metadata", "metadata.google.internal",
                     "instance-data", "instance-data.ec2.internal", "kubernetes.default",
                     "kubernetes.default.svc"}
BlockedSuffixes == {".localhost", ".local", ".internal"}

BlockedIpv4Ranges == {"unspecified", "broadcast", "multicast", "linkLocal", "loopback", "private",
                      "reserved", "carrierGradeNat"}
BlockedIpv6Ranges == {"unspecified", "linkLocal", "multicast", "loopback", "uniqueLocal", "ipv4Mapped",
                      "rfc6145", "rfc6052", "6to4", "teredo", "reserved"}

(* The first rule that one of these tests breaks, or OK. *)
FirstBroken(rules) == LET broken == {i \in DOMAIN rules : rules[i][2]}
                      IN IF broken = {} THEN "OK" ELSE rules[Min(broken)][1]

NormalizePublicUrl(url) == FirstBroken(<<
  <<"URL_INVALID",             ~url.valid>>,
  <<"URL_SCHEME_BLOCKED",      url.scheme \notin {"http", "https"}>>,
  <<"URL_CREDENTIALS_BLOCKED", url.credentials>>,
  <<"URL_PORT_BLOCKED",        url.port \notin {0, 80, 443}>>,
  <<"HOSTNAME_BLOCKED",        url.host \in BlockedHostnames \/ url.suffix \in BlockedSuffixes>> >>)

(* A mapped address counts as the IPv4 address inside. *)
IsBlockedIpAddress(address) ==
  CASE address.family \in {"ipv4", "mapped"} -> address.range \in BlockedIpv4Ranges
    [] address.family = "ipv6" -> address.range \in BlockedIpv6Ranges
    [] OTHER -> TRUE

AnyAddressBlocked(addresses) == \E i \in DOMAIN addresses : IsBlockedIpAddress(addresses[i])

(* The verdict on a URL when the resolver answers with these addresses,     *)
(* none of them when it fails.                                              *)
AssertPublicHttpUrl(url, addresses) == FirstBroken(<<
  <<NormalizePublicUrl(url),   NormalizePublicUrl(url) # "OK">>,
  <<"DNS_RESOLUTION_FAILED",   addresses = <<>> >>,
  <<"IP_RANGE_BLOCKED",        AnyAddressBlocked(addresses)>> >>)

(* guardBrowserRequests resolves each origin of a page once. *)
Origin(url) == <<url.scheme, url.host, url.port>>
=============================================================================

----------------------------- MODULE TaskOptions -----------------------------
(***************************************************************************)
(* What a task may be asked: the options of each type and the targets, as  *)
(* the create form offers them (CreateTaskDialog/TypeFields.tsx), as its   *)
(* preview reads them (lib/commandPreview.ts), as the browser checks       *)
(* targets (lib/targetValidator.ts) and as the server takes them           *)
(* (server/app/validators/).                                               *)
(*                                                                         *)
(* An option is a default and the values allowed; the form also names the  *)
(* values worth trying.  A set of ports stands for a list of them, a text, *)
(* headers and a target for all those the validators cannot tell apart.    *)
(***************************************************************************)
EXTENDS Integers, FiniteSets

Num(d, lo, hi) == [def |-> d, vals |-> lo..hi, try |-> {lo, hi}]
Pick(d, S)     == [def |-> d, vals |-> S, try |-> S]
Off            == FALSE   \* a box not ticked
Flag           == Pick(Off, BOOLEAN)
Empty          == ""      \* a text left blank
\* Texts up to 128 characters, up to 255, and more; the field takes them all.
Text           == Pick(Empty, {Empty, "short", "over128", "over255"})
TextTo128      == Pick(Empty, {Empty, "short"})
TextTo255      == Pick(Empty, {Empty, "short", "over128"})
Port(d)        == Num(d, 1, 65535)
Secs(d, hi)    == Num(d, 1, hi)

\* A list of ports: typed text keeps what is a port, be it nothing or more
\* than 256 or 1024 of them.
FewPorts    == (SUBSET {22, 80, 443, 8080, 8443}) \ {{}}
Hundreds    == 1..257
Thousands   == 1..1025
AnyPorts(d) == Pick(d, {d, {443}, {}, Hundreds, Thousands})
Missing     == {0}   \* the server's default for ports: none that it accepts

\* mutant: the server knows fewer ports than the form offers
SomePortsFew(lists) == [def |-> Missing, vals |-> {ps \in lists : 443 \notin ps}]

SomePorts(lists) == [def |-> Missing, vals |-> lists]

Cycles == Num(10, 1, 100)
Hops   == Num(30, 1, 64)
Mtr    == [cycles |-> Cycles, max_hops |-> Hops, ipv6 |-> Flag]
MtrTcp == [cycles |-> Cycles, max_hops |-> Hops, ipv6 |-> Flag, port |-> Port(443)]
Modes  == {"tcp_syn", "tcp_ack", "tcp_fin", "udp", "icmp"}

\* One function over another: the first wins.
Over(f, g) ==
  [k \in DOMAIN f \union DOMAIN g |-> IF k \in DOMAIN f THEN f[k] ELSE g[k]]

-----------------------------------------------------------------------------
(* The form's fields.                                                      *)

TypeFields ==
  [ping        |-> [count |-> Num(5, 1, 100), interval_ms |-> Num(1000, 250, 5000),
                    timeout_sec |-> Secs(5, 30), ipv6 |-> Flag],
   traceroute  |-> [max_hops |-> Hops, queries_per_hop |-> Num(1, 1, 3),
                    timeout_sec |-> Secs(3, 10), ipv6 |-> Flag],
   mtr         |-> Mtr,
   mtr_tcp     |-> MtrTcp,
   tcp_connect |-> [banner_grab |-> Flag, port |-> Port(443),
                    timeout_sec |-> Secs(5, 30), ipv6 |-> Flag],
   tcp_scan    |-> [ports |-> AnyPorts({80, 443, 22, 8080, 8443}),
                    concurrency |-> Num(32, 1, 256),
                    timeout_sec |-> Secs(3, 30), ipv6 |-> Flag],
   syn_scan    |-> [ports |-> AnyPorts({22, 80, 443}), timeout_sec |-> Secs(5, 15)],
   hping3      |-> [mode |-> Pick("tcp_syn", Modes), count |-> Num(5, 1, 100),
                    interval_ms |-> Num(200, 10, 5000), port |-> Port(80)],
   dns         |-> [record_type |-> Pick("A", {"A", "AAAA", "MX", "TXT", "NS",
                                               "CNAME", "PTR"}),
                    resolver |-> Text, timeout_sec |-> Secs(5, 30)],
   http_check  |-> [method |-> Pick("GET", {"GET", "HEAD", "POST", "PUT", "DELETE",
                                            "OPTIONS"}),
                    follow_redirects |-> Flag, timeout_sec |-> Secs(10, 60)],
   tls_check   |-> [sni |-> Text, port |-> Port(443), timeout_sec |-> Secs(10, 60)]]

\* The two fields a field of tcp_connect opens.
BannerFields == [banner_bytes |-> Num(256, 1, 4096),
                 banner_timeout_ms |-> Num(2000, 100, 10000)]

TaskTypes == DOMAIN TypeFields

Default(fields) == [k \in DOMAIN fields |-> fields[k].def]

\* The fields on screen, and what they show.
Grabs(type, opts) ==
  type = "tcp_connect" /\ "banner_grab" \in DOMAIN opts /\ opts.banner_grab
Fields(type, opts) ==
  IF Grabs(type, opts) THEN Over(TypeFields[type], BannerFields) ELSE TypeFields[type]

\* mutant: what was entered is not shown
DisplayedDefaults(type, opts) == Default(Fields(type, opts))

\* A menu that lacks what is set shows its first entry, which is the default.
Menus == {"record_type", "method", "mode"}
Displayed(type, opts) ==
  [k \in DOMAIN Fields(type, opts) |->
     LET field == Fields(type, opts)[k] IN
     IF k \in DOMAIN opts /\ (k \in Menus => opts[k] \in field.vals)
     THEN opts[k] ELSE field.def]

-----------------------------------------------------------------------------
(* The preview: the defaults it falls back to.                             *)

PreviewDefaults ==
  [ping        |-> [count |-> 5, timeout_sec |-> 5, interval_ms |-> 1000, ipv6 |-> Off],
   traceroute  |-> [max_hops |-> 30, timeout_sec |-> 3, queries_per_hop |-> 1,
                    ipv6 |-> Off],
   mtr         |-> [cycles |-> 10, max_hops |-> 30, ipv6 |-> Off],
   mtr_tcp     |-> [cycles |-> 10, max_hops |-> 30, port |-> 443, ipv6 |-> Off],
   tcp_connect |-> [port |-> 443, timeout_sec |-> 5, banner_grab |-> Off],
   tcp_scan    |-> [ports |-> {80, 443, 22}, timeout_sec |-> 3, concurrency |-> 32],
   syn_scan    |-> [ports |-> {22, 80, 443}, timeout_sec |-> 5],
   hping3      |-> [mode |-> "tcp_syn", port |-> 80, count |-> 5, interval_ms |-> 200],
   dns         |-> [record_type |-> "A", resolver |-> Empty, timeout_sec |-> 5],
   http_check  |-> [method |-> "GET", follow_redirects |-> Off, timeout_sec |-> 10],
   tls_check   |-> [port |-> 443, sni |-> Empty, timeout_sec |-> 10]]

Previewed(type, opts) ==
  [k \in DOMAIN PreviewDefaults[type] |->
     IF k \in DOMAIN opts THEN opts[k] ELSE PreviewDefaults[type][k]]

-----------------------------------------------------------------------------
(* The server's validators: the options it takes and adds.                 *)

\* Headers come from a task made elsewhere; none is the default.
Headers == Pick("none", {"none", "some"})

ServerParams ==
  [ping        |-> [count |-> Num(5, 1, 100), interval_ms |-> Num(1000, 250, 5000),
                    size_bytes |-> Num(56, 8, 65500),
                    timeout_sec |-> Secs(5, 30), ipv6 |-> Flag],
   traceroute  |-> [max_hops |-> Hops, queries_per_hop |-> Num(1, 1, 3),
                    timeout_sec |-> Secs(3, 10), ipv6 |-> Flag],
   mtr         |-> Mtr,
   mtr_tcp     |-> MtrTcp,
   tcp_connect |-> [banner_grab |-> Flag, port |-> Port(443),
                    timeout_sec |-> Secs(5, 30), ipv6 |-> Flag],
   tcp_scan    |-> [ports |-> SomePorts(FewPorts \union {Hundreds}),
                    concurrency |-> Num(32, 1, 256),
                    timeout_sec |-> Secs(3, 30), ipv6 |-> Flag],
   syn_scan    |-> [ports |-> SomePorts(FewPorts), timeout_sec |-> Secs(5, 15),
                    ipv6 |-> Flag],
   hping3      |-> [mode |-> Pick("tcp_syn", Modes), count |-> Num(5, 1, 100),
                    interval_ms |-> Num(200, 10, 5000), port |-> Port(80),
                    timeout_sec |-> Secs(10, 60)],
   dns         |-> [record_type |-> Pick("A", {"A", "AAAA", "MX", "TXT", "NS",
                                               "CNAME", "SOA", "PTR"}),
                    resolver |-> TextTo128, timeout_sec |-> Secs(5, 30)],
   http_check  |-> [method |-> Pick("GET", {"GET", "HEAD", "POST", "PUT", "PATCH",
                                            "DELETE", "OPTIONS"}),
                    headers |-> Headers, follow_redirects |-> Flag,
                    timeout_sec |-> Secs(10, 60)],
   tls_check   |-> [sni |-> TextTo255, port |-> Port(443), timeout_sec |-> Secs(10, 60)]]

Params(type, opts) ==
  IF Grabs(type, opts) THEN Over(ServerParams[type], BannerFields) ELSE ServerParams[type]

\* What a task gets: options nobody asks for are dropped, those missing added.
Taken(type, opts) ==
  [k \in DOMAIN Params(type, opts) |->
     IF k \in DOMAIN opts THEN opts[k] ELSE Params(type, opts)[k].def]
OptionsOk(type, opts) ==
  \A k \in DOMAIN Params(type, opts) : Taken(type, opts)[k] \in Params(type, opts)[k].vals

\* Every parameter a type may have.
AllParams(type) ==
  IF type = "tcp_connect" THEN Over(ServerParams[type], BannerFields) ELSE ServerParams[type]

\* What the form's fields do not keep out, though the server does: no ports or
\* too many, texts that are too long.
Beyond(k) == IF k = "ports" THEN {{}, Hundreds, Thousands}
             ELSE IF k \in {"resolver", "sni"} THEN {"over128", "over255"}
             ELSE {}

\* Options that the server would take, but for those.
OptionsFit(type, opts) ==
  \A k \in DOMAIN opts :
    /\ k \in DOMAIN AllParams(type)
    /\ opts[k] \in AllParams(type)[k].vals \union Beyond(k)

-----------------------------------------------------------------------------
(* Targets.                                                                *)

\* Nothing, spaces; names with a dot, some beginning with a digit or "http";
\* names without; URLs, some with capitals, some too long; addresses, those of
\* IPv6 beginning with a digit or, "lettered6", with a letter.
TargetKinds ==
  {"nothing", "blank", "host", "digithost", "httphost", "name", "underscored",
   "url", "casedUrl", "longUrl", "junk",
   "public4", "private4", "reserved4", "public6", "lettered6", "private6", "reserved6"}

Hosts    == {"host", "digithost", "httphost"}
Urls     == {"url", "casedUrl", "longUrl"}
HostOrIP == Hosts \union {"public4", "reserved4", "public6", "lettered6", "reserved6"}

\* The browser's check; what is blank passes.
ValidateTargetFor(type, t) ==
  \/ t \in {"nothing", "blank"}
  \/ type = "dns" /\ t \in Hosts \union {"underscored", "public4", "private4", "reserved4"}
  \/ type = "http_check" /\ t \in Hosts \union Urls \union {"public4", "reserved4"}
  \/ type = "tls_check" /\ t \in HostOrIP \union Urls
  \/ type \notin {"dns", "http_check", "tls_check"} /\ t \in HostOrIP

\* The server's, whatever the type; a name may fail to resolve as well.
Resolves(t) == t \in Hosts \union {"name", "url", "casedUrl"}
ServerTakesTarget(t) == Resolves(t) \/ t \in {"public4", "public6", "lettered6"}

\* A URL is put into lower case as a whole.
Normalised(t) == IF t = "casedUrl" THEN "url" ELSE t

\* Picking a type may replace a target that does not look like its kind.
BeginsWithDigit(t) ==
  t \in {"digithost", "public4", "private4", "reserved4", "public6", "reserved6"}
TargetFor(type, t) ==
  IF type = "dns" /\ (t = "nothing" \/ BeginsWithDigit(t)) THEN "host"
  ELSE IF type = "http_check" /\ t \notin Urls \union {"httphost"} THEN "url"
  ELSE t
=============================================================================

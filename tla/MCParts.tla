------------------------------- MODULE MCParts -------------------------------
(***************************************************************************)
(* Small instances of the parts for TLC.                                   *)
(***************************************************************************)
EXTENDS Parts, TLC

(* Two packages that both have rules.                                      *)
MCPackages == {<<"a", 1>>, <<"b", 1>>}

(* Migrations of two columns and of one table.                             *)
MCAdditions == <<2, 1>>

(* A registry, a host of artifacts, a host whose name may come to mean an  *)
(* address within the network, and one without any address.                *)
Https(host, path) == <<"https", host, FALSE, path>>
Meta == Https("registry", "pkg")
Art == Https("cdn", "art")
Moved == Https("moving", "art")
Gone == Https("gone", "art")
Plain == <<"http", "cdn", FALSE, "art">>
Login == <<"https", "cdn", TRUE, "art">>
Local == Https("localhost", "art")

MCAddresses ==
  [h \in {"registry", "cdn", "moving", "gone", "localhost", "10.0.0.1"} |->
     CASE h \in {"registry", "cdn"} -> {{"public"}}
       [] h = "moving" -> {{"public"}, {"public", "private"}}
       [] OTHER -> {{}}]

To(u) == [to |-> u, ok |-> FALSE, declared |-> 0, size |-> 1, holds |-> NONE]
Holding(size, x) ==
  [to |-> NONE, ok |-> TRUE, declared |-> size, size |-> size, holds |-> x]

Release(v, u, d) == [version |-> v, tarball |-> u, digest |-> d]
Metadata(versions) == [latest |-> 2, versions |-> versions]
Metadatas ==
  {Metadata(<<>>), Metadata(<<Release(1, Art, "good")>>),
   Metadata(<<Release(1, Art, NONE), Release(2, Moved, "good")>>),
   Metadata(<<Release(2, NONE, "good")>>)}

File(path, depth, size, kind) ==
  [path |-> path, depth |-> depth, size |-> size, kind |-> kind]
Fine == File("inside", 1, 2, "file")
Folder == File("inside", 1, 0, "dir")
Archives ==
  {<<Fine>>, <<Folder, Fine, Fine>>, <<Fine, Folder, Fine, Fine>>,
   <<Folder, Fine, File("parent", 1, 1, "file")>>,
   <<Fine, File("inside", 2, 1, "file")>>, <<Fine, File("inside", 1, 3, "file")>>,
   <<Folder, File("inside", 1, 0, "link")>>}
Artifact(digest, members) == [digest |-> digest, members |-> members]

MCWeb ==
  [u \in {Meta, Art, Moved, Gone, Plain, Login, Local} |->
    CASE u = Meta -> {Holding(1, Metadata(m.versions)) : m \in Metadatas}
                     \cup {Holding(2, NONE), To(Meta)}
      [] u = Art -> {Holding(1, Artifact("good", a)) : a \in Archives}
                    \cup {Holding(2, Artifact("good", a)) : a \in Archives}
                    \cup {Holding(1, Artifact("other", <<Fine>>)),
                          [Holding(3, NONE) EXCEPT !.declared = 0]}
                    \cup {To(v) : v \in {Art, Moved, Gone, Plain, Login, Local}}
      [] u = Moved -> {To(Art), [To(NONE) EXCEPT !.size = 1]}
      [] OTHER -> {Holding(1, Artifact("good", <<Fine>>))}]

Reference(kind, v, u, c) == [kind |-> kind, version |-> v, url |-> u, commit |-> c]
MCRefs ==
  {Reference("npm", NONE, Meta, NONE), Reference("pypi", 1, Meta, NONE),
   Reference("github", NONE, Https("github", "repo"), "c0ffee"),
   Reference("github", NONE, Https("github", "repo"), NONE)}

-----------------------------------------------------------------------------
(* The feed: two keywords that share a CVE, one of them with a second      *)
(* page, and a seed the NVD has a later entry of.                          *)
Entry(a, b) == <<a, b>>
MCNvd == <<<<Entry(1, 0), Entry(0, 2)>>, <<Entry(2, 0)>>>>
MCSeeds == Entry(0, 1)

(* Policy: findings that are suppressed, expired, denied or incomplete.    *)
Finding(i, rule, severity, t) ==
  [id |-> i, rule |-> rule, severity |-> severity, target |-> t]
MCFindings ==
  {Finding(1, "R102", "critical", "a"), Finding(2, "R102", "medium", "b"),
   Finding(4, "R113", "high", "a")}
MCCatalog == {"R102", "R111", "R113"}
Suppress(rule, t, day_, justified) ==
  [rule |-> rule, target |-> t, expires |-> day_, justified |-> justified]
MCSuppressions ==
  {Suppress("R102", t, e, TRUE) : t \in {"*", "a"}, e \in {0, 1}}
  \cup {Suppress("R9", "*", 1, TRUE), Suppress("R102", "*", 1, FALSE)}
MCPolicyFiles ==
  [wellFormed : {TRUE}, failOn : {"medium", "critical"}, deny : {{}, {"R113"}},
   maxRisk : {40, 100}, complete : {TRUE},
   suppressions : {{}} \cup {{s} : s \in MCSuppressions}]
MCMatched == <<{"net_egress", "fs_write", "fs_read"}, {"code_exec"}>>

(* Several servers: tools that read, write, run and send, what they take   *)
(* and give, and names that are alike or equal but for their case.         *)
Of(name, traits, in, out) ==
  [name |-> name, traits |-> traits, in |-> in, out |-> out]
Get == Of("get", {"reads_data", "reads", "read_name", "file_read"}, {}, {"o"})
GET == Of("GET", {"reads", "read_name", "takes_input"}, {"s"}, {"o", "s"})
Map == Of("map", {"file_read"}, {"o"}, {"s"})
Run == Of("run", {"writes", "executes", "shell_exec", "shell_word"}, {"s"}, {})
Send == Of("send", {"sends", "file_read"}, {"s"}, {"n"})
Sends == Of("sends", {"writes"}, {"n"}, {"o"})
MCReports == {<<>>, <<Get>>, <<Sends>>, <<Get, GET, Map>>, <<Send, Run>>}
MCLower ==
  [n \in {"get", "GET", "map", "run", "send", "sends"} |-> IF n = "GET" THEN "get" ELSE n]
MCSimilar == {<<"send", "sends">>, <<"sends", "send">>}

(* Reports of one server: one thing different from the first in each, or   *)
(* two.                                                                    *)
Text(i, poisoned) == [id |-> i, poisoned |-> poisoned]
Kind == Text(1, FALSE)
Foul == Text(2, TRUE)
Shape(command, other, doc, endless) ==
  [props |-> [command |-> command, other |-> other], rest |-> 0, doc |-> doc,
   endless |-> endless]
Bare == Shape(NONE, NONE, 0, FALSE)
Told(name, text, input, output) ==
  [name |-> name, description |-> text, input |-> input, output |-> output]
Item(text, rest) == [description |-> text, rest |-> rest]
Items(p, r, t) ==
  [prompt |-> [i |-> p], resource |-> [i |-> r], resource_template |-> [i |-> t]]
Seen(state_, rest) == [state |-> state_, rest |-> rest]
Statuses(tools_, prompts) == [tools |-> tools_, prompts |-> prompts]
Whole == Seen("complete", 0)
Hit(rest) == [key |-> "f", rest |-> rest]
FirstReport ==
  [tools |-> <<Told("t", Kind, Bare, Bare)>>, findings |-> {}, instructions |-> Kind,
   items |-> Items(Item(Kind, 0), NONE, Item(Kind, 0)),
   status |-> Statuses(Whole, Whole), incomplete |-> FALSE, fingerprint |-> [version |-> 1]]
MCHistories ==
  {FirstReport}
  \cup {[FirstReport EXCEPT !.tools = ts] :
          ts \in {<<>>, <<Told("t", Kind, Shape(NONE, NONE, 1, FALSE), Bare)>>,
                  <<Told("t", Foul, Shape(NONE, NONE, 1, FALSE), Bare)>>,
                  <<Told("t", Kind, Bare, Bare),
                    Told("t", Foul, Shape("string", NONE, 0, FALSE), Bare)>>,
                  <<Told("t", Kind, Shape(NONE, "string", 0, FALSE), Bare),
                    Told("u", Kind, Bare, Bare)>>,
                  <<Told("t", Kind, Bare, Shape("string", NONE, 0, FALSE))>>}}
  \cup {[FirstReport EXCEPT !.items = it] :
          it \in {Items(Item(Foul, 0), Item(Kind, 0), NONE), Items(Item(Kind, 1), NONE, Item(Foul, 0)),
                  Items(Item(Kind, 0), Item(Foul, 0), Item(Kind, 1))}}
  \cup {[FirstReport EXCEPT !.tools = <<Told("t", Kind, Shape(NONE, NONE, 0, TRUE), Bare)>>,
                            !.findings = {Hit(0)}],
        [FirstReport EXCEPT !.findings = {Hit(0)}],
        [FirstReport EXCEPT !.findings = {Hit(0), Hit(1)}],
        [FirstReport EXCEPT !.instructions = Foul],
        [FirstReport EXCEPT !.incomplete = TRUE],
        [FirstReport EXCEPT !.status = Statuses(Whole, Seen("partial", 1)), !.incomplete = TRUE],
        [FirstReport EXCEPT !.status = Statuses(NONE, Seen("complete", 1))],
        [FirstReport EXCEPT !.fingerprint = [version |-> 2]]}

(* Words for every rule, and properties of several of them.                *)
Property(n, type, bounds, default, traits) ==
  [name |-> n, type |-> type, bounds |-> bounds, default |-> default, traits |-> traits]
SchemaOf(props) ==
  [open |-> TRUE, required |-> FALSE, endless |-> FALSE, props |-> props]
MCTools ==
  {[name |-> n, description |-> <<>>, input |-> SchemaOf(<<>>), output |-> SchemaOf(o)] :
     n \in {<<"delete">>, <<"read", "file">>},
     o \in {<<>>, <<Property("path", "string", {}, "pipe", {})>>}}
MCProperties ==
  {Property("path", "string", {"format"}, "key", {}),
   Property("dots", NONE, {}, "drop", {"huge", "broad"}),
   Property("setup", "string", {}, "blob", {"command"})}
MCWords ==
  {"zero", "ignore", "padded", "hex", "hidden", "bridge", "write", "fetch", "read",
   "file", "key", "pipe", "pip", "setup", "dots", "prevents", "not"}

(* Names one of which reads like two others joined, and versions of which  *)
(* one cannot be compared.                                                 *)
MCNames == <<<<"a">>, <<"a", "b">>, <<"b">>>>
Look(ts, numbers, suffix, tls) ==
  [tools |-> ts, version |-> [numbers |-> numbers, rest |-> suffix], protocol |-> 1,
   capabilities |-> 1, tls |-> tls]
Tls(version) == [version |-> version, issuer |-> ""]
MCLooks ==
  {Look({<<"a">>, <<"b">>}, <<1, 2>>, "", NONE),
   Look({<<"a", "b">>}, <<1, 2>>, "", Tls("TLSv1.2")),
   Look({<<"a">>}, <<1, 2, 0>>, "", Tls("TLSv1.2")),
   Look({<<"a">>}, <<1>>, "rc", Tls("error")),
   Look({<<"a">>, <<"b">>}, <<2>>, "", Tls("TLSv1.3"))}

(* Endpoints of every transport, and what authorization servers tell.      *)
At(transport, scheme, path, session, stateless) ==
  [transport |-> transport, scheme |-> scheme, path |-> path, session |-> session,
   stateless |-> stateless]
MCTargets ==
  {At("stdio", "other", FALSE, FALSE, FALSE), At("http", "https", TRUE, FALSE, FALSE),
   At("http", "http", FALSE, FALSE, TRUE), At("sse", "sse", TRUE, TRUE, TRUE),
   At("sse", "https", TRUE, TRUE, FALSE)}
MCAuthServers ==
  {[iss |-> TRUE, pkce |-> TRUE], [iss |-> FALSE, pkce |-> TRUE], [iss |-> TRUE, pkce |-> NONE]}
MCResources == {[servers |-> <<>>], [servers |-> <<"as">>]}
MCHandshakes == [version : {"TLSv1.3"}, dated : BOOLEAN]

(* Projects: lockfiles and manifests, some that cannot be read, and two    *)
(* versions of one package of which one is vulnerable.                     *)
Dep(ecosystem, name, v) == [ecosystem |-> ecosystem, name |-> name, version |-> v]
A1 == Dep("npm", "a", 1)
A2 == Dep("npm", "a", 2)
B1 == Dep("npm", "b", 1)
C1 == Dep("PyPI", "c", 1)
Lists(name, ds) == [name |-> name, deps |-> ds]
MCProjects ==
  {<<>>,
   <<Lists("package-lock.json", <<A1, B1>>), Lists("package.json", <<A2>>)>>,
   <<Lists("package-lock.json", <<A1, A2>>)>>,
   <<Lists("package-lock.json", NONE), Lists("package.json", <<A2, B1>>),
     Lists("package.json", <<B1>>), Lists("pyproject.toml", <<C1>>),
     Lists("requirements.txt", <<C1>>)>>,
   <<Lists("yarn.lock", <<B1>>), Lists("package.json", <<A2>>),
     Lists("uv.lock", <<C1, C1>>), Lists("requirements.txt", NONE)>>,
   <<Lists("package-lock.json", <<A1>>), Lists("yarn.lock", <<B1>>),
     Lists("uv.lock", NONE), Lists("pyproject.toml", <<C1>>)>>}
MCVulns ==
  [d \in {A1, A2, B1, C1} |->
     CASE d = A1 -> {"g1"} [] d = B1 -> {"g1", "g2"} [] OTHER -> {}]
MCScored == [g1 |-> "high", g2 |-> "low"]

(* Schemas whose defaults are forbidden, long or nested.                   *)
Leaf(x) == [p \in {<<>>} |-> x]
Nested(kind, at) ==
  [p \in {<<>>} \cup UNION {{<<k>> \o q : q \in DOMAIN at[k]} : k \in DOMAIN at} |->
     IF p = <<>> THEN kind ELSE at[Head(p)][Tail(p)]]
Bad == Leaf("forbidden")
Fair == Leaf("fine")
List(item) == Nested("list", [i \in {"0"} |-> item])
Dict(v) == Nested("dict", [k |-> v])
MCDefaults ==
  {NONE, Bad, Leaf("long"), Leaf("atom"), List(List(Bad)), List(List(List(Bad))),
   Dict(Bad), Dict(List(Dict(Leaf("atom")))), Dict(Dict(Fair)),
   Dict(Dict(Leaf("list"))), List(Dict(Bad))}
Param(required, type, default, items) ==
  [required |-> required, type |-> type, default |-> default, items |-> items]
MCParams ==
  {Param(TRUE, "string", d, NONE) : d \in MCDefaults}
  \cup {Param(r, "array", NONE, i) : r \in BOOLEAN, i \in {NONE, Bad}}
  \cup {Param(TRUE, t, NONE, NONE) : t \in {"number", "object"}}
MCSchemas ==
  {<<>>} \cup {[p |-> x] : x \in MCParams}
  \cup {[p |-> Param(TRUE, "string", Bad, NONE), q |-> x] : x \in MCParams}
MCAnswers == {{}, {"secret", "url"}, {"injection", "script"}}
=============================================================================

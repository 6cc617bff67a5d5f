------------------------------ MODULE Endpoint ------------------------------
(***************************************************************************)
(* What a scan says of the address it scanned, once the session is open:   *)
(* whether its authorization server meets the specification (R112,         *)
(* probe/oauth.py and check_server_auth of scanner/rules.py) and, after    *)
(* the session, how it is encrypted (R111, fingerprint/transport_check.py).*)
(*                                                                         *)
(* Each request may be answered or not, whatever came before; a document   *)
(* is what the code reads of it.                                           *)
(***************************************************************************)
EXTENDS Integers, Sequences, SequencesExt, FiniteSets

CONSTANTS
  Targets,     \* records: transport, scheme, whether the address has a path,
               \* a session id, and the 2026-07-28 profile
  Resources,   \* protected-resource documents: the authorization servers named
  AuthServers,     \* authorization-server documents: iss, pkce, each TRUE, FALSE
               \* or NONE where the document does not say
  Handshakes,  \* what a TLS handshake that verified may tell: its version, and
               \* whether the certificate's date is read as not yet over
  NONE

(* The transport check's answers when there is no handshake, or none that  *)
(* succeeds.                                                               *)
Plain == [version |-> "plain", dated |-> FALSE]
Failed == [version |-> "error", dated |-> FALSE]

EndpointAssumption ==
  /\ NONE \notin Resources \cup AuthServers \cup Handshakes \cup {Plain, Failed}
  /\ \A t \in Targets : t.transport \in {"http", "sse", "stdio"}
  /\ \A h \in Handshakes : h.version \notin {"plain", "error"} /\ h.dated \in BOOLEAN

VARIABLES
  pc,
  target,
  floor,       \* min_severity
  tries,       \* requests made in this step of the discovery
  resource,    \* the protected-resource document, NONE while none is known
  server,      \* the authorization-server document that was read
  tlsInfo,     \* what the transport check saw, NONE over stdio
  findings
vars == <<pc, target, floor, tries, resource, server, tlsInfo, findings>>

Severities == <<"low", "medium", "high", "critical">>
Rank(severity) == CHOOSE i \in DOMAIN Severities : Severities[i] = severity

Finding(rule, severity, what) == [rule |-> rule, severity |-> severity, what |-> what]
Report(set) == findings' = findings \cup {f \in set : Rank(f.severity) >= Rank(floor)}

-----------------------------------------------------------------------------
Init ==
  /\ pc = "probe"
  /\ target \in Targets
  /\ floor \in {Severities[i] : i \in DOMAIN Severities}
  /\ tries = 0
  /\ resource = NONE
  /\ server = NONE
  /\ tlsInfo = NONE
  /\ findings = {}

(* _origin: what is not http, https or sse has no metadata to look for,    *)
(* and over stdio nothing is asked.                                        *)
HasOrigin == target.transport # "stdio" /\ target.scheme # "other"

NoDiscovery ==
  /\ pc = "probe" /\ ~HasOrigin
  /\ pc' = "judge"
  /\ UNCHANGED <<target, floor, tries, resource, server, tlsInfo, findings>>

(* _fetch_protected_resource: the well-known path, then the same with the  *)
(* path of the resource, then a challenge of the resource itself.          *)
Candidates == IF target.path THEN 2 ELSE 1

AskResource ==
  /\ pc = "probe" /\ HasOrigin /\ tries < Candidates
  /\ \/ \E doc \in Resources : resource' = doc /\ pc' = "metadata" /\ tries' = 0
     \/ tries' = tries + 1 /\ UNCHANGED <<pc, resource>>
  /\ UNCHANGED <<target, floor, server, tlsInfo, findings>>

AskChallenge ==
  /\ pc = "probe" /\ HasOrigin /\ tries = Candidates
  /\ \/ resource' = [servers |-> <<>>] /\ pc' = "metadata" \* 401, Bearer
     \/ pc' = "judge" /\ UNCHANGED resource
  /\ tries' = 0
  /\ UNCHANGED <<target, floor, server, tlsInfo, findings>>

(* _fetch_as_metadata: of the first server named, at two places.           *)
(* Faulty variant: a server that does not answer is taken for one whose    *)
(* document says nothing.                                                  *)
AskServerOrNothing ==
  /\ pc = "metadata"
  /\ IF resource.servers = <<>>
     THEN pc' = "judge" /\ UNCHANGED <<tries, server>>
     ELSE \/ \E doc \in AuthServers : server' = doc /\ pc' = "judge" /\ UNCHANGED tries
          \/ /\ tries' = tries + 1
             /\ IF tries' = 2 THEN pc' = "judge" /\ server' = [iss |-> NONE, pkce |-> NONE]
                ELSE UNCHANGED <<pc, server>>
  /\ UNCHANGED <<target, floor, resource, tlsInfo, findings>>

AskServer ==
  /\ pc = "metadata"
  /\ IF resource.servers = <<>>
     THEN pc' = "judge" /\ UNCHANGED <<tries, server>>
     ELSE \/ \E doc \in AuthServers : server' = doc /\ pc' = "judge" /\ UNCHANGED tries
          \/ /\ tries' = tries + 1
             /\ pc' = IF tries' = 2 THEN "judge" ELSE pc
             /\ UNCHANGED server
  /\ UNCHANGED <<target, floor, resource, tlsInfo, findings>>

(* check_server_auth: what could not be determined is no finding; what a   *)
(* document that was read leaves out counts as missing.                    *)
AuthFindings ==
  {Finding("R112", "high", x) :
     x \in {y \in {"iss", "pkce"} : server # NONE /\ server[y] # TRUE}}
  \cup (IF target.session /\ target.stateless
        THEN {Finding("R112", "medium", "session")} ELSE {})

Judge ==
  /\ pc = "judge"
  /\ Report(AuthFindings)
  /\ pc' = "transport"
  /\ UNCHANGED <<target, floor, tries, resource, server, tlsInfo>>

(* TransportChecker.check. An address of scheme sse is taken for http. The *)
(* handshake verifies the certificate, so that one which is not trusted or *)
(* of another host, or an old version of TLS, is an error; the date is     *)
(* then read once more, in local time. _cert_name wants lists where the    *)
(* ssl module gives tuples: issuer and subject are always "", and no       *)
(* certificate counts as self-signed.                                      *)
Checked ==
  IF target.transport = "stdio" THEN {NONE}
  ELSE IF target.scheme = "https" THEN Handshakes \cup {Failed} ELSE {Plain}

(* generate_findings                                                       *)
Flaws(info) ==
  IF info.version \in {"plain", "error"} THEN {info.version}
  ELSE IF info.dated THEN {} ELSE {"expired"}

TransportFindings(info, hsts) ==
  IF info = NONE THEN {}
  ELSE {Finding("R111", "high", x) : x \in Flaws(info)}
       \cup (IF hsts \/ info.version \in {"plain", "error"} THEN {}
             ELSE {Finding("R111", "medium", "hsts")})

CheckTransport ==
  /\ pc = "transport"
  /\ tlsInfo' \in Checked
  /\ \E hsts \in BOOLEAN : Report(TransportFindings(tlsInfo', hsts))
  /\ pc' = "done"
  /\ UNCHANGED <<target, floor, tries, resource, server>>

Next ==
  \/ NoDiscovery \/ AskResource \/ AskChallenge \/ AskServer \/ Judge \/ CheckTransport

Spec == Init /\ [][Next]_vars

-----------------------------------------------------------------------------
(* Unless the user's floor leaves out what is high, a finished scan holds  *)
(* against an authorization server exactly what a document of one it named *)
(* was read to lack: no answer, a challenge without metadata, or no        *)
(* authorization at all is silence (probe/oauth.py:83-161,                 *)
(* scanner/rules.py:888-1000). And then it finds the transport in order    *)
(* just when there is none (stdio), or when an https connection was made,  *)
(* verified, and its certificate read as still valid; neither a scheme     *)
(* without TLS nor a handshake that failed passes in silence               *)
(* (fingerprint/transport_check.py:24-120, 158-279). A floor of critical   *)
(* leaves all of that out (cli.py:182-187, scanner/engine.py:88, 137).     *)
Secure ==
  \/ target.transport = "stdio"
  \/ target.scheme = "https" /\ tlsInfo \in Handshakes /\ tlsInfo.dated

Documented ==
  pc = "done" =>
    LET about(rule) == {f.what : f \in {g \in findings : g.rule = rule}}
        lacking == {x \in {"iss", "pkce"} : server # NONE /\ server[x] # TRUE}
        heard == Rank("high") >= Rank(floor)
    IN /\ server # NONE =>
            server \in AuthServers /\ resource # NONE /\ resource.servers # <<>>
       /\ about("R112") \ {"session"} = (IF heard THEN lacking ELSE {})
       /\ about("R111") \subseteq {"hsts"} <=> ~heard \/ Secure
=============================================================================

------------------------------ MODULE Identity ------------------------------
(***************************************************************************)
(* The fingerprint commands (cli.py, fingerprint/fingerprinter.py, the     *)
(* fingerprints table of storage/store.py): `create` stores what a server  *)
(* looks like, `compare` tells what changed since.                         *)
(*                                                                         *)
(* Rows are kept under an id that hashes address, transport and tool names,*)
(* so a server that changes its tools gets a second row; the last one seen *)
(* is compared with. A name of a tool is the sequence of its parts between *)
(* commas, a version its numbers and what follows them.                    *)
(***************************************************************************)
EXTENDS Integers, Sequences, SequencesExt, FiniteSets

CONSTANTS
  Endpoints,   \* address and transport of a server
  Looks,       \* what a server may look like when it is scanned
  Names,       \* the tool names, in their order
  MaxTime,     \* bound on the fingerprints taken
  NONE

IdentityAssumption ==
  /\ MaxTime \in Nat /\ NONE \notin Looks
  /\ \A look \in Looks : look.version.numbers \in Seq(Int)

VARIABLES
  server,      \* what each endpoint looks like now
  rows,        \* the table
  now,
  answer,      \* what a compare just told: of which endpoint, which changes
  taken        \* history: what each endpoint looked like at its last create
vars == <<server, rows, now, answer, taken>>

(* sorted(names) joined by commas.                                         *)
Joined(tools) == FlattenSeq(SelectSeq(Names, LAMBDA n : n \in tools))

(* Fingerprinter.create. For a server over stdio there is no TLS.          *)
Fingerprint(e, look) ==
  [id |-> <<e, Joined(look.tools)>>, endpoint |-> e, version |-> look.version,
   protocol |-> look.protocol, capabilities |-> look.capabilities,
   names |-> Joined(look.tools), tls |-> look.tls, first |-> now, last |-> now]

(* Lists of numbers compare as in Python; what is no number cannot be.     *)
Numbered(version) == version.rest = "" /\ version.numbers # <<>>
Less(a, b) ==
  \/ IsStrictPrefix(a, b)
  \/ \E i \in DOMAIN a \cap DOMAIN b :
       a[i] < b[i] /\ \A j \in 1..(i - 1) : a[j] = b[j]
VersionChange(old, new) ==
  IF ~(Numbered(old) /\ Numbered(new)) THEN "minor_upgrade"
  ELSE IF Less(new.numbers, old.numbers) THEN "rollback"
  ELSE IF new.numbers[1] > old.numbers[1] THEN "major_upgrade" ELSE "minor_upgrade"

TlsOrder(version) ==
  CASE version = "TLSv1.3" -> 5 [] version = "TLSv1.2" -> 4
    [] version = "plain" -> 0 [] OTHER -> -1
TlsChanges(old, new) ==
  IF old = NONE \/ new = NONE \/ old = new THEN {}
  ELSE {IF TlsOrder(new.version) < TlsOrder(old.version) THEN "tls_downgrade"
        ELSE "tls_changed"}

(* Fingerprinter.compare, as the command prints it.                        *)
Changes(base, current) ==
  (IF base.version = current.version THEN {}
   ELSE {VersionChange(base.version, current.version)})
  \cup {f \in {"names", "protocol", "capabilities", "endpoint"} : base[f] # current[f]}
  \cup TlsChanges(base.tls, current.tls)

-----------------------------------------------------------------------------
Init ==
  /\ server \in [Endpoints -> Looks]
  /\ rows = {}
  /\ now = 0
  /\ answer = NONE
  /\ taken = [e \in Endpoints |-> NONE]

(* Faulty variant: a row that is there stays as it is.                     *)
SaveFingerprintIgnored(fp) == rows \cup {f \in {fp} : \A r \in rows : r.id # f.id}

(* Store.save_fingerprint: a row of the same id is replaced, with its      *)
(* first_seen.                                                             *)
SaveFingerprint(fp) == {r \in rows : r.id # fp.id} \cup {fp}

(* Store.load_fingerprint: the one last seen.                              *)
LoadFingerprint(e) ==
  LET its == {r \in rows : r.endpoint = e}
  IN IF its = {} THEN NONE ELSE CHOOSE r \in its : \A q \in its : q.last <= r.last

(* `fingerprint create`                                                    *)
Create(e) ==
  /\ now < MaxTime
  /\ now' = now + 1
  /\ rows' = SaveFingerprint(Fingerprint(e, server[e]))
  /\ taken' = [taken EXCEPT ![e] = server[e]]
  /\ answer' = NONE
  /\ UNCHANGED server

(* `fingerprint compare`; without a row it says so.                        *)
Compare(e) ==
  LET base == LoadFingerprint(e)
  IN /\ answer' = IF base = NONE THEN NONE
                  ELSE [endpoint |-> e,
                        changes |-> Changes(base, Fingerprint(e, server[e]))]
     /\ UNCHANGED <<server, rows, now, taken>>

(* A server changes.                                                       *)
Drift(e, look) ==
  /\ look # server[e]
  /\ server' = [server EXCEPT ![e] = look]
  /\ answer' = NONE
  /\ UNCHANGED <<rows, now, taken>>

Next ==
  \E e \in Endpoints :
    \/ Create(e)
    \/ Compare(e)
    \/ \E look \in Looks : Drift(e, look)

Spec == Init /\ [][Next]_vars

-----------------------------------------------------------------------------
(* Compare goes by the last create of that server, however often its tools *)
(* changed and changed back in between: it tells of nothing exactly when   *)
(* the server looks as it did then, and of a rollback when its version is  *)
(* numbered lower (cli.py:1715-1860, fingerprint/fingerprinter.py:45-98,   *)
(* storage/store.py:539-610). What two looks differ in only by where the   *)
(* commas stand in the names counts as the same.                           *)
Same(a, b) ==
  /\ Joined(a.tools) = Joined(b.tools)
  /\ a.version = b.version /\ a.protocol = b.protocol
  /\ a.capabilities = b.capabilities
  /\ a.tls = b.tls \/ NONE \in {a.tls, b.tls}

ComparesWithLast ==
  answer # NONE =>
    LET then == taken[answer.endpoint]
        is == server[answer.endpoint]
    IN /\ then # NONE
       /\ answer.changes = {} <=> Same(then, is)
       /\ /\ Numbered(then.version) /\ Numbered(is.version)
          /\ Less(is.version.numbers, then.version.numbers)
          => "rollback" \in answer.changes
=============================================================================

---------------------------- MODULE ScannerProofs ----------------------------
(***************************************************************************)
(* Theorems of Scanner, for any server, any page cap and any number of     *)
(* surfaces, items and probes.                                             *)
(***************************************************************************)
EXTENDS Scanner, SequenceTheorems, TLAPS

(* Nothing has been read before the session is open, and the report is     *)
(* judged only when every surface is closed.                               *)
PhaseInv ==
  /\ pc \in {"start", "connect"} => session = NONE /\ surface = Tools
  /\ pc \in {"probing", "done"} => surface = LastSurface + 1

(* On an honest surface the pages received are the first of its book, and  *)
(* the cursor asks for the next one.                                       *)
Follows(book) ==
  /\ cursor = Len(items)
  /\ Len(items) < Len(book)
  /\ \A n \in 1..Len(items) : items[n] = book[n]

ListInv == surface \in Surfaces \ server.lies => Follows(server.book[surface])

(* What the status of a closed surface stands for.                         *)
Closed(s) ==
  /\ status[s] # "pending"
  /\ status[s] \in {"partial", "failed"} /\ (s = Tools \/ SurfaceAdvertised(s)) => incomplete
  /\ status[s] = "unsupported" /\ s \notin server.lies => ~SurfaceSupported(s)

ClosedInv == \A s \in Surfaces : s < surface => Closed(s)

FindingInv ==
  pc \in {"probing", "done"} => \A s \in Surfaces : Flagged(s) \subseteq findings

ScanInv == TypeOK /\ PhaseInv /\ ListInv /\ CompleteMeansAll /\ ClosedInv /\ FindingInv

-----------------------------------------------------------------------------
USE ScannerAssumption DEF Surfaces, Tools

(* The book of a server is a sequence of pages for every surface.          *)
LEMMA Books ==
  ASSUME TypeOK, NEW s \in Surfaces
  PROVE  /\ server.book[s] \in Seq(Pages)
         /\ Len(server.book[s]) \in Nat \ {0}
<1>1. server.book \in [Surfaces -> Seq(Pages) \ {<<>>}]
  BY DEF TypeOK
<1>2. server.book[s] \in Seq(Pages) /\ server.book[s] # <<>>
  BY <1>1
<1> QED
  BY <1>2, EmptySeq

(* Every page a server answers with is a page; honestly, the next of its   *)
(* book, with the cursor of the one after it when there is one.            *)
LEMMA AnswersArePages ==
  ASSUME TypeOK, ListInv, surface \in Surfaces, NEW a \in Answers
  PROVE  /\ a.page \in Pages /\ a.next \in Nat
         /\ surface \notin server.lies =>
              LET book == server.book[surface] IN
              /\ a.page = book[Len(items) + 1]
              /\ a.next \notin {0, cursor} <=> Len(items) + 1 < Len(book)
              /\ a.next \notin {0, cursor} => a.next = Len(items) + 1
<1>1. Len(items) \in Nat
  BY DEF TypeOK
<1>2. CASE surface \in server.lies
  BY <1>2 DEF Answers
<1>3. CASE surface \notin server.lies
  <2> DEFINE book == server.book[surface]
  <2>1. book \in Seq(Pages) /\ Len(book) \in Nat
    BY Books
  <2>2. cursor = Len(items) /\ Len(items) + 1 \in 1..Len(book)
    BY <1>1, <1>3, <2>1 DEF ListInv, Follows
  <2>3. book[Len(items) + 1] \in Pages
    BY <2>1, <2>2, ElementOfSeq
  <2>4. /\ a.page = book[Len(items) + 1]
        /\ a.next = IF cursor + 1 < Len(book) THEN cursor + 1 ELSE 0
    BY <1>3, <2>2 DEF Answers
  <2> QED
    BY <1>1, <1>3, <2>1, <2>2, <2>3, <2>4
<1> QED
  BY <1>2, <1>3

-----------------------------------------------------------------------------
(* A step before the listing or after the analysis that reads nothing.     *)
LEMMA MoveStep ==
  ASSUME ScanInv, NEW to \in {"connect", "done", "raised"}, Move(to),
         to = "connect" => pc = "start",
         to = "done" => pc = "probing"
  PROVE  ScanInv'
<1> USE DEF ScanInv, Move, listing, kept, analysed
<1>1. TypeOK'
  BY DEF TypeOK
<1>2. PhaseInv' /\ ListInv' /\ CompleteMeansAll'
  BY DEF PhaseInv, ListInv, Follows, CompleteMeansAll
<1>3. ClosedInv'
  BY DEF ClosedInv, Closed, SurfaceAdvertised, SurfaceSupported
<1>4. FindingInv'
  BY DEF FindingInv, Flagged, Shown
<1> QED
  BY <1>1, <1>2, <1>3, <1>4

(* Opening a session: the first surface has been neither read nor closed.  *)
LEMMA OpenStep ==
  ASSUME ScanInv, NEW name \in {"stateless", "stateful"}, NEW announced \in SUBSET Capabilities,
         pc \in {"start", "connect"}, OpenSession(name, announced)
  PROVE  ScanInv'
<1> USE DEF ScanInv, OpenSession, listing, kept, analysed
<1>1. TypeOK'
  BY DEF TypeOK
<1>2. PhaseInv' /\ ListInv' /\ CompleteMeansAll' /\ FindingInv'
  BY DEF PhaseInv, ListInv, Follows, CompleteMeansAll, FindingInv
<1>3. ClosedInv'
  BY DEF ClosedInv, PhaseInv
<1> QED
  BY <1>1, <1>2, <1>3

(* Closing a surface: the next one starts from its first page.             *)
LEMMA CloseStep ==
  ASSUME ScanInv, pc = "listing", surface \in Surfaces,
         NEW state \in {"complete", "partial", "failed", "unsupported"},
         NEW pages \in Seq(Pages), NEW flag \in BOOLEAN,
         CloseSurface(state, pages, flag),
         surface \notin server.lies =>
           /\ state = "complete" => pages = server.book[surface]
           /\ state = "unsupported" => ~SurfaceSupported(surface),
         state \in {"partial", "failed"} /\ (surface = Tools \/ SurfaceAdvertised(surface)) => flag
  PROVE  ScanInv'
<1> USE DEF ScanInv, CloseSurface
<1>1. TypeOK'
  <2>1. <<>> \in Seq(Pages) /\ Len(<<>>) = 0
    OBVIOUS
  <2>2. incomplete' \in BOOLEAN
    BY DEF TypeOK
  <2>3. ASSUME NEW s \in Surfaces, s >= surface'
        PROVE collected'[s] = <<>> /\ status'[s] = "pending"
    <3>1. s # surface /\ s >= surface
      BY <2>3
    <3>2. collected[s] = <<>> /\ status[s] = "pending"
      BY <3>1 DEF TypeOK
    <3> QED
      BY <3>1, <3>2 DEF TypeOK
  <2>4. /\ collected' \in [Surfaces -> Seq(Pages)]
        /\ status' \in [Surfaces -> {"pending", "complete", "partial", "failed", "unsupported"}]
    BY DEF TypeOK
  <2>5. /\ items' \in Seq(Pages) /\ Len(items') < MaxPages /\ cursor' \in Nat
        /\ surface' \in 1..(LastSurface + 1)
    BY <2>1 DEF TypeOK
  <2>6. /\ UNCHANGED <<server, profile, pc, session, caps, tools, findings, clean, probed>>
    BY DEF analysed
  <2> HIDE DEF CloseSurface
  <2> QED
    BY <2>2, <2>3, <2>4, <2>5, <2>6 DEF TypeOK
<1>2. PhaseInv' /\ FindingInv'
  BY DEF PhaseInv, FindingInv
<1>3. ListInv'
  <2>1. ASSUME surface' \in Surfaces PROVE Len(server.book[surface']) \in Nat \ {0}
    BY <2>1, Books
  <2>2. items' = <<>> /\ cursor' = 0 /\ server' = server
    OBVIOUS
  <2> QED
    BY <2>1, <2>2 DEF ListInv, Follows
<1>4. /\ \A s \in Surfaces \ {surface} : collected'[s] = collected[s] /\ status'[s] = status[s]
      /\ collected'[surface] = pages /\ status'[surface] = state
  BY DEF TypeOK
<1>5. CompleteMeansAll'
  BY <1>4 DEF CompleteMeansAll
<1>6. ASSUME NEW s \in Surfaces, s < surface' PROVE Closed(s)'
  <2>1. incomplete' = (incomplete \/ flag) /\ caps' = caps /\ server' = server
    OBVIOUS
  <2>2. CASE s = surface
    BY <1>4, <2>1, <2>2 DEF Closed, SurfaceAdvertised, SurfaceSupported
  <2>3. CASE s # surface
    <3>1. Closed(s)
      BY <1>6, <2>3 DEF ClosedInv, TypeOK
    <3> QED
      BY <1>4, <2>1, <2>3, <3>1 DEF Closed, SurfaceAdvertised, SurfaceSupported
  <2> QED
    BY <2>2, <2>3
<1> QED
  BY <1>1, <1>2, <1>3, <1>5, <1>6 DEF ClosedInv

(* A page more: still within the book and still below the cap.             *)
LEMMA PageStep ==
  ASSUME ScanInv, ListPage
  PROVE  ScanInv'
<1>1. PICK a \in Answers :
        /\ a.next \notin {0, cursor}
        /\ Len(items) + 1 < MaxPages
        /\ items' = Append(items, a.page)
        /\ cursor' = a.next
  BY DEF ListPage
<1>2. /\ UNCHANGED <<server, profile, pc, session, caps, surface, kept, incomplete,
                     analysed, probed>>
      /\ surface \in Surfaces
  BY DEF ListPage, Asking
<1>3. /\ a.page \in Pages /\ a.next \in Nat
      /\ surface \notin server.lies =>
           /\ a.page = server.book[surface][Len(items) + 1]
           /\ Len(items) + 1 < Len(server.book[surface])
           /\ a.next = Len(items) + 1
  BY <1>1, <1>2, AnswersArePages DEF ScanInv
<1>4. items \in Seq(Pages) /\ Len(items) \in Nat
  BY DEF ScanInv, TypeOK
<1>5. /\ items' \in Seq(Pages) /\ Len(items') = Len(items) + 1
      /\ \A n \in 1..Len(items) : items'[n] = items[n]
      /\ items'[Len(items) + 1] = a.page
  BY <1>1, <1>3, <1>4, AppendProperties
<1>6. TypeOK'
  BY <1>1, <1>2, <1>3, <1>5 DEF ScanInv, TypeOK, kept, analysed
<1>7. ListInv'
  <2> SUFFICES ASSUME surface \notin server.lies PROVE Follows(server.book[surface])'
    BY <1>2 DEF ListInv
  <2>1. Follows(server.book[surface])
    BY <1>2 DEF ScanInv, ListInv
  <2>2. \A n \in 1..Len(items') : items'[n] = server.book[surface][n]
    BY <1>3, <1>4, <1>5, <2>1 DEF Follows
  <2> QED
    BY <1>1, <1>2, <1>3, <1>5, <2>2 DEF Follows
<1>8. PhaseInv' /\ CompleteMeansAll'
  BY <1>2 DEF ScanInv, PhaseInv, CompleteMeansAll, kept
<1>9. ClosedInv'
  BY <1>2 DEF ScanInv, ClosedInv, Closed, SurfaceAdvertised, SurfaceSupported, kept
<1>10. FindingInv'
  BY <1>2 DEF ScanInv, FindingInv, Flagged, Shown, kept, analysed
<1> QED
  BY <1>6, <1>7, <1>8, <1>9, <1>10 DEF ScanInv

(* The ways a surface is closed keep the promises of CloseStep: what is    *)
(* called complete is the whole book, what failed is flagged.              *)
LEMMA SurfaceStep ==
  ASSUME ScanInv, SkipSurface \/ LastPage \/ PageCap \/ NoList \/ ListFails
  PROVE  ScanInv'
<1> USE DEF Asking
<1>0. /\ pc = "listing" /\ surface \in Surfaces /\ TypeOK /\ ListInv
      /\ items \in Seq(Pages) /\ Len(items) \in Nat
      /\ <<>> \in Seq(Pages)
  <2>1. pc = "listing" /\ surface \in Surfaces
    BY DEF SkipSurface, LastPage, PageCap, NoList, ListFails
  <2>2. TypeOK /\ ListInv /\ items \in Seq(Pages) /\ Len(items) \in Nat
    BY DEF ScanInv, TypeOK
  <2> QED
    BY <2>1, <2>2
<1>1. CASE SkipSurface
  BY <1>0, <1>1, CloseStep DEF SkipSurface
<1>2. CASE LastPage
  <2>1. PICK a \in Answers :
          a.next \in {0, cursor} /\ CloseSurface("complete", Append(items, a.page), FALSE)
    BY <1>2 DEF LastPage
  <2> DEFINE pages == Append(items, a.page)
  <2>2. /\ a.page \in Pages
        /\ surface \notin server.lies =>
             /\ a.page = server.book[surface][Len(items) + 1]
             /\ ~(Len(items) + 1 < Len(server.book[surface]))
    BY <1>0, <2>1, AnswersArePages
  <2>3. /\ pages \in Seq(Pages) /\ Len(pages) = Len(items) + 1
        /\ \A n \in 1..Len(items) : pages[n] = items[n]
        /\ pages[Len(items) + 1] = a.page
    BY <1>0, <2>2, AppendProperties
  <2>4. surface \notin server.lies => pages = server.book[surface]
    <3> SUFFICES ASSUME surface \notin server.lies PROVE pages = server.book[surface]
      OBVIOUS
    <3> DEFINE book == server.book[surface]
    <3>1. Follows(book) /\ book \in Seq(Pages) /\ Len(book) \in Nat
      BY <1>0, Books DEF ListInv
    <3> HIDE DEF book, pages
    <3>2. Len(book) = Len(pages)
      BY <1>0, <2>2, <2>3, <3>1 DEF Follows, book
    <3>3. \A n \in 1..Len(pages) : pages[n] = book[n]
      BY <1>0, <2>2, <2>3, <3>1 DEF Follows, book
    <3> QED
      BY <2>3, <3>1, <3>2, <3>3, SeqEqual DEF book
  <2> HIDE DEF pages
  <2>5. CloseSurface("complete", pages, FALSE)
    BY <2>1 DEF pages
  <2> QED
    BY <1>0, <2>3, <2>4, <2>5, CloseStep
<1>3. CASE PageCap
  <2>1. PICK a \in Answers : CloseSurface("partial", Append(items, a.page), TRUE)
    BY <1>3 DEF PageCap
  <2>2. Append(items, a.page) \in Seq(Pages)
    BY <1>0, <2>1, AnswersArePages, AppendProperties
  <2> QED
    BY <1>0, <2>1, <2>2, CloseStep
<1>4. CASE NoList
  BY <1>0, <1>4, CloseStep DEF NoList
<1>5. CASE ListFails
  <2> DEFINE flag == surface = Tools \/ SurfaceAdvertised(surface)
  <2>1. PICK state \in {"partial", "failed"} : CloseSurface(state, items, flag)
    BY <1>5 DEF ListFails
  <2>2. flag \in BOOLEAN /\ (surface = Tools \/ SurfaceAdvertised(surface) => flag)
    BY DEF SurfaceAdvertised
  <2> HIDE DEF flag
  <2> QED
    BY <1>0, <2>1, <2>2, CloseStep
<1> QED
  BY <1>1, <1>2, <1>3, <1>4, <1>5

(* The analysis makes a finding of every flagged item that was kept.       *)
LEMMA AnalyzeStep ==
  ASSUME ScanInv, Analyze
  PROVE  ScanInv'
<1>1. /\ UNCHANGED <<server, profile, session, caps, surface, items, cursor, collected,
                     status, probed>>
      /\ pc' \in {"probing", "done"}
      /\ surface \in 1..(LastSurface + 1) /\ surface \notin Surfaces
  BY DEF Analyze, Listed, listing, kept, ScanInv, TypeOK
<1>2. findings' = SurfaceFindings \cup FlaggedInstructions
  BY DEF Analyze
<1>3. /\ tools' \in Seq(SUBSET Items) /\ clean' \subseteq Items
      /\ findings' \subseteq (Surfaces \cup {Instructions}) \X Items
  <2>1. \A s \in Surfaces : collected[s] \in Seq(Pages)
    BY DEF ScanInv, TypeOK
  <2>2. \A s \in Surfaces : \A n \in DOMAIN collected[s] : collected[s][n] \subseteq Items
    <3> SUFFICES ASSUME NEW s \in Surfaces, NEW n \in DOMAIN collected[s]
                 PROVE collected[s][n] \subseteq Items
      OBVIOUS
    <3>1. collected[s][n] \in Pages
      BY <2>1, LenProperties, ElementOfSeq
    <3> QED
      BY <3>1
  <2>3. \A s \in Surfaces : Shown(s) \subseteq Items
    BY <2>2 DEF Shown
  <2>4. \A s \in Surfaces : Flagged(s) \subseteq (Surfaces \cup {Instructions}) \X Items
    BY <2>3 DEF Flagged
  <2>5. FlaggedInstructions \subseteq (Surfaces \cup {Instructions}) \X Items
    BY DEF FlaggedInstructions
  <2>6. findings' \subseteq (Surfaces \cup {Instructions}) \X Items
    <3>1. SurfaceFindings \subseteq (Surfaces \cup {Instructions}) \X Items
      BY <2>4 DEF SurfaceFindings
    <3> QED
      BY <1>2, <2>5, <3>1
  <2>7. clean' \subseteq Items
    BY <2>3 DEF Analyze
  <2>8. tools' \in Seq(SUBSET Items)
    <3>1. DOMAIN collected[Tools] = 1..Len(collected[Tools]) /\ Len(collected[Tools]) \in Nat
      BY <2>1, LenProperties
    <3>2. tools' = [n \in DOMAIN collected[Tools] |->
                      {x \in collected[Tools][n] : Kind[x] # "invalid"}]
      BY DEF Analyze
    <3>3. \A n \in DOMAIN collected[Tools] :
             {x \in collected[Tools][n] : Kind[x] # "invalid"} \in SUBSET Items
      BY <2>2
    <3> QED
      BY <3>1, <3>2, <3>3
  <2> QED
    BY <2>6, <2>7, <2>8
<1>4. incomplete' \in BOOLEAN /\ (incomplete => incomplete')
  BY DEF Analyze, ScanInv, TypeOK
<1>5. TypeOK'
  BY <1>1, <1>3, <1>4 DEF ScanInv, TypeOK
<1>6. surface = LastSurface + 1
  BY <1>1
<1>7. PhaseInv' /\ ListInv' /\ CompleteMeansAll'
  BY <1>1, <1>6 DEF ScanInv, PhaseInv, ListInv, CompleteMeansAll
<1>8. ClosedInv'
  <2> SUFFICES ASSUME NEW s \in Surfaces, s < surface' PROVE Closed(s)'
    BY DEF ClosedInv
  <2>1. Closed(s)
    BY <1>1 DEF ScanInv, ClosedInv
  <2> QED
    BY <1>1, <1>4, <2>1 DEF Closed, SurfaceAdvertised, SurfaceSupported
<1>9. FindingInv'
  <2>1. \A s \in Surfaces : Flagged(s)' = Flagged(s)
    BY <1>1 DEF Flagged, Shown
  <2>2. \A s \in Surfaces : Flagged(s) \subseteq findings'
    BY <1>2 DEF SurfaceFindings
  <2> QED
    BY <2>1, <2>2 DEF FindingInv
<1> QED
  BY <1>5, <1>7, <1>8, <1>9 DEF ScanInv

(* Probing changes nothing of what was listed.                             *)
LEMMA ProbeStep ==
  ASSUME ScanInv, ProbeTool
  PROVE  ScanInv'
<1>1. /\ UNCHANGED <<server, profile, pc, session, caps, listing, kept, incomplete, analysed>>
      /\ probed' \subseteq Nat \X Items
  <2>1. \A c \in NextToProbe : c \in Nat \X Items
    <3>1. DOMAIN tools \subseteq Nat
      BY LenProperties DEF ScanInv, TypeOK
    <3> QED
      BY <3>1 DEF NextToProbe, ToProbe
  <2> QED
    BY <2>1 DEF ProbeTool, ScanInv, TypeOK
<1> USE DEF ScanInv, listing, kept, analysed
<1>2. TypeOK'
  BY <1>1 DEF TypeOK
<1>3. PhaseInv' /\ ListInv' /\ CompleteMeansAll'
  BY <1>1 DEF PhaseInv, ListInv, Follows, CompleteMeansAll
<1>4. ClosedInv'
  BY <1>1 DEF ClosedInv, Closed, SurfaceAdvertised, SurfaceSupported
<1>5. FindingInv'
  BY <1>1 DEF FindingInv, Flagged, Shown
<1> QED
  BY <1>2, <1>3, <1>4, <1>5

(* The inductive invariant of a scan.                                      *)
LEMMA ScanStep == ScanInv /\ [Next]_vars => ScanInv'
<1> SUFFICES ASSUME ScanInv, [Next]_vars PROVE ScanInv'
  OBVIOUS
<1>1. CASE Discover \/ Initialize
  <2>1. PICK name \in {"stateless", "stateful"}, announced \in SUBSET Capabilities :
          OpenSession(name, announced)
    BY <1>1 DEF Discover, Initialize, DumpedCapabilities, ScanInv, TypeOK
  <2>2. pc \in {"start", "connect"}
    BY <1>1 DEF Discover, Initialize
  <2> QED
    BY <2>1, <2>2, OpenStep
<1>2. CASE DiscoverUnsupported \/ DiscoverBroken \/ InitializeFails \/ AnalyzeRaises
             \/ ProbeRaises \/ ProbeEnd
  <2>1. PICK to \in {"connect", "done", "raised"} :
          /\ Move(to)
          /\ to = "connect" => pc = "start"
          /\ to = "done" => pc = "probing"
    BY <1>2 DEF DiscoverUnsupported, DiscoverBroken, InitializeFails, AnalyzeRaises,
      ProbeRaises, ProbeEnd
  <2> QED
    BY <2>1, MoveStep
<1>3. CASE SkipSurface \/ LastPage \/ PageCap \/ NoList \/ ListFails
  BY <1>3, SurfaceStep
<1>4. CASE ListPage
  BY <1>4, PageStep
<1>5. CASE Analyze
  BY <1>5, AnalyzeStep
<1>6. CASE ProbeTool
  BY <1>6, ProbeStep
<1>7. CASE UNCHANGED vars
  <2> USE <1>7 DEF vars, ScanInv
  <2>1. TypeOK'
    BY DEF TypeOK
  <2>2. PhaseInv' /\ ListInv' /\ CompleteMeansAll'
    BY DEF PhaseInv, ListInv, Follows, CompleteMeansAll
  <2>3. ClosedInv'
    BY DEF ClosedInv, Closed, SurfaceAdvertised, SurfaceSupported
  <2>4. FindingInv'
    BY DEF FindingInv, Flagged, Shown
  <2> QED
    BY <2>1, <2>2, <2>3, <2>4
<1> QED
  BY <1>1, <1>2, <1>3, <1>4, <1>5, <1>6, <1>7 DEF Next

(* It holds before the first request.                                      *)
LEMMA ScanInit == Init => ScanInv
<1> SUFFICES ASSUME Init PROVE ScanInv
  OBVIOUS
<1>1. <<>> \in Seq(Pages) /\ <<>> \in Seq(SUBSET Items) /\ Len(<<>>) = 0
  OBVIOUS
<1>2. TypeOK
  <2> USE DEF Init
  <2>1. /\ items \in Seq(Pages) /\ Len(items) < MaxPages
        /\ tools \in Seq(SUBSET Items)
        /\ collected \in [Surfaces -> Seq(Pages)]
    BY <1>1
  <2>2. /\ status \in [Surfaces -> {"pending", "complete", "partial", "failed", "unsupported"}]
        /\ \A s \in Surfaces : collected[s] = <<>> /\ status[s] = "pending"
    OBVIOUS
  <2>3. surface \in 1..(LastSurface + 1) /\ cursor \in Nat
    OBVIOUS
  <2> QED
    BY <2>1, <2>2, <2>3 DEF TypeOK
<1>3. ListInv
  <2>1. Len(server.book[Tools]) \in Nat \ {0}
    BY <1>2, Books
  <2> QED
    BY <1>1, <2>1 DEF Init, ListInv, Follows
<1>4. PhaseInv /\ CompleteMeansAll /\ ClosedInv /\ FindingInv
  BY DEF Init, PhaseInv, CompleteMeansAll, ClosedInv, FindingInv
<1> QED
  BY <1>2, <1>3, <1>4 DEF ScanInv

(* Every reachable state of a scan satisfies the inductive invariant.      *)
THEOREM ScanInvariant == Spec => []ScanInv
BY ScanInit, ScanStep, PTL DEF Spec

(* Type correctness of a scan, and no more than MaxPages - 1 pages of a    *)
(* surface in hand between two requests.                                   *)
THEOREM TypeCorrect == Spec => []TypeOK
BY ScanInvariant, PTL DEF ScanInv

(* A surface reported complete was read to its end, whatever the page cap. *)
THEOREM CompleteIsAll == Spec => []CompleteMeansAll
BY ScanInvariant, PTL DEF ScanInv

(* A report not marked incomplete misses no flagged item of an announced,  *)
(* honest surface.                                                         *)
THEOREM NothingMissed == Spec => []NothingMissedSilently
<1>1. ScanInv => NothingMissedSilently
  <2> SUFFICES ASSUME ScanInv, ~incomplete, pc \in {"probing", "done"},
                      NEW s \in Surfaces \ server.lies, Expected(s),
                      NEW n \in DOMAIN server.book[s], NEW x \in Items,
                      x \in server.book[s][n], Kind[x] = "flagged"
               PROVE <<s, x>> \in findings
    BY DEF NothingMissedSilently
  <2>1. Closed(s)
    BY DEF ScanInv, PhaseInv, ClosedInv
  <2>2. status[s] = "complete"
    BY <2>1 DEF Closed, Expected, ScanInv, TypeOK
  <2>3. collected[s] = server.book[s]
    BY <2>2 DEF ScanInv, CompleteMeansAll
  <2>4. <<s, x>> \in Flagged(s)
    BY <2>3 DEF Flagged, Shown
  <2> QED
    BY <2>4 DEF ScanInv, FindingInv
<1> QED
  BY <1>1, ScanInvariant, PTL

(* A report comes from one session: the fallback precedes all reading.     *)
THEOREM SessionIsOne == Spec => OneSession
<1>1. ScanInv /\ [Next]_vars => [session # NONE => session' = session]_vars
  <2> SUFFICES ASSUME ScanInv, Next, session # NONE PROVE session' = session
    OBVIOUS
  <2>1. pc \notin {"start", "connect"}
    BY DEF ScanInv, PhaseInv
  <2> QED
    BY <2>1 DEF Next, Discover, DiscoverUnsupported, DiscoverBroken, Initialize,
      InitializeFails, Move, SkipSurface, ListPage, LastPage, PageCap, NoList, ListFails,
      CloseSurface, Analyze, AnalyzeRaises, ProbeTool, ProbeRaises, ProbeEnd
<1> QED
  BY <1>1, ScanInvariant, PTL DEF Spec, OneSession
=============================================================================

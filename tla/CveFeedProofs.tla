---------------------------- MODULE CveFeedProofs ----------------------------
(***************************************************************************)
(* Proofs about the CVE feed, for any number of processes, keywords, pages *)
(* and entries.                                                            *)
(***************************************************************************)
EXTENDS CveFeed, TLAPS

States ==
  {"idle", "searching", "saving", "writing", "falling back", "seeding",
   "writing seeds", "answering"}

(* The page at <<k, i>> is asked for before the one at `at`.               *)
Before(k, i, at) == k < at[1] \/ (k = at[1] /\ i < at[2])
(* What those pages list has been collected in f.                          *)
Covered(at, f) ==
  \A k \in Keywords : \A i \in DOMAIN Nvd[k] : Before(k, i, at) =>
    \A c \in CVEs : Nvd[k][i][c] # 0 => f[c] # 0

(* Where one sync is: its step s, what it will save and has found, the     *)
(* page it is at, its attempt and pause, and whether it gave a request up. *)
Sound(s, fd, f, at, n, b, m) ==
  /\ s \in States /\ fd \in Feeds /\ f \in Feeds /\ m \in BOOLEAN
  /\ at \in (1..(Len(Nvd) + 1)) \X Nat
  /\ n \in 0..(Retries - 1) /\ b \in 0..MaxBackoff
  /\ s = "idle" => at = <<1, 1>>
  /\ s = "searching" /\ at[1] \in Keywords => at[2] \in 1..Len(Nvd[at[1]])
  /\ s = "searching" /\ ~m => Covered(at, f)
  /\ s \in {"saving", "writing", "answering"} /\ ~m =>
       \A c \in CVEs : Listed(c) => fd[c] # 0
  /\ s \in {"seeding", "writing seeds"} => m

SoundAt(p) ==
  Sound(pc[p], feed[p], found[p], place[p], attempt[p], backoff[p], missed[p])

Own(p) == <<pc[p], feed[p], found[p], place[p], attempt[p], backoff[p], missed[p]>>

ShapeInv ==
  /\ pc = [p \in Procs |-> pc[p]] /\ feed = [p \in Procs |-> feed[p]]
  /\ found = [p \in Procs |-> found[p]] /\ place = [p \in Procs |-> place[p]]
  /\ attempt = [p \in Procs |-> attempt[p]] /\ backoff = [p \in Procs |-> backoff[p]]
  /\ missed = [p \in Procs |-> missed[p]]

DiskInv ==
  /\ file \in Feeds \cup {NONE, TORN}
  /\ mixed \subseteq writing
  /\ writing = {p \in Procs : pc[p] \in {"writing", "writing seeds"}}

FeedInv == ShapeInv /\ DiskInv /\ \A p \in Procs : SoundAt(p)

-----------------------------------------------------------------------------
(* What the NVD lists, page by page.                                       *)
LEMMA NvdType ==
  ASSUME CveFeedAssumption
  PROVE  /\ Len(Nvd) \in Nat /\ Keywords = 1..Len(Nvd)
         /\ \A k \in Keywords : /\ Nvd[k] \in Seq(Feeds) /\ Nvd[k] # <<>>
                                /\ Len(Nvd[k]) \in Nat /\ Len(Nvd[k]) >= 1
                                /\ DOMAIN Nvd[k] = 1..Len(Nvd[k])
<1>1. Nvd \in Seq(Seq(Feeds)) /\ \A k \in Keywords : Nvd[k] # <<>>
  BY DEF CveFeedAssumption
<1>2. Len(Nvd) \in Nat /\ Keywords = 1..Len(Nvd)
  BY <1>1 DEF Keywords
<1>3. ASSUME NEW k \in Keywords
      PROVE  /\ Nvd[k] \in Seq(Feeds) /\ Nvd[k] # <<>>
             /\ Len(Nvd[k]) \in Nat /\ Len(Nvd[k]) >= 1
             /\ DOMAIN Nvd[k] = 1..Len(Nvd[k])
  <2>1. Nvd[k] \in Seq(Feeds) /\ Nvd[k] # <<>>
    BY <1>1, <1>2
  <2>2. \A s \in Seq(Feeds) : s # <<>> => Len(s) \in Nat /\ Len(s) >= 1 /\ DOMAIN s = 1..Len(s)
    OBVIOUS
  <2> QED
    BY <2>1, <2>2
<1> QED
  BY <1>2, <1>3

(* No page comes before the first.                                         *)
LEMMA NothingBefore ==
  ASSUME CveFeedAssumption, NEW f
  PROVE  Covered(<<1, 1>>, f)
<1>1. ASSUME NEW k \in Keywords, NEW i \in DOMAIN Nvd[k]
      PROVE  ~Before(k, i, <<1, 1>>)
  <2>1. k \in Nat /\ k >= 1 /\ i \in Nat /\ i >= 1
    BY NvdType
  <2> QED
    BY <2>1 DEF Before
<1> QED
  BY <1>1 DEF Covered

(* What has been collected stays, and the page just read is added.         *)
LEMMA CollectCovers ==
  ASSUME CveFeedAssumption, NEW k \in Keywords, NEW i \in 1..Len(Nvd[k]), NEW f \in Feeds,
         Covered(<<k, i>>, f)
  PROVE  /\ i < Len(Nvd[k]) => Covered(<<k, i + 1>>, Collect(f, Nvd[k][i]))
         /\ i = Len(Nvd[k]) => Covered(<<k + 1, 1>>, Collect(f, Nvd[k][i]))
<1> DEFINE g == Collect(f, Nvd[k][i])
<1>1. \A c \in CVEs : f[c] # 0 \/ Nvd[k][i][c] # 0 => g[c] # 0
  BY DEF Collect
<1>2. ASSUME NEW j \in Keywords, NEW n \in DOMAIN Nvd[j],
             Before(j, n, <<k, i>>) \/ (j = k /\ n = i),
             NEW c \in CVEs, Nvd[j][n][c] # 0
      PROVE  g[c] # 0
  <2>1. CASE Before(j, n, <<k, i>>)
    <3>1. f[c] # 0
      BY <1>2, <2>1 DEF Covered
    <3> QED
      BY <1>1, <3>1
  <2>2. CASE j = k /\ n = i
    BY <1>1, <1>2, <2>2
  <2> QED
    BY <1>2, <2>1, <2>2
<1>3. ASSUME NEW j \in Keywords, NEW n \in DOMAIN Nvd[j],
             \/ Before(j, n, <<k, i + 1>>)
             \/ i = Len(Nvd[k]) /\ Before(j, n, <<k + 1, 1>>)
      PROVE  Before(j, n, <<k, i>>) \/ (j = k /\ n = i)
  <2>1. /\ j \in Nat /\ n \in Nat /\ n >= 1 /\ n <= Len(Nvd[j]) /\ Len(Nvd[j]) \in Nat
        /\ k \in Nat /\ i \in Nat
    BY NvdType
  <2>2. CASE Before(j, n, <<k, i + 1>>)
    BY <2>1, <2>2 DEF Before
  <2>3. CASE i = Len(Nvd[k]) /\ Before(j, n, <<k + 1, 1>>)
    <3>1. j < k + 1 \/ (j = k + 1 /\ n < 1)
      BY <2>3 DEF Before
    <3>2. j < k \/ j = k
      BY <2>1, <3>1
    <3>3. j = k => n <= i
      BY <2>1, <2>3
    <3> QED
      BY <2>1, <3>2, <3>3 DEF Before
  <2> QED
    BY <1>3, <2>2, <2>3
<1>4. Covered(<<k, i + 1>>, g)
  <2> SUFFICES ASSUME NEW j \in Keywords, NEW n \in DOMAIN Nvd[j], Before(j, n, <<k, i + 1>>),
                      NEW c \in CVEs, Nvd[j][n][c] # 0
               PROVE  g[c] # 0
    BY DEF Covered
  <2> QED
    BY <1>2, <1>3
<1>5. ASSUME i = Len(Nvd[k]) PROVE Covered(<<k + 1, 1>>, g)
  <2> SUFFICES ASSUME NEW j \in Keywords, NEW n \in DOMAIN Nvd[j], Before(j, n, <<k + 1, 1>>),
                      NEW c \in CVEs, Nvd[j][n][c] # 0
               PROVE  g[c] # 0
    BY DEF Covered
  <2> QED
    BY <1>2, <1>3, <1>5
<1> QED
  BY <1>4, <1>5

(* After the last keyword everything has been collected.                   *)
LEMMA AllCovered ==
  ASSUME CveFeedAssumption, NEW at \in (1..(Len(Nvd) + 1)) \X Nat, at[1] \notin Keywords,
         NEW f, Covered(at, f), NEW c \in CVEs, Listed(c)
  PROVE  f[c] # 0
<1>1. PICK k \in Keywords : \E i \in DOMAIN Nvd[k] : Nvd[k][i][c] # 0
  BY DEF Listed
<1>2. PICK i \in DOMAIN Nvd[k] : Nvd[k][i][c] # 0
  BY <1>1
<1>3. k < at[1]
  BY NvdType
<1> QED
  BY <1>2, <1>3 DEF Covered, Before

(* A merge takes the later of two dates.                                   *)
LEMMA MergeGrows ==
  ASSUME NEW old \in Feeds, NEW new \in Feeds
  PROVE  /\ Merged(old, new) \in Feeds
         /\ \A c \in CVEs : /\ Merged(old, new)[c] >= old[c]
                            /\ new[c] # 0 => Merged(old, new)[c] # 0
BY DEF Merged, Feeds

(* The numbers a sync counts with.                                         *)
LEMMA LimitsAreNumbers ==
  ASSUME CveFeedAssumption
  PROVE  /\ Retries \in Nat /\ Retries >= 1 /\ MaxBackoff \in Nat
         /\ 0 \in 0..(Retries - 1) /\ 0 \in 0..MaxBackoff
         /\ <<1, 1>> \in (1..(Len(Nvd) + 1)) \X Nat
         /\ Seeds \in Feeds /\ Nothing \in Feeds
         /\ NONE \notin Feeds /\ TORN \notin Feeds
<1>1. Retries \in Nat /\ Retries >= 1 /\ MaxBackoff \in Nat
  BY DEF CveFeedAssumption
<1>2. Seeds \in Feeds /\ NONE \notin Feeds /\ TORN \notin Feeds
  BY DEF CveFeedAssumption
<1>3. Nothing \in Feeds
  BY DEF Nothing, Feeds
<1>4. <<1, 1>> \in (1..(Len(Nvd) + 1)) \X Nat
  BY NvdType
<1> QED
  BY <1>1, <1>2, <1>3, <1>4

(* The next keyword of a sync, which exists or is the end.                 *)
LEMMA NextPlace ==
  ASSUME CveFeedAssumption, NEW k \in Keywords
  PROVE  /\ <<k + 1, 1>> \in (1..(Len(Nvd) + 1)) \X Nat
         /\ k + 1 \in Keywords => 1 \in 1..Len(Nvd[k + 1])
BY NvdType

-----------------------------------------------------------------------------
(* An answer leaves a sync sound.                                          *)
LEMMA AnsweredSound ==
  ASSUME CveFeedAssumption, NEW fd, NEW f, NEW at, NEW n, NEW b, NEW m,
         Sound("searching", fd, f, at, n, b, m), at[1] \in Keywords
  PROVE  Sound("searching", fd, Collect(f, Nvd[at[1]][at[2]]),
               IF at[2] < Len(Nvd[at[1]]) THEN <<at[1], at[2] + 1>> ELSE <<at[1] + 1, 1>>,
               0, b, m)
<1> DEFINE k == at[1]
           i == at[2]
           g == Collect(f, Nvd[k][i])
           to == IF i < Len(Nvd[k]) THEN <<k, i + 1>> ELSE <<k + 1, 1>>
<1>1. /\ fd \in Feeds /\ f \in Feeds /\ m \in BOOLEAN /\ b \in 0..MaxBackoff
      /\ at \in (1..(Len(Nvd) + 1)) \X Nat
      /\ i \in 1..Len(Nvd[k]) /\ (~m => Covered(at, f))
  BY DEF Sound
<1>2. at = <<k, i>> /\ k \in Nat /\ i \in Nat
  BY <1>1
<1>3. g \in Feeds
  <2>1. Nvd[k][i] \in Feeds
    BY <1>1, NvdType
  <2> QED
    BY <1>1, <2>1 DEF Collect, Feeds
<1>4. ~m => Covered(to, g)
  <2>1. ASSUME ~m PROVE Covered(<<k, i>>, f)
    BY <1>1, <1>2, <2>1
  <2>2. i < Len(Nvd[k]) \/ i = Len(Nvd[k])
    BY <1>1, NvdType
  <2>3. Len(Nvd[k]) \in Nat
    BY NvdType
  <2> QED
    BY <1>1, <2>1, <2>2, <2>3, CollectCovers
<1>5. /\ to \in (1..(Len(Nvd) + 1)) \X Nat
      /\ to[1] \in Keywords => to[2] \in 1..Len(Nvd[to[1]])
  <2>1. CASE i < Len(Nvd[k])
    BY <1>1, <1>2, <2>1, NvdType
  <2>2. CASE ~(i < Len(Nvd[k]))
    BY <2>2, NextPlace
  <2> QED
    BY <2>1, <2>2
<1> QED
  BY <1>1, <1>3, <1>4, <1>5, LimitsAreNumbers DEF Sound, States

(* So does a failed attempt, of which there are fewer than Retries.        *)
LEMMA PauseSound ==
  ASSUME CveFeedAssumption, NEW fd, NEW f, NEW at, NEW n, NEW b, NEW m,
         Sound("searching", fd, f, at, n, b, m), n + 1 < Retries
  PROVE  Sound("searching", fd, f, at, n + 1, IF b < MaxBackoff THEN b + 1 ELSE b, m)
<1>1. n \in 0..(Retries - 1) /\ b \in 0..MaxBackoff
  BY DEF Sound
<1>2. n + 1 \in 0..(Retries - 1)
  BY <1>1, LimitsAreNumbers
<1>3. (IF b < MaxBackoff THEN b + 1 ELSE b) \in 0..MaxBackoff
  BY <1>1, LimitsAreNumbers
<1> QED
  BY <1>2, <1>3 DEF Sound

(* So does a request that is given up.                                     *)
LEMMA GiveUpSound ==
  ASSUME CveFeedAssumption, NEW fd, NEW f, NEW at, NEW n, NEW b, NEW m,
         Sound("searching", fd, f, at, n, b, m), at[1] \in Keywords
  PROVE  /\ Sound("searching", fd, f, <<at[1] + 1, 1>>, 0, b, TRUE)
         /\ Sound("searching", fd, f, <<at[1] + 1, 1>>, 0,
                  IF b < MaxBackoff THEN b + 1 ELSE b, TRUE)
<1>1. b \in 0..MaxBackoff /\ fd \in Feeds /\ f \in Feeds
  BY DEF Sound
<1>2. (IF b < MaxBackoff THEN b + 1 ELSE b) \in 0..MaxBackoff
  BY <1>1, LimitsAreNumbers
<1>3. /\ <<at[1] + 1, 1>> \in (1..(Len(Nvd) + 1)) \X Nat
      /\ at[1] + 1 \in Keywords => 1 \in 1..Len(Nvd[at[1] + 1])
  BY NextPlace
<1> QED
  BY <1>1, <1>2, <1>3, LimitsAreNumbers DEF Sound, States

(* So does a sync that is given up.                                        *)
LEMMA MalformedSound ==
  ASSUME CveFeedAssumption, NEW fd, NEW f, NEW at, NEW n, NEW b, NEW m,
         Sound("searching", fd, f, at, n, b, m)
  PROVE  Sound("searching", fd, Nothing, <<Len(Nvd) + 1, 1>>, 0, b, TRUE)
<1>1. b \in 0..MaxBackoff /\ fd \in Feeds
  BY DEF Sound
<1>2. <<Len(Nvd) + 1, 1>> \in (1..(Len(Nvd) + 1)) \X Nat /\ Len(Nvd) + 1 \notin Keywords
  BY NvdType
<1> QED
  BY <1>1, <1>2, LimitsAreNumbers DEF Sound, States

(* A merge after the last keyword has everything the NVD lists.            *)
LEMMA MergeSound ==
  ASSUME CveFeedAssumption, NEW fd, NEW f, NEW at, NEW n, NEW b, NEW m,
         Sound("searching", fd, f, at, n, b, m), at[1] \notin Keywords
  PROVE  Sound("saving", Merged(fd, f), Nothing, <<1, 1>>, n, 0, m)
<1>1. fd \in Feeds /\ f \in Feeds /\ at \in (1..(Len(Nvd) + 1)) \X Nat
      /\ (~m => Covered(at, f)) /\ m \in BOOLEAN /\ n \in 0..(Retries - 1)
  BY DEF Sound
<1>2. ASSUME ~m, NEW c \in CVEs, Listed(c) PROVE Merged(fd, f)[c] # 0
  <2>1. f[c] # 0
    BY <1>1, <1>2, AllCovered
  <2> QED
    BY <1>1, <2>1, MergeGrows
<1>3. Merged(fd, f) \in Feeds
  BY <1>1, MergeGrows
<1> QED
  BY <1>1, <1>2, <1>3, LimitsAreNumbers DEF Sound, States

-----------------------------------------------------------------------------
(* Every step of a process leaves the others alone.                        *)
LEMMA OwnStep ==
  ASSUME ShapeInv, NEW p \in Procs, Begin(p) \/ Work(p) \/ Crash(p)
  PROVE  ShapeInv' /\ \A q \in Procs \ {p} : Own(q)' = Own(q)
<1>1. CASE Begin(p)
  BY <1>1 DEF ShapeInv, Own, Begin, Goto, search
<1>2. CASE Answered(p) \/ Pause(p) \/ GiveUp(p) \/ Malformed(p) \/ Merge(p)
  BY <1>2 DEF ShapeInv, Own, Answered, Pause, GiveUp, Malformed, Merge, Goto
<1>3. CASE Open(p) \/ Write(p) \/ SaveFails(p) \/ OpenSeeds(p) \/ WriteSeeds(p)
  BY <1>3 DEF ShapeInv, Own, Open, Write, SaveFails, OpenSeeds, WriteSeeds, Goto, search
<1>4. CASE FallBack(p) \/ Answer(p) \/ Crash(p)
  BY <1>4 DEF ShapeInv, Own, FallBack, Answer, Crash, Fresh, Goto
<1> QED
  BY <1>1, <1>2, <1>3, <1>4 DEF Work

(* A command that ends leaves nothing for the next.                        *)
LEMMA FreshStep ==
  ASSUME CveFeedAssumption, ShapeInv, NEW p \in Procs, Goto(p, "idle"), Fresh(p)
  PROVE  SoundAt(p)'
<1>1. /\ pc'[p] = "idle" /\ feed'[p] = Nothing /\ found'[p] = Nothing
      /\ place'[p] = <<1, 1>> /\ attempt'[p] = 0 /\ backoff'[p] = 0 /\ missed'[p] = FALSE
  BY DEF Goto, Fresh, ShapeInv
<1>2. Sound("idle", Nothing, Nothing, <<1, 1>>, 0, 0, FALSE)
  BY LimitsAreNumbers DEF Sound, States
<1> QED
  BY <1>1, <1>2 DEF SoundAt

(* What a command reads is a feed.                                         *)
LEMMA StoredFeed ==
  ASSUME CveFeedAssumption, DiskInv, file # TORN
  PROVE  Stored \in Feeds
BY LimitsAreNumbers DEF Stored, DiskInv

(* Asking for pages leaves a sync sound.                                   *)
LEMMA SearchStep ==
  ASSUME CveFeedAssumption, FeedInv, NEW p \in Procs,
         Answered(p) \/ Pause(p) \/ GiveUp(p) \/ Malformed(p) \/ Merge(p)
  PROVE  SoundAt(p)'
<1>1. SoundAt(p) /\ ShapeInv
  BY DEF FeedInv
<1>2. pc[p] = "searching"
  BY DEF Answered, Pause, GiveUp, Malformed, Merge, Asking
<1>3. Sound("searching", feed[p], found[p], place[p], attempt[p], backoff[p], missed[p])
  BY <1>1, <1>2 DEF SoundAt
<1>4. CASE Answered(p)
  <2>1. /\ pc'[p] = "searching" /\ feed'[p] = feed[p] /\ attempt'[p] = 0
        /\ backoff'[p] = backoff[p] /\ missed'[p] = missed[p] /\ place[p][1] \in Keywords
        /\ found'[p] = Collect(found[p], Nvd[place[p][1]][place[p][2]])
        /\ place'[p] = IF place[p][2] < Len(Nvd[place[p][1]])
                       THEN <<place[p][1], place[p][2] + 1>> ELSE <<place[p][1] + 1, 1>>
    BY <1>1, <1>2, <1>4 DEF Answered, Asking, NextKeyword, Keyword, Page, ShapeInv
  <2> QED
    BY <1>3, <2>1, AnsweredSound DEF SoundAt
<1>5. CASE Pause(p)
  <2>1. /\ pc'[p] = "searching" /\ feed'[p] = feed[p] /\ found'[p] = found[p]
        /\ place'[p] = place[p] /\ missed'[p] = missed[p]
        /\ attempt'[p] = attempt[p] + 1 /\ attempt[p] + 1 < Retries
        /\ backoff'[p] = IF backoff[p] < MaxBackoff THEN backoff[p] + 1 ELSE backoff[p]
    BY <1>1, <1>2, <1>5 DEF Pause, ShapeInv
  <2> QED
    BY <1>3, <2>1, PauseSound DEF SoundAt
<1>6. CASE GiveUp(p)
  <2>1. /\ pc'[p] = "searching" /\ feed'[p] = feed[p] /\ found'[p] = found[p]
        /\ place'[p] = <<place[p][1] + 1, 1>> /\ missed'[p] = TRUE /\ attempt'[p] = 0
        /\ place[p][1] \in Keywords
        /\ \/ backoff'[p] = backoff[p]
           \/ backoff'[p] = IF backoff[p] < MaxBackoff THEN backoff[p] + 1 ELSE backoff[p]
    BY <1>1, <1>2, <1>6 DEF GiveUp, Asking, NextKeyword, Keyword, ShapeInv
  <2>2. /\ Sound("searching", feed[p], found[p], <<place[p][1] + 1, 1>>, 0, backoff[p], TRUE)
        /\ Sound("searching", feed[p], found[p], <<place[p][1] + 1, 1>>, 0,
                 IF backoff[p] < MaxBackoff THEN backoff[p] + 1 ELSE backoff[p], TRUE)
    BY <1>3, <2>1, GiveUpSound
  <2> QED
    BY <2>1, <2>2 DEF SoundAt
<1>7. CASE Malformed(p)
  <2>1. /\ pc'[p] = "searching" /\ feed'[p] = feed[p] /\ found'[p] = Nothing
        /\ place'[p] = <<Len(Nvd) + 1, 1>> /\ missed'[p] = TRUE /\ attempt'[p] = 0
        /\ backoff'[p] = backoff[p] /\ place[p][1] \in Keywords
    BY <1>1, <1>2, <1>7 DEF Malformed, Asking, Keyword, ShapeInv
  <2>2. Sound("searching", feed[p], Nothing, <<Len(Nvd) + 1, 1>>, 0, backoff[p], TRUE)
    BY <1>3, MalformedSound
  <2> QED
    BY <2>1, <2>2 DEF SoundAt
<1>8. CASE Merge(p)
  <2>1. /\ pc'[p] = "saving" /\ feed'[p] = Merged(feed[p], found[p]) /\ found'[p] = Nothing
        /\ place'[p] = <<1, 1>> /\ missed'[p] = missed[p] /\ attempt'[p] = attempt[p]
        /\ backoff'[p] = 0 /\ place[p][1] \notin Keywords
    BY <1>1, <1>8 DEF Merge, Goto, Keyword, ShapeInv
  <2> QED
    BY <1>3, <2>1, MergeSound DEF SoundAt
<1> QED
  BY <1>4, <1>5, <1>6, <1>7, <1>8

(* Beginning, saving and falling back leave a sync sound.                  *)
LEMMA SaveStep ==
  ASSUME CveFeedAssumption, FeedInv, NEW p \in Procs,
         \/ Begin(p) \/ Open(p) \/ Write(p) \/ SaveFails(p)
         \/ FallBack(p) \/ OpenSeeds(p) \/ WriteSeeds(p)
  PROVE  SoundAt(p)'
<1>1. SoundAt(p) /\ ShapeInv /\ DiskInv
  BY DEF FeedInv
<1> DEFINE Same == /\ found'[p] = found[p] /\ place'[p] = place[p]
                   /\ attempt'[p] = attempt[p] /\ backoff'[p] = backoff[p]
<1>2. CASE Begin(p)
  <2>1. /\ Same /\ missed'[p] = missed[p] /\ pc[p] = "idle"
        /\ \/ pc'[p] = "falling back" /\ feed'[p] = feed[p]
           \/ pc'[p] = "searching" /\ feed'[p] = Stored /\ file # TORN
    BY <1>1, <1>2 DEF Begin, Goto, search, ShapeInv
  <2>2. place[p] = <<1, 1>>
    BY <1>1, <2>1 DEF SoundAt, Sound
  <2>3. feed'[p] \in Feeds
    BY <1>1, <2>1, StoredFeed DEF SoundAt, Sound
  <2>4. Covered(<<1, 1>>, found[p])
    BY NothingBefore
  <2>5. 1 \in Keywords => 1 \in 1..Len(Nvd[1])
    BY NvdType
  <2>6. \A fd \in Feeds : \A s \in {"searching", "falling back"} :
          Sound(s, fd, found[p], <<1, 1>>, attempt[p], backoff[p], missed[p])
    BY <1>1, <2>2, <2>4, <2>5 DEF SoundAt, Sound, States
  <2> QED
    BY <2>1, <2>2, <2>3, <2>6 DEF SoundAt
<1>3. CASE Open(p) \/ Write(p) \/ OpenSeeds(p) \/ WriteSeeds(p)
  <2>1. /\ Same /\ missed'[p] = missed[p] /\ feed'[p] = feed[p]
        /\ \/ pc[p] = "saving" /\ pc'[p] = "writing"
           \/ pc[p] = "writing" /\ pc'[p] = "answering"
           \/ pc[p] = "seeding" /\ pc'[p] = "writing seeds"
           \/ pc[p] = "writing seeds" /\ pc'[p] = "answering"
    BY <1>1, <1>3 DEF Open, Write, OpenSeeds, WriteSeeds, Goto, search, ShapeInv
  <2> QED
    BY <1>1, <2>1 DEF SoundAt, Sound, States
<1>4. CASE SaveFails(p)
  <2>1. Same /\ missed'[p] = missed[p] /\ feed'[p] = feed[p] /\ pc'[p] = "falling back"
    BY <1>1, <1>4 DEF SaveFails, Goto, search, ShapeInv
  <2> QED
    BY <1>1, <2>1 DEF SoundAt, Sound, States
<1>5. CASE FallBack(p) /\ file = TORN
  <2>1. Goto(p, "idle") /\ Fresh(p)
    BY <1>5 DEF FallBack
  <2> QED
    BY <1>1, <2>1, FreshStep
<1>6. CASE FallBack(p) /\ file # TORN
  <2>1. /\ Same /\ missed'[p] = TRUE /\ pc'[p] = "seeding"
        /\ feed'[p] = [c \in CVEs |-> IF Stored[c] # 0 THEN Stored[c] ELSE Seeds[c]]
    BY <1>1, <1>6 DEF FallBack, Goto, ShapeInv
  <2>2. Stored \in Feeds /\ Seeds \in Feeds
    BY <1>1, <1>6, StoredFeed, LimitsAreNumbers
  <2>3. feed'[p] \in Feeds
    BY <2>1, <2>2 DEF Feeds
  <2> QED
    BY <1>1, <2>1, <2>3 DEF SoundAt, Sound, States
<1> QED
  BY <1>2, <1>3, <1>4, <1>5, <1>6

(* Of the file: what is in it is a feed, unless a write was cut off.       *)
LEMMA DiskStep ==
  ASSUME CveFeedAssumption, FeedInv, NEW p \in Procs, Begin(p) \/ Work(p) \/ Crash(p)
  PROVE  DiskInv'
<1>1. ShapeInv /\ DiskInv /\ feed[p] \in Feeds
  BY DEF FeedInv, SoundAt, Sound
<1>2. \A q \in Procs \ {p} : pc'[q] = pc[q]
  BY <1>1, OwnStep DEF Own
<1>3. CASE Open(p) \/ OpenSeeds(p)
  <2>1. /\ pc[p] \in {"saving", "seeding"} /\ pc'[p] \in {"writing", "writing seeds"}
        /\ file' = TORN /\ writing' = writing \cup {p}
        /\ mixed' = IF writing = {} THEN {} ELSE writing \cup {p}
    BY <1>1, <1>3 DEF Open, OpenSeeds, Disk!Open, Goto, ShapeInv
  <2> QED
    BY <1>1, <1>2, <2>1 DEF DiskInv
<1>4. CASE Write(p) \/ WriteSeeds(p)
  <2>1. /\ pc'[p] = "answering"
        /\ file' \in {feed[p], TORN} /\ writing' = writing \ {p} /\ mixed' = mixed \ {p}
    BY <1>1, <1>4 DEF Write, WriteSeeds, Disk!Write, Goto, ShapeInv
  <2> QED
    BY <1>1, <1>2, <2>1 DEF DiskInv
<1>5. CASE SaveFails(p) \/ Crash(p)
  <2>1. /\ pc'[p] \in {"falling back", "idle"}
        /\ file' = file /\ writing' = writing \ {p} /\ mixed' = mixed \ {p}
    BY <1>1, <1>5 DEF SaveFails, Crash, Disk!Leave, Goto, ShapeInv
  <2> QED
    BY <1>1, <1>2, <2>1 DEF DiskInv
<1>6. CASE \/ Begin(p) \/ Answered(p) \/ Pause(p) \/ GiveUp(p) \/ Malformed(p)
           \/ Merge(p) \/ FallBack(p) \/ Answer(p)
  <2>1. disk' = disk
    BY <1>6 DEF Begin, Answered, Pause, GiveUp, Malformed, Merge, FallBack, Answer
  <2>2. /\ pc[p] \notin {"writing", "writing seeds"}
        /\ pc'[p] \notin {"writing", "writing seeds"}
    BY <1>1, <1>6 DEF Begin, Answered, Pause, GiveUp, Malformed, Merge, FallBack, Answer,
                      Asking, Goto, ShapeInv
  <2> QED
    BY <1>1, <1>2, <2>1, <2>2 DEF DiskInv, disk
<1> QED
  BY <1>3, <1>4, <1>5, <1>6 DEF Work

(* Every step keeps the invariant.                                         *)
LEMMA FeedStep ==
  ASSUME CveFeedAssumption, FeedInv, [Next]_vars
  PROVE  FeedInv'
<1>1. CASE UNCHANGED vars
  BY <1>1 DEF vars, FeedInv, ShapeInv, DiskInv, SoundAt
<1>2. ASSUME NEW p \in Procs, Begin(p) \/ Work(p) \/ Crash(p)
      PROVE  FeedInv'
  <2>1. ShapeInv' /\ \A q \in Procs \ {p} : Own(q)' = Own(q)
    BY <1>2, OwnStep DEF FeedInv
  <2>2. DiskInv'
    BY <1>2, DiskStep
  <2>3. SoundAt(p)'
    <3>1. CASE Answer(p) \/ Crash(p)
      BY <3>1, FreshStep DEF FeedInv, Answer, Crash
    <3> QED
      BY <1>2, <3>1, SearchStep, SaveStep DEF Work
  <2>4. ASSUME NEW q \in Procs \ {p} PROVE SoundAt(q)'
    BY <2>1 DEF FeedInv, SoundAt, Own
  <2> QED
    BY <2>1, <2>2, <2>3, <2>4 DEF FeedInv
<1> QED
  BY <1>1, <1>2 DEF Next

(* The file is never anything but a feed, missing, or cut off; a sync that *)
(* gave nothing up has collected every page it is past.                    *)
THEOREM FeedInvariant ==
  ASSUME CveFeedAssumption PROVE Spec => []FeedInv
<1>1. Init => FeedInv
  <2> SUFFICES ASSUME Init PROVE FeedInv
    OBVIOUS
  <2>1. ShapeInv /\ DiskInv
    BY DEF Init, ShapeInv, DiskInv
  <2>2. Sound("idle", Nothing, Nothing, <<1, 1>>, 0, 0, FALSE)
    BY LimitsAreNumbers DEF Sound, States
  <2>3. ASSUME NEW p \in Procs PROVE SoundAt(p)
    BY <2>2 DEF Init, SoundAt
  <2> QED
    BY <2>1, <2>3 DEF FeedInv
<1>2. FeedInv /\ [Next]_vars => FeedInv'
  BY FeedStep
<1> QED
  BY <1>1, <1>2, PTL DEF Spec

(* The type invariant: in particular no sync makes more than Retries       *)
(* attempts or pauses longer than 60 seconds.                              *)
THEOREM FeedTypes ==
  ASSUME CveFeedAssumption PROVE Spec => []TypeOK
<1>1. FeedInv => TypeOK
  BY DEF FeedInv, DiskInv, SoundAt, Sound, States, TypeOK
<1> QED
  BY <1>1, FeedInvariant, PTL

(* A sync in which no request was given up has asked for every page of     *)
(* every keyword, however the syncs interleave and whatever else failed.   *)
THEOREM SyncAsksForAll ==
  ASSUME CveFeedAssumption PROVE Spec => []SyncIsThorough
<1>1. FeedInv => SyncIsThorough
  BY DEF FeedInv, SoundAt, Sound, SyncIsThorough
<1> QED
  BY <1>1, FeedInvariant, PTL

-----------------------------------------------------------------------------
(* As long as no two syncs overlap there is one at most, and what it is    *)
(* about to save has what the file holds.                                  *)
Alone == \A p, q \in Procs : pc[p] # "idle" /\ pc[q] # "idle" => p = q
Carries(p) ==
  pc[p] \in {"searching", "saving", "seeding"} /\ file \in Feeds =>
    \A c \in CVEs : feed[p][c] >= file[c]
SoloInv == ~overlap => Alone /\ \A p \in Procs : Carries(p)

(* No command ends an overlap, and none begins beside another unseen.      *)
LEMMA AloneStep ==
  ASSUME FeedInv, SoloInv, ~overlap', NEW p \in Procs, Begin(p) \/ Work(p) \/ Crash(p)
  PROVE  /\ ~overlap /\ Alone'
         /\ \A q \in Procs \ {p} : pc[q] = "idle" /\ pc'[q] = "idle"
<1>1. ~overlap
  <2>1. CASE Begin(p) \/ SaveFails(p) \/ Crash(p)
    BY <2>1 DEF Begin, SaveFails, Crash
  <2>2. CASE Work(p) /\ ~SaveFails(p)
    BY <2>2 DEF Work, Answered, Pause, GiveUp, Malformed, Merge, Open, Write, FallBack,
                OpenSeeds, WriteSeeds, Answer
  <2> QED
    BY <2>1, <2>2
<1>2. \A q \in Procs \ {p} : pc'[q] = pc[q]
  BY OwnStep DEF FeedInv, Own
<1>3. \A q \in Procs \ {p} : pc[q] = "idle"
  <2>1. CASE Begin(p)
    BY <2>1 DEF Begin
  <2>2. CASE pc[p] # "idle"
    BY <1>1, <2>2 DEF SoloInv, Alone
  <2>3. Work(p) \/ Crash(p) => pc[p] # "idle"
    BY DEF Work, Answered, Pause, GiveUp, Malformed, Merge, Open, Write, SaveFails, FallBack,
           OpenSeeds, WriteSeeds, Answer, Crash, Asking
  <2> QED
    BY <2>1, <2>2, <2>3
<1> QED
  BY <1>1, <1>2, <1>3 DEF Alone

(* What a step leaves to be saved is no less than the file.                *)
LEMMA CarriesStep ==
  ASSUME CveFeedAssumption, FeedInv, SoloInv, ~overlap,
         NEW p \in Procs, Begin(p) \/ Work(p) \/ Crash(p)
  PROVE  Carries(p)'
<1>1. ShapeInv /\ DiskInv /\ feed[p] \in Feeds /\ found[p] \in Feeds /\ Carries(p)
  BY DEF FeedInv, SoundAt, Sound, SoloInv
<1>2. CASE Begin(p)
  <2>1. /\ file' = file
        /\ pc'[p] = "falling back" \/ (pc'[p] = "searching" /\ feed'[p] = Stored)
    BY <1>1, <1>2 DEF Begin, Goto, disk, ShapeInv
  <2>2. file \in Feeds => Stored = file
    BY LimitsAreNumbers DEF Stored
  <2>3. file \in Feeds => \A c \in CVEs : file[c] >= file[c]
    BY DEF Feeds
  <2> QED
    BY <2>1, <2>2, <2>3 DEF Carries
<1>3. CASE Answered(p) \/ Pause(p) \/ GiveUp(p) \/ Malformed(p)
  <2>1. file' = file /\ feed' = feed /\ pc' = pc
    BY <1>3 DEF Answered, Pause, GiveUp, Malformed, disk
  <2> QED
    BY <1>1, <2>1 DEF Carries
<1>4. CASE Merge(p)
  <2>1. file' = file /\ feed'[p] = Merged(feed[p], found[p]) /\ pc[p] = "searching"
    BY <1>1, <1>4 DEF Merge, disk, ShapeInv
  <2>2. \A c \in CVEs : feed'[p][c] >= feed[p][c]
    BY <1>1, <2>1, MergeGrows
  <2>3. feed'[p] \in Feeds
    BY <1>1, <2>1, MergeGrows
  <2>4. ASSUME file \in Feeds, NEW c \in CVEs
        PROVE  feed'[p][c] >= file[c]
    <3>1. feed[p][c] >= file[c] /\ feed'[p][c] >= feed[p][c]
      BY <1>1, <2>1, <2>2, <2>4 DEF Carries
    <3>2. feed[p][c] \in Nat /\ file[c] \in Nat /\ feed'[p][c] \in Nat
      BY <1>1, <2>3, <2>4 DEF Feeds
    <3> QED
      BY <3>1, <3>2
  <2> QED
    BY <2>1, <2>4 DEF Carries
<1>5. CASE FallBack(p) /\ file # TORN
  <2>1. /\ file' = file
        /\ feed'[p] = [c \in CVEs |-> IF Stored[c] # 0 THEN Stored[c] ELSE Seeds[c]]
    BY <1>1, <1>5 DEF FallBack, disk, ShapeInv
  <2>2. ASSUME file \in Feeds, NEW c \in CVEs
        PROVE  feed'[p][c] >= file[c]
    <3>1. Stored = file
      BY <2>2, LimitsAreNumbers DEF Stored
    <3>2. file[c] \in Nat /\ Seeds[c] \in Nat
      BY <2>2, LimitsAreNumbers DEF Feeds
    <3> QED
      BY <2>1, <3>1, <3>2
  <2> QED
    BY <2>1, <2>2 DEF Carries
<1>6. CASE \/ Open(p) \/ Write(p) \/ SaveFails(p) \/ (FallBack(p) /\ file = TORN)
           \/ OpenSeeds(p) \/ WriteSeeds(p) \/ Answer(p) \/ Crash(p)
  <2>1. pc'[p] \in {"writing", "answering", "falling back", "idle", "writing seeds"}
    BY <1>1, <1>6 DEF Open, Write, SaveFails, FallBack, OpenSeeds, WriteSeeds, Answer, Crash,
                      Goto, ShapeInv
  <2> QED
    BY <2>1 DEF Carries
<1> QED
  BY <1>2, <1>3, <1>4, <1>5, <1>6 DEF Work

(* Syncs that do not overlap lose no entry and put no older one in its     *)
(* place, whatever failed, timed out or was killed outside a write.        *)
THEOREM NothingForgotten ==
  ASSUME CveFeedAssumption PROVE Spec => []NeverForgets
<1>1. Init => SoloInv
  BY DEF Init, SoloInv, Alone, Carries
<1>2. FeedInv /\ SoloInv /\ [Next]_vars => SoloInv'
  <2> SUFFICES ASSUME FeedInv, SoloInv, [Next]_vars PROVE SoloInv'
    OBVIOUS
  <2>1. CASE UNCHANGED vars
    BY <2>1 DEF vars, SoloInv, Alone, Carries, Feeds
  <2>2. ASSUME NEW p \in Procs, Begin(p) \/ Work(p) \/ Crash(p), ~overlap'
        PROVE  Alone' /\ \A q \in Procs : Carries(q)'
    <3>1. /\ ~overlap /\ Alone'
          /\ \A q \in Procs \ {p} : pc[q] = "idle" /\ pc'[q] = "idle"
      BY <2>2, AloneStep
    <3>2. Carries(p)'
      BY <2>2, <3>1, CarriesStep
    <3>3. ASSUME NEW q \in Procs \ {p} PROVE Carries(q)'
      BY <3>1 DEF Carries
    <3> QED
      BY <3>1, <3>2, <3>3
  <2> QED
    BY <2>1, <2>2 DEF Next, SoloInv
<1>3. SoloInv => NeverForgets
  BY DEF SoloInv, Carries, NeverForgets
<1> QED
  BY <1>1, <1>2, <1>3, FeedInvariant, PTL DEF Spec
=============================================================================

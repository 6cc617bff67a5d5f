--------------------------- MODULE RegistryProofs ---------------------------
(***************************************************************************)
(* Theorems of RegistryClient, for any number of processes, any length of  *)
(* the registry, any time to live and any cursors.                         *)
(***************************************************************************)
EXTENDS RegistryClient, SequenceTheorems, TLAPS

(* How far a stamp can be from the walk it stands for.                     *)
Stamped(l) == l.at <= now /\ l.at - l.walked <= TTL * l.kept

StampInv ==
  /\ file \in Listings => Stamped(file)
  /\ \A p \in Procs : held[p] # NONE => Stamped(held[p])

(* What a process holds goes with where it is.                             *)
HeldInv ==
  \A p \in Procs :
    /\ pc[p] \in {"idle", "walking"} => held[p] = NONE
    /\ pc[p] \in {"saving", "writing"} => held[p] # NONE /\ max[p] = NONE

(* A walk of an honest registry has read the first pages, in order.        *)
WalkInv ==
  honest => \A p \in Procs :
    /\ cursor[p] = Len(pages[p]) /\ cursor[p] < LastPage
    /\ \A n \in 1..Len(pages[p]) : pages[p][n] = n

RegistryInv ==
  TypeOK /\ HeldInv /\ WalkInv /\ StampInv /\ AgeBounded /\ OnlyWholeWalks

-----------------------------------------------------------------------------
USE RegistryAssumption, NoListing
    DEF cache, walk, result, Goto, Take, ForgetWalk, Forget, Disk!Open, Disk!Write, Disk!Leave

LEMMA ReadType ==
  ASSUME TypeOK, NEW p \in Procs
  PROVE  /\ Read(p) \in Seq(Nat) /\ Len(Read(p)) = Len(pages[p]) + 1
         /\ \A n \in 1..Len(pages[p]) : Read(p)[n] = pages[p][n]
         /\ Read(p)[Len(pages[p]) + 1] = cursor[p] + 1
         /\ Nexts(p) \subseteq Cursors
  BY DEF TypeOK, Read, Nexts, Cursors

LEMMA RestampType ==
  ASSUME NEW l \in Listings, now \in Nat
  PROVE  /\ Restamped(l) \in Listings
         /\ Restamped(l).pages = l.pages /\ Restamped(l).walked = l.walked
         /\ Restamped(l).at = now
         /\ Restamped(l).kept = IF l.at = now THEN l.kept ELSE l.kept + 1
  BY DEF Restamped, Listings

(* A refresh that fails moves the stamp by at most one time to live.       *)
LEMMA RestampStep ==
  ASSUME NEW l \in Listings, now \in Nat, Stamped(l), now - l.at <= TTL
  PROVE  Stamped(Restamped(l)) /\ now - l.walked <= TTL * (Restamped(l).kept + 1)
<1>1. /\ l.at \in Nat /\ l.walked \in Nat /\ l.kept \in Nat
      /\ TTL * (l.kept + 1) = TTL * l.kept + TTL
      /\ TTL * (l.kept + 1 + 1) = TTL * l.kept + TTL + TTL
  BY DEF Listings
<1>2. TTL * l.kept \in Nat
  BY <1>1
<1> QED
  BY <1>1, <1>2, RestampType DEF Stamped

(* A listing taken from the cache before it expires.                       *)
LEMMA HitStep ==
  ASSUME NEW l \in Listings, now \in Nat, Stamped(l), now - l.at <= TTL
  PROVE  now - l.walked <= TTL * (l.kept + 1)
<1>1. /\ l.at \in Nat /\ l.walked \in Nat /\ l.kept \in Nat
      /\ TTL * (l.kept + 1) = TTL * l.kept + TTL
  BY DEF Listings
<1>2. TTL * l.kept \in Nat
  BY <1>1
<1> QED
  BY <1>1, <1>2 DEF Stamped

(* A stamp that was possible stays so while time passes.                   *)
LEMMA StampStays ==
  ASSUME NEW l \in Listings, now \in Nat, now' \in Nat, now <= now', Stamped(l)
  PROVE  l.at <= now' /\ l.at - l.walked <= TTL * l.kept
BY DEF Stamped, Listings

(* The listing of a walk that ends now.                                    *)
LEMMA FreshType ==
  ASSUME TypeOK, NEW p \in Procs, NEW l,
         l = [pages |-> Read(p), walked |-> now, at |-> now, kept |-> 0]
  PROVE  /\ l \in Listings /\ l.pages = Read(p) /\ Stamped(l)
         /\ now - l.walked <= TTL * (l.kept + 1)
<1>1. l \in Listings
  BY ReadType DEF Listings, TypeOK
<1>2. /\ l.pages = Read(p) /\ l.at = now /\ l.walked = now /\ l.kept = 0
      /\ now \in Nat /\ TTL * 0 = 0 /\ TTL * (0 + 1) = TTL
  BY DEF TypeOK
<1> QED
  BY <1>1, <1>2 DEF Stamped

-----------------------------------------------------------------------------
(* Nothing read, no cursor, no cache hit without a listing.                *)
LEMMA Blank ==
  /\ <<>> \in Seq(Nat) /\ 0 \in Cursors
  /\ \A p : CacheUsable(p) => file \in Listings
  BY DEF Cursors, CacheUsable

(* Every step keeps the types, in particular those of the cache file.      *)
LEMMA TypeStep == TypeOK /\ HeldInv /\ [Next]_vars => TypeOK'
<1> SUFFICES ASSUME TypeOK, HeldInv, [Next]_vars PROVE TypeOK'
  OBVIOUS
<1> USE DEF TypeOK, HeldInv
<1>1. CASE Tick
  BY <1>1 DEF Tick
<1>2. ASSUME NEW p \in Procs, NEW force \in BOOLEAN, NEW bound \in PageBounds \cup {NONE},
             List(p, force, bound)
      PROVE TypeOK'
  <2>1. CASE held' = held /\ taken' = taken
    BY <1>2, <2>1 DEF List
  <2>2. CASE file \in Listings /\ Take(p, file) /\ pc' = [pc EXCEPT ![p] = "answered"]
    BY <1>2, <2>2 DEF List
  <2> QED
    BY <1>2, <2>1, <2>2, Blank DEF List
<1>3. ASSUME NEW p \in Procs, NextPage(p) PROVE TypeOK'
  BY <1>3, ReadType DEF NextPage
<1>4. ASSUME NEW p \in Procs, LastPageRead(p) PROVE TypeOK'
  <2>1. [pages |-> Read(p), walked |-> now, at |-> now, kept |-> 0] \in Listings
    BY ReadType DEF Listings
  <2> QED
    BY <1>4, <2>1, Blank DEF LastPageRead
<1>5. ASSUME NEW p \in Procs, RequestFails(p) \/ RepeatedCursor(p) PROVE TypeOK'
  <2>1. WalkFails(p) /\ pc[p] = "walking"
    BY <1>5 DEF RequestFails, RepeatedCursor
  <2>2. file \in Listings => Restamped(file) \in Listings
    BY RestampType
  <2>3. /\ held' \in [Procs -> Listings \cup {NONE}] /\ taken' \in [Procs -> Nat]
        /\ pc' \in [Procs -> {"idle", "walking", "saving", "writing", "answered"}]
        /\ \A q \in Procs : pc'[q] = "writing" <=> pc[q] = "writing"
    <3>1. CASE ~CacheUsable(p)
      BY <2>1, <3>1 DEF WalkFails
    <3>2. CASE CacheUsable(p) /\ max[p] = NONE
      <4>1. /\ held' = [held EXCEPT ![p] = Restamped(file)]
            /\ taken' = [taken EXCEPT ![p] = now]
            /\ pc' = [pc EXCEPT ![p] = "saving"]
        BY <2>1, <3>2 DEF WalkFails
      <4> QED
        BY <2>1, <2>2, <3>2, <4>1, Blank
    <3>3. CASE CacheUsable(p) /\ max[p] # NONE
      <4>1. /\ held' = [held EXCEPT ![p] = file]
            /\ taken' = [taken EXCEPT ![p] = now]
            /\ pc' = [pc EXCEPT ![p] = "answered"]
        BY <2>1, <3>3 DEF WalkFails
      <4> QED
        BY <2>1, <3>3, <4>1, Blank
    <3> QED
      BY <3>1, <3>2, <3>3
  <2>4. /\ max' = max /\ pages' \in [Procs -> Seq(Nat)]
        /\ cursor' \in [Procs -> Cursors] /\ seen' \in [Procs -> SUBSET Cursors]
    BY <2>1, Blank DEF WalkFails
  <2>5. /\ now' = now /\ honest' = honest
        /\ file' = file /\ writing' = writing /\ mixed' = mixed
    BY <2>1 DEF WalkFails
  <2> QED
    BY <2>3, <2>4, <2>5
<1>6. ASSUME NEW p \in Procs, SaveOpen(p) PROVE TypeOK'
  BY <1>6 DEF SaveOpen
<1>7. ASSUME NEW p \in Procs, SaveWrite(p) PROVE TypeOK'
  BY <1>7 DEF SaveWrite
<1>8. ASSUME NEW p \in Procs, SaveFails(p) PROVE TypeOK'
  BY <1>8 DEF SaveFails
<1>9. ASSUME NEW p \in Procs, Return(p) \/ Crash(p) PROVE TypeOK'
  <2>1. Forget(p) /\ writing' = writing \ {p} /\ mixed' = mixed \ {p} /\ file' = file
    BY <1>9 DEF Return, Crash
  <2>2. /\ held' \in [Procs -> Listings \cup {NONE}] /\ taken' \in [Procs -> Nat]
        /\ pc' \in [Procs -> {"idle", "walking", "saving", "writing", "answered"}]
        /\ \A q \in Procs : pc'[q] = IF q = p THEN "idle" ELSE pc[q]
    BY <2>1
  <2> QED
    BY <2>1, <2>2, Blank
<1>10. CASE UNCHANGED vars
  BY <1>10 DEF vars
<1> QED
  BY <1>1, <1>2, <1>3, <1>4, <1>5, <1>6, <1>7, <1>8, <1>9, <1>10 DEF Next, Work

-----------------------------------------------------------------------------
(* Where a failed walk leaves the process: with the restamped cache, with  *)
(* the cache as it is, or with nothing.                                    *)
LEMMA Failing ==
  ASSUME TypeOK, HeldInv, NEW p \in Procs, RequestFails(p) \/ RepeatedCursor(p)
  PROVE  /\ \/ /\ CacheUsable(p) /\ max[p] = NONE
               /\ Take(p, Restamped(file)) /\ Goto(p, "saving")
            \/ /\ CacheUsable(p) /\ max[p] # NONE
               /\ Take(p, file) /\ Goto(p, "answered")
            \/ held' = held /\ taken' = taken /\ Goto(p, "answered")
         /\ pc[p] = "walking" /\ held[p] = NONE
         /\ ForgetWalk(p)
         /\ now' = now /\ honest' = honest /\ file' = file
<1>1. pc[p] = "walking" /\ WalkFails(p)
  BY DEF RequestFails, RepeatedCursor
<1>2. held[p] = NONE
  BY <1>1 DEF HeldInv
<1> QED
  BY <1>1, <1>2 DEF WalkFails

(* A process holds a listing from the time it has one to the answer.       *)
LEMMA HeldStep == TypeOK /\ HeldInv /\ [Next]_vars => HeldInv'
<1> SUFFICES ASSUME TypeOK, HeldInv, [Next]_vars, NEW q \in Procs
             PROVE  /\ pc'[q] \in {"idle", "walking"} => held'[q] = NONE
                    /\ pc'[q] \in {"saving", "writing"} => held'[q] # NONE /\ max'[q] = NONE
  BY DEF HeldInv
<1> USE DEF TypeOK, HeldInv
<1>1. CASE Tick
  BY <1>1 DEF Tick
<1>2. ASSUME NEW p \in Procs, NEW force \in BOOLEAN, NEW bound \in PageBounds \cup {NONE},
             List(p, force, bound)
      PROVE (HeldInv!(q))'
  BY <1>2 DEF List
<1>3. ASSUME NEW p \in Procs, NextPage(p) PROVE (HeldInv!(q))'
  BY <1>3 DEF NextPage
<1>4. ASSUME NEW p \in Procs, LastPageRead(p) PROVE (HeldInv!(q))'
  <2>1. [pages |-> Read(p), walked |-> now, at |-> now, kept |-> 0] # NONE
    BY FreshType
  <2> QED
    BY <1>4, <2>1 DEF LastPageRead
<1>5. ASSUME NEW p \in Procs, RequestFails(p) \/ RepeatedCursor(p) PROVE (HeldInv!(q))'
  <2>1. CacheUsable(p) => file \in Listings /\ Restamped(file) # NONE
    BY RestampType, Blank
  <2> QED
    BY <1>5, <2>1, Failing
<1>6. ASSUME NEW p \in Procs, SaveOpen(p) PROVE (HeldInv!(q))'
  BY <1>6 DEF SaveOpen
<1>7. ASSUME NEW p \in Procs, SaveWrite(p) \/ SaveFails(p) PROVE (HeldInv!(q))'
  BY <1>7 DEF SaveWrite, SaveFails
<1>8. ASSUME NEW p \in Procs, Return(p) \/ Crash(p) PROVE (HeldInv!(q))'
  BY <1>8 DEF Return, Crash
<1>9. CASE UNCHANGED vars
  BY <1>9 DEF vars
<1> QED
  BY <1>1, <1>2, <1>3, <1>4, <1>5, <1>6, <1>7, <1>8, <1>9 DEF Next, Work

LEMMA OneMore ==
  ASSUME NEW k \in Nat, NEW n \in 1..(k + 1)
  PROVE  n \in 1..k \/ n = k + 1
OBVIOUS

(* Against an honest registry the cursor counts the pages read.            *)
LEMMA WalkStep == TypeOK /\ HeldInv /\ WalkInv /\ [Next]_vars => WalkInv'
<1> SUFFICES ASSUME TypeOK, HeldInv, WalkInv, [Next]_vars, honest', NEW q \in Procs
             PROVE  /\ cursor'[q] = Len(pages'[q]) /\ cursor'[q] < LastPage
                    /\ \A n \in 1..Len(pages'[q]) : pages'[q][n] = n
  BY DEF WalkInv
<1> USE DEF TypeOK
<1>0. /\ honest
      /\ \A p \in Procs : /\ cursor[p] = Len(pages[p]) /\ cursor[p] < LastPage
                         /\ \A n \in 1..Len(pages[p]) : pages[p][n] = n
  <2>1. honest' = honest
    BY Failing DEF Next, Work, vars, Tick, List, NextPage, LastPageRead, SaveOpen, SaveWrite,
                   SaveFails, Return, Crash
  <2> QED
    BY <2>1 DEF WalkInv
<1>1. ASSUME NEW p \in Procs, NextPage(p)
      PROVE  /\ cursor'[q] = Len(pages'[q]) /\ cursor'[q] < LastPage
             /\ \A n \in 1..Len(pages'[q]) : pages'[q][n] = n
  <2>1. CASE q # p
    BY <1>0, <1>1, <2>1 DEF NextPage
  <2>2. CASE q = p
    <3>1. pages'[p] = Read(p)
      BY <1>1 DEF NextPage
    <3>2. cursor'[p] \in Nexts(p) \ {0}
      BY <1>1 DEF NextPage
    <3>3. cursor'[p] = cursor[p] + 1 /\ cursor[p] + 1 < LastPage
      BY <1>0, <3>2 DEF Nexts
    <3>4. /\ Len(Read(p)) = cursor[p] + 1 /\ cursor[p] \in Nat
          /\ \A n \in 1..cursor[p] : Read(p)[n] = n
          /\ Read(p)[cursor[p] + 1] = cursor[p] + 1
      <4>1. Len(pages[p]) = cursor[p] /\ \A n \in 1..Len(pages[p]) : pages[p][n] = n
        BY <1>0
      <4>2. /\ Len(Read(p)) = Len(pages[p]) + 1 /\ Len(pages[p]) \in Nat
            /\ \A n \in 1..Len(pages[p]) : Read(p)[n] = pages[p][n]
            /\ Read(p)[Len(pages[p]) + 1] = cursor[p] + 1
        BY ReadType
      <4> QED
        BY <4>1, <4>2
    <3>5. \A n \in 1..(cursor[p] + 1) : Read(p)[n] = n
      BY <3>4, OneMore
    <3> QED
      BY <2>2, <3>1, <3>3, <3>4, <3>5
  <2> QED
    BY <2>1, <2>2
<1>2. CASE pages'[q] = pages[q] /\ cursor'[q] = cursor[q]
  BY <1>0, <1>2
<1>3. CASE pages'[q] = <<>> /\ cursor'[q] = 0
  BY <1>3
<1>4. ASSUME NEW p \in Procs, ForgetWalk(p) \/ Forget(p)
      PROVE  \/ pages'[q] = pages[q] /\ cursor'[q] = cursor[q]
             \/ pages'[q] = <<>> /\ cursor'[q] = 0
  BY <1>4
<1>5. \/ \E p \in Procs : NextPage(p) \/ ForgetWalk(p) \/ Forget(p)
      \/ pages' = pages /\ cursor' = cursor
  <2> USE DEF List, LastPageRead, Tick, SaveOpen, SaveWrite, SaveFails, Return, Crash
  <2>1. CASE Tick \/ UNCHANGED vars
    BY <2>1 DEF vars
  <2>2. ASSUME NEW p \in Procs, RequestFails(p) \/ RepeatedCursor(p) PROVE ForgetWalk(p)
    BY <2>2 DEF RequestFails, RepeatedCursor, WalkFails
  <2> QED
    BY <2>1, <2>2 DEF Next, Work
<1> QED
  BY <1>1, <1>2, <1>3, <1>4, <1>5

(* Whatever is in the cache or held: what a step can put there.            *)
LEMMA FileStep ==
  TypeOK /\ HeldInv /\ [Next]_vars =>
    \/ file' = file
    \/ file' = TORN
    \/ \E p \in Procs : held[p] # NONE /\ max[p] = NONE /\ file' = held[p]
<1> SUFFICES ASSUME TypeOK, HeldInv, [Next]_vars
             PROVE  \/ file' = file
                    \/ file' = TORN
                    \/ \E p \in Procs : held[p] # NONE /\ max[p] = NONE /\ file' = held[p]
  OBVIOUS
<1>1. ASSUME NEW p \in Procs, SaveWrite(p)
      PROVE  \/ file' = TORN
             \/ held[p] # NONE /\ max[p] = NONE /\ file' = held[p]
  <2>1. pc[p] = "writing" /\ file' \in {held[p], TORN}
    BY <1>1 DEF SaveWrite
  <2>2. held[p] # NONE /\ max[p] = NONE
    BY <2>1 DEF HeldInv
  <2> QED
    BY <2>1, <2>2
<1>2. ASSUME NEW p \in Procs, RequestFails(p) \/ RepeatedCursor(p) PROVE file' = file
  BY <1>2, Failing
<1>3. ASSUME NEW p \in Procs, NEW force \in BOOLEAN, NEW bound \in PageBounds \cup {NONE},
             List(p, force, bound)
      PROVE file' = file
  BY <1>3 DEF List
<1>4. ASSUME NEW p \in Procs,
             NextPage(p) \/ LastPageRead(p) \/ SaveFails(p) \/ Return(p) \/ Crash(p)
      PROVE file' = file
  BY <1>4 DEF NextPage, LastPageRead, SaveFails, Return, Crash
<1>5. ASSUME NEW p \in Procs, SaveOpen(p) PROVE file' = TORN
  BY <1>5 DEF SaveOpen
<1>6. CASE Tick \/ UNCHANGED vars
  BY <1>6 DEF Tick, vars
<1> QED
  BY <1>1, <1>2, <1>3, <1>4, <1>5, <1>6 DEF Next, Work

LEMMA TakeStep ==
  ASSUME TypeOK, HeldInv, [Next]_vars, NEW q \in Procs, held'[q] # NONE
  PROVE  /\ \/ held'[q] = held[q] /\ taken'[q] = taken[q] /\ max'[q] = max[q]
            \/ /\ taken'[q] = now
               /\ now' = now
               /\ \/ CacheUsable(q) /\ held'[q] \in {file, Restamped(file)}
                  \/ /\ LastPageRead(q) /\ max'[q] = max[q]
                     /\ held'[q] = [pages |-> Read(q), walked |-> now, at |-> now, kept |-> 0]
<1> USE DEF TypeOK
<1> DEFINE Same == held'[q] = held[q] /\ taken'[q] = taken[q] /\ max'[q] = max[q]
           New == /\ taken'[q] = now
                  /\ now' = now
                  /\ \/ CacheUsable(q) /\ held'[q] \in {file, Restamped(file)}
                     \/ /\ LastPageRead(q) /\ max'[q] = max[q]
                        /\ held'[q] = [pages |-> Read(q), walked |-> now, at |-> now, kept |-> 0]
<1>1. ASSUME NEW p \in Procs, NEW force \in BOOLEAN, NEW bound \in PageBounds \cup {NONE},
             List(p, force, bound)
      PROVE Same \/ New
  <2>1. held[p] = NONE
    BY <1>1 DEF List, HeldInv
  <2>2. CASE p # q
    BY <1>1, <2>2 DEF List
  <2>3. CASE p = q
    BY <1>1, <2>1, <2>3 DEF List
  <2> QED
    BY <2>2, <2>3
<1>2. ASSUME NEW p \in Procs, LastPageRead(p) PROVE Same \/ New
  <2>1. /\ held' = [held EXCEPT ![p] = [pages |-> Read(p), walked |-> now, at |-> now, kept |-> 0]]
        /\ taken' = [taken EXCEPT ![p] = now] /\ now' = now /\ max' = max
    BY <1>2 DEF LastPageRead
  <2> QED
    BY <1>2, <2>1
<1>3. ASSUME NEW p \in Procs, RequestFails(p) \/ RepeatedCursor(p) PROVE Same \/ New
  <2>1. max' = max /\ now' = now
    BY <1>3, Failing
  <2>2. CASE held' = held /\ taken' = taken
    BY <2>1, <2>2
  <2>3. CASE CacheUsable(p) /\ (Take(p, Restamped(file)) \/ Take(p, file))
    <3>1. CacheUsable(p) => CacheUsable(q)
      BY DEF CacheUsable
    <3> QED
      BY <2>1, <2>3, <3>1
  <2> QED
    BY <1>3, <2>2, <2>3, Failing
<1>4. ASSUME NEW p \in Procs, Return(p) \/ Crash(p) PROVE Same
  BY <1>4 DEF Return, Crash
<1>5. ASSUME NEW p \in Procs, SaveOpen(p) \/ SaveWrite(p) \/ SaveFails(p) \/ NextPage(p) PROVE Same
  BY <1>5 DEF SaveOpen, SaveWrite, SaveFails, NextPage
<1>6. CASE Tick \/ UNCHANGED vars
  BY <1>6 DEF Tick, vars
<1> QED
  BY <1>1, <1>2, <1>3, <1>4, <1>5, <1>6 DEF Next, Work

-----------------------------------------------------------------------------
LEMMA NowStep == TypeOK /\ HeldInv /\ [Next]_vars => now <= now' /\ now' \in Nat
<1> SUFFICES ASSUME TypeOK, HeldInv, [Next]_vars PROVE now' = now \/ now' = now + 1
  BY DEF TypeOK
<1>1. ASSUME NEW p \in Procs, RequestFails(p) \/ RepeatedCursor(p) PROVE now' = now
  BY <1>1, Failing
<1> QED
  BY <1>1 DEF Next, Work, vars, Tick, List, NextPage, LastPageRead, SaveOpen, SaveWrite, SaveFails,
              Return, Crash

(* A stamp never drifts further than the failed refreshes account for.     *)
LEMMA StampStep == TypeOK /\ HeldInv /\ StampInv /\ [Next]_vars => StampInv'
<1> SUFFICES ASSUME TypeOK, HeldInv, StampInv, [Next]_vars PROVE StampInv'
  OBVIOUS
<1> DEFINE Later(l) == l.at <= now' /\ l.at - l.walked <= TTL * l.kept
<1>1. \A l \in Listings : Stamped(l) => Later(l)
  BY NowStep, StampStays DEF TypeOK
<1>2. \A q \in Procs : held[q] # NONE => held[q] \in Listings /\ Stamped(held[q])
  BY DEF TypeOK, StampInv
<1>3. file' \in Listings => Later(file')
  BY <1>1, <1>2, FileStep, NoListing DEF StampInv
<1>4. ASSUME NEW q \in Procs, held'[q] # NONE PROVE Later(held'[q])
  <2>1. CASE held'[q] = held[q]
    BY <1>1, <1>2, <1>4, <2>1
  <2>2. CASE CacheUsable(q) /\ held'[q] \in {file, Restamped(file)}
    <3>1. file \in Listings /\ now - file.at <= TTL /\ now \in Nat /\ Stamped(file)
      BY <2>2 DEF CacheUsable, TypeOK, StampInv
    <3>2. held'[q] \in Listings /\ Stamped(held'[q])
      BY <2>2, <3>1, RestampType, RestampStep
    <3> QED
      BY <1>1, <3>2
  <2>3. CASE held'[q] = [pages |-> Read(q), walked |-> now, at |-> now, kept |-> 0]
    BY <1>1, <2>3, FreshType
  <2> QED
    BY <1>4, <2>1, <2>2, <2>3, TakeStep
<1> QED
  BY <1>3, <1>4 DEF StampInv, Stamped

(* Nothing is taken that is older than its stamps account for.             *)
LEMMA AgeStep == TypeOK /\ HeldInv /\ StampInv /\ AgeBounded /\ [Next]_vars => AgeBounded'
<1> SUFFICES ASSUME TypeOK, HeldInv, StampInv, AgeBounded, [Next]_vars,
                    NEW q \in Procs, held'[q] # NONE
             PROVE  taken'[q] - held'[q].walked <= TTL * (held'[q].kept + 1)
  BY DEF AgeBounded, Age
<1>1. CASE held'[q] = held[q] /\ taken'[q] = taken[q]
  BY <1>1 DEF AgeBounded, Age
<1>2. CASE taken'[q] = now /\ CacheUsable(q) /\ held'[q] \in {file, Restamped(file)}
  <2>1. file \in Listings /\ now - file.at <= TTL /\ now \in Nat /\ Stamped(file)
    BY <1>2 DEF CacheUsable, TypeOK, StampInv
  <2> QED
    BY <1>2, <2>1, RestampType, RestampStep, HitStep
<1>3. CASE /\ taken'[q] = now
           /\ held'[q] = [pages |-> Read(q), walked |-> now, at |-> now, kept |-> 0]
  BY <1>3, FreshType
<1> QED
  BY <1>1, <1>2, <1>3, TakeStep

(* A walk that ends without a bound has read every page.                   *)
LEMMA LastIsWhole ==
  ASSUME TypeOK, WalkInv, honest, NEW p \in Procs, LastPageRead(p), max[p] = NONE
  PROVE  Read(p) = Whole
<1>1. /\ cursor[p] = Len(pages[p]) /\ cursor[p] < LastPage /\ cursor[p] \in Nat
      /\ \A n \in 1..Len(pages[p]) : pages[p][n] = n
  BY DEF WalkInv, TypeOK
<1>2. cursor[p] + 1 = LastPage
  <2>1. 0 \in Nexts(p)
    BY DEF LastPageRead, PagesDone
  <2> QED
    BY <1>1, <2>1 DEF Nexts
<1>3. /\ Read(p) \in Seq(Nat) /\ Len(Read(p)) = LastPage
      /\ \A n \in 1..cursor[p] : Read(p)[n] = n
      /\ Read(p)[cursor[p] + 1] = cursor[p] + 1
  <2>1. /\ Read(p) \in Seq(Nat) /\ Len(Read(p)) = Len(pages[p]) + 1
        /\ \A n \in 1..Len(pages[p]) : Read(p)[n] = pages[p][n]
        /\ Read(p)[Len(pages[p]) + 1] = cursor[p] + 1
    BY ReadType
  <2> QED
    BY <1>1, <1>2, <2>1
<1>4. \A n \in 1..LastPage : Read(p)[n] = n
  BY <1>1, <1>2, <1>3, OneMore
<1>5. /\ DOMAIN Read(p) = 1..LastPage
      /\ Read(p) = [n \in DOMAIN Read(p) |-> Read(p)[n]]
  BY <1>3
<1> QED
  BY <1>4, <1>5 DEF Whole

LEMMA WholeStep ==
  TypeOK /\ HeldInv /\ WalkInv /\ OnlyWholeWalks /\ [Next]_vars => OnlyWholeWalks'
<1> SUFFICES ASSUME TypeOK, HeldInv, WalkInv, OnlyWholeWalks, [Next]_vars, honest'
             PROVE  /\ file' \in Listings => file'.pages = Whole
                    /\ \A q \in Procs :
                         held'[q] # NONE /\ max'[q] = NONE => held'[q].pages = Whole
  BY DEF OnlyWholeWalks, Whole
<1>1. honest
  <2>1. honest' = honest
    BY Failing DEF Next, Work, vars, Tick, List, NextPage, LastPageRead, SaveOpen, SaveWrite,
                   SaveFails, Return, Crash
  <2> QED
    BY <2>1
<1>2. /\ file \in Listings => file.pages = Whole
      /\ \A q \in Procs : held[q] # NONE /\ max[q] = NONE => held[q].pages = Whole
  BY <1>1 DEF OnlyWholeWalks
<1>3. file' \in Listings => file'.pages = Whole
  BY <1>2, FileStep, NoListing
<1>4. ASSUME NEW q \in Procs, held'[q] # NONE, max'[q] = NONE
      PROVE held'[q].pages = Whole
  <2>1. CASE held'[q] = held[q] /\ max'[q] = max[q]
    BY <1>2, <1>4, <2>1
  <2>2. CASE CacheUsable(q) /\ held'[q] \in {file, Restamped(file)}
    BY <1>2, <2>2, Blank, RestampType DEF TypeOK
  <2>3. CASE /\ LastPageRead(q) /\ max'[q] = max[q]
             /\ held'[q] = [pages |-> Read(q), walked |-> now, at |-> now, kept |-> 0]
    BY <1>1, <1>4, <2>3, LastIsWhole
  <2> QED
    BY <1>4, <2>1, <2>2, <2>3, TakeStep
<1> QED
  BY <1>3, <1>4

-----------------------------------------------------------------------------
LEMMA RegistryInit == Init => RegistryInv
<1> SUFFICES ASSUME Init PROVE RegistryInv
  OBVIOUS
<1>1. file \notin Listings /\ \A p \in Procs : held[p] = NONE /\ pc[p] = "idle"
  BY DEF Init
<1>2. TypeOK
  BY <1>1, Blank DEF Init, TypeOK
<1>3. HeldInv /\ StampInv /\ AgeBounded /\ OnlyWholeWalks
  BY <1>1 DEF HeldInv, StampInv, AgeBounded, OnlyWholeWalks
<1>4. \A p \in Procs : pages[p] = <<>> /\ cursor[p] = 0
  BY DEF Init
<1>5. WalkInv
  <2>1. Len(<<>>) = 0 /\ 0 < LastPage /\ \A n : n \notin 1..0
    OBVIOUS
  <2>2. ASSUME NEW p \in Procs
        PROVE  /\ cursor[p] = Len(pages[p]) /\ cursor[p] < LastPage
               /\ \A n \in 1..Len(pages[p]) : pages[p][n] = n
    <3>1. pages[p] = <<>> /\ cursor[p] = 0
      BY <1>4
    <3> QED
      BY <2>1, <3>1
  <2> QED
    BY <2>2 DEF WalkInv
<1> QED
  BY <1>2, <1>3, <1>5 DEF RegistryInv

(* The inductive invariant of the registry cache (registry/client.py):     *)
(* what a walk has read, what a process holds where, and how far a stamp   *)
(* can have moved from the walk it stands for.                             *)
THEOREM RegistryInvariant == Spec => []RegistryInv
<1>1. RegistryInv /\ [Next]_vars => RegistryInv'
  BY TypeStep, HeldStep, WalkStep, StampStep, AgeStep, WholeStep DEF RegistryInv
<1> QED
  BY <1>1, RegistryInit, PTL DEF Spec

(* The variables of the registry client stay in their types, and only who  *)
(* is about to write has registry_cache.json open.                         *)
THEOREM RegistryTypes == Spec => []TypeOK
<1>1. RegistryInv => TypeOK
  BY DEF RegistryInv
<1> QED
  BY <1>1, RegistryInvariant, PTL

(* The cache of an honest registry is never part of a walk: not after a    *)
(* request that failed, a bounded walk or two savers at once.              *)
THEOREM WholeOrNothing == Spec => []OnlyWholeWalks
<1>1. RegistryInv => OnlyWholeWalks
  BY DEF RegistryInv
<1> QED
  BY <1>1, RegistryInvariant, PTL

(* A listing is older than the time to live only by as many times to live  *)
(* as failed refreshes stamped it anew (client.py:116-127).                *)
THEOREM AgeIsBounded == Spec => []AgeBounded
<1>1. RegistryInv => AgeBounded
  BY DEF RegistryInv
<1> QED
  BY <1>1, RegistryInvariant, PTL
=============================================================================

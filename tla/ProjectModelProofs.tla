------------------------- MODULE ProjectModelProofs -------------------------
(***************************************************************************)
(* What the reducer and the replay of a command chain return, for every    *)
(* set of identities.  Recursive functions on 0..n are unfolded by the     *)
(* least-counterexample argument: a non-empty set of naturals has a least  *)
(* element (LeastNatural).                                                 *)
(***************************************************************************)
EXTENDS ProjectModel, WellFoundedInduction, SequenceTheorems, TLAPS

(* A non-empty set of natural numbers has a least element. *)
LEMMA LeastNatural ==
  ASSUME NEW T \in SUBSET Nat, T # {}
  PROVE  \E n \in T : \A m \in T : n <= m
<1> DEFINE less == {ss \in Nat \X Nat : ss[1] < ss[2]}
<1>1. IsWellFoundedOn(less, Nat)
  BY NatLessThanWellFounded DEF OpToRel
<1>2. PICK n \in T : \A m \in T : ~ (<<m, n>> \in less)
  <2> HIDE DEF less
  <2> QED
  BY <1>1, WFMin
<1>3. ASSUME NEW m \in T PROVE n <= m
  <2>1. <<m, n>> \notin less
    BY <1>2
  <2>2. <<m, n>> \in Nat \X Nat
    OBVIOUS
  <2>3. ~ (m < n)
    BY <2>1, <2>2
  <2>4. QED
    BY <2>3
<1>4. QED
  BY <1>3

-----------------------------------------------------------------------------
(* Without *)

Kept(s, x, f, n) ==
  f = [i \in 0..n |->
        IF i = 0 THEN <<>>
        ELSE IF s[i] = x THEN f[i - 1] ELSE Append(f[i - 1], s[i])]

(* The recursion of Without has a solution. *)
LEMMA KeptExists ==
  ASSUME NEW s, NEW x, NEW n \in Nat
  PROVE  \E f : Kept(s, x, f, n)
<1> DEFINE T == {m \in Nat : ~ \E f : Kept(s, x, f, m)}
<1>1. SUFFICES ASSUME T # {} PROVE FALSE
  OBVIOUS
<1>2. PICK m \in T : \A k \in T : m <= k
  <2> HIDE DEF T
  <2>1. T \in SUBSET Nat
    BY DEF T
  <2> QED
    BY <1>1, <2>1, LeastNatural
<1>3. m \in Nat
  OBVIOUS
<1>4. m # 0
  <2>1. Kept(s, x, [i \in 0..0 |-> <<>>], 0)
    BY DEF Kept
  <2>2. QED
    BY <2>1
<1>5. PICK f : Kept(s, x, f, m - 1)
  <2>1. m - 1 \in Nat /\ ~ (m <= m - 1)
    BY <1>3, <1>4
  <2>2. m - 1 \notin T
    BY <1>2, <2>1
  <2>3. QED
    BY <2>1, <2>2
<1> DEFINE g == [i \in 0..m |->
                  IF i < m THEN f[i]
                  ELSE IF s[m] = x THEN f[m - 1] ELSE Append(f[m - 1], s[m])]
<1>6. Kept(s, x, g, m)
  <2>1. ASSUME NEW i \in 0..m
        PROVE  g[i] = IF i = 0 THEN <<>>
                      ELSE IF s[i] = x THEN g[i - 1] ELSE Append(g[i - 1], s[i])
    <3>1. CASE i = 0
      BY <1>3, <1>4, <1>5, <3>1 DEF Kept
    <3>2. CASE i # 0 /\ i < m
      <4>1. i \in 0..(m - 1) /\ i - 1 \in 0..m /\ i - 1 < m
        BY <1>3, <3>2
      <4>2. g[i] = f[i] /\ g[i - 1] = f[i - 1]
        BY <3>2, <4>1
      <4>3. f[i] = IF s[i] = x THEN f[i - 1] ELSE Append(f[i - 1], s[i])
        BY <1>5, <3>2, <4>1 DEF Kept
      <4>4. QED
        BY <3>2, <4>2, <4>3
    <3>3. CASE i = m
      <4>1. g[m - 1] = f[m - 1]
        BY <1>3, <1>4
      <4>2. QED
        BY <1>3, <1>4, <3>3, <4>1
    <3>4. QED
      BY <1>3, <3>1, <3>2, <3>3
  <2> HIDE DEF g
  <2>2. g = [i \in 0..m |-> g[i]]
    BY DEF g
  <2>3. QED
    BY <2>1, <2>2 DEF Kept
<1>7. QED
  BY <1>6

Entries(s) == {s[i] : i \in DOMAIN s}

OnceEach(s) == \A i, j \in DOMAIN s : s[i] = s[j] => i = j

(* Without keeps exactly the other entries, and lists none twice that s    *)
(* listed once.                                                            *)
LEMMA WithoutProperties ==
  ASSUME NEW S, NEW s \in Seq(S), NEW x
  PROVE  /\ Without(s, x) \in Seq(S)
         /\ Entries(Without(s, x)) = Entries(s) \ {x}
         /\ OnceEach(s) => OnceEach(Without(s, x))
<1> DEFINE n == Len(s)
           f == CHOOSE f : Kept(s, x, f, n)
           Good(k) == /\ f[k] \in Seq(S)
                      /\ Entries(f[k]) = {s[j] : j \in 1..k} \ {x}
                      /\ OnceEach(s) => OnceEach(f[k])
           T == {k \in 0..n : ~ Good(k)}
<1>1. n \in Nat /\ DOMAIN s = 1..n
  OBVIOUS
<1>2. Kept(s, x, f, n)
  BY <1>1, KeptExists
<1>3. Without(s, x) = f[n]
  BY DEF Without, Kept
<1> HIDE DEF f
<1>4. SUFFICES ASSUME T # {} PROVE FALSE
  <2>1. ASSUME T = {} PROVE Good(n)
    <3>1. n \in 0..n
      BY <1>1
    <3> HIDE DEF Good
    <3>2. QED
      BY <2>1, <3>1
  <2>2. Entries(s) = {s[j] : j \in 1..n}
    BY <1>1 DEF Entries
  <2>3. QED
    BY <1>3, <2>1, <2>2
<1>5. PICK k \in T : \A m \in T : k <= m
  <2> HIDE DEF T
  <2>1. T \in SUBSET Nat
    BY <1>1 DEF T
  <2> QED
    BY <1>4, <2>1, LeastNatural
<1>6. k \in 0..n /\ ~ Good(k)
  OBVIOUS
<1>7. f[0] = <<>>
  BY <1>1, <1>2 DEF Kept
<1>8. k # 0
  <2>1. Good(0)
    BY <1>7 DEF Entries, OnceEach
  <2>2. QED
    BY <1>6, <2>1
<1>9. Good(k - 1)
  <2>1. k - 1 \in 0..n /\ ~ (k <= k - 1)
    BY <1>1, <1>6, <1>8
  <2>2. QED
    BY <1>5, <2>1
<1>10. f[k] = IF s[k] = x THEN f[k - 1] ELSE Append(f[k - 1], s[k])
  BY <1>2, <1>6, <1>8 DEF Kept
<1> DEFINE t == f[k - 1]
<1>11. t \in Seq(S) /\ s[k] \in S /\ k \in 1..n
  BY <1>1, <1>6, <1>8, <1>9
<1>12. {s[j] : j \in 1..k} = {s[j] : j \in 1..(k - 1)} \cup {s[k]}
  BY <1>11
<1>13. CASE s[k] = x
  BY <1>6, <1>9, <1>10, <1>12, <1>13
<1>14. CASE s[k] # x
  <2>1. f[k] = Append(t, s[k])
    BY <1>10, <1>14
  <2>2. f[k] \in Seq(S) /\ DOMAIN f[k] = 1..(Len(t) + 1) /\ DOMAIN t = 1..Len(t)
    BY <1>11, <2>1
  <2>3. /\ \A i \in 1..Len(t) : f[k][i] = t[i]
        /\ f[k][Len(t) + 1] = s[k]
    BY <1>11, <2>1
  <2>4. Entries(f[k]) = Entries(t) \cup {s[k]}
    <3>1. ASSUME NEW e \in Entries(f[k]) PROVE e \in Entries(t) \cup {s[k]}
      <4>1. PICK i \in 1..(Len(t) + 1) : e = f[k][i]
        BY <2>2 DEF Entries
      <4>2. CASE i = Len(t) + 1
        BY <2>3, <4>1, <4>2
      <4>3. CASE i \in 1..Len(t)
        BY <2>2, <2>3, <4>1, <4>3 DEF Entries
      <4>4. QED
        BY <1>11, <4>2, <4>3
    <3>2. ASSUME NEW i \in DOMAIN t PROVE t[i] \in Entries(f[k])
      BY <1>11, <2>2, <2>3 DEF Entries
    <3>3. s[k] \in Entries(f[k])
      <4>1. Len(t) + 1 \in DOMAIN f[k]
        BY <1>11, <2>2
      <4>2. QED
        BY <2>3, <4>1 DEF Entries
    <3>4. QED
      BY <3>1, <3>2, <3>3 DEF Entries
  <2>5. Entries(f[k]) = {s[j] : j \in 1..k} \ {x}
    BY <1>9, <1>12, <1>14, <2>4
  <2>6. ASSUME OnceEach(s) PROVE OnceEach(f[k])
    <3>1. OnceEach(t)
      BY <1>9, <2>6
    <3>2. s[k] \notin Entries(t)
      <4>1. ASSUME NEW j \in 1..(k - 1) PROVE s[j] # s[k]
        BY <1>1, <1>11, <2>6 DEF OnceEach
      <4>2. QED
        BY <1>9, <4>1
    <3>3. \A i \in 1..Len(t) : f[k][i] # s[k]
      BY <2>2, <2>3, <3>2 DEF Entries
    <3>4. SUFFICES ASSUME NEW i \in 1..(Len(t) + 1), NEW j \in 1..(Len(t) + 1),
                          f[k][i] = f[k][j]
                   PROVE  i = j
      BY <2>2 DEF OnceEach
    <3>5. CASE i \in 1..Len(t) /\ j \in 1..Len(t)
      BY <2>2, <2>3, <3>1, <3>4, <3>5 DEF OnceEach
    <3>6. CASE i = Len(t) + 1 \/ j = Len(t) + 1
      BY <1>11, <2>3, <3>3, <3>4, <3>6
    <3>7. QED
      BY <1>11, <3>5, <3>6
  <2>7. QED
    BY <1>6, <2>2, <2>5, <2>6
<1>15. QED
  BY <1>13, <1>14

-----------------------------------------------------------------------------
(* Reduce *)

(* The five kinds of command, and what each carries. *)
LEMMA CommandCases ==
  ASSUME NEW c \in Command
  PROVE  \/ c.op = "AddAsset" /\ c.asset \in AssetIds
         \/ c.op = "AddTrack" /\ c.track \in TrackIds
         \/ /\ c.op = "AddClip"
            /\ c.clip \in ClipIds /\ c.asset \in AssetIds
            /\ c.track \in TrackIds /\ c.range \in Ranges
         \/ c.op = "MoveClip" /\ c.clip \in ClipIds /\ c.range \in Ranges
         \/ c.op = "RemoveClip" /\ c.clip \in ClipIds
BY DEF Command

LEMMA EmptyProjectType == EmptyProject \in Project
BY DEF EmptyProject, Project

LEMMA EmptyProjectWellFormed == WellFormed(EmptyProject)
<1>1. /\ \A t \in TrackIds : EmptyProject.tracks[t] = Absent
      /\ \A k \in ClipIds : EmptyProject.clips[k] = Absent
  BY DEF EmptyProject
<1>2. QED
  BY <1>1 DEF WellFormed, HasTrack, HasClip

(* A command that is accepted turns a project into a project. *)
LEMMA ReduceType ==
  ASSUME NEW p \in Project, NEW c \in Command, Accepts(p, c)
  PROVE  Reduce(p, c) \in Project
<1> USE DEF Project
<1>1. CASE c.op = "AddAsset"
  <2>1. c.asset \in AssetIds
    BY <1>1, CommandCases
  <2>2. QED
    BY <1>1, <2>1 DEF Reduce
<1>2. CASE c.op = "AddTrack"
  <2>1. c.track \in TrackIds /\ <<>> \in Seq(ClipIds)
    BY <1>2, CommandCases
  <2>2. Reduce(p, c) = [p EXCEPT !.tracks[c.track] = <<>>]
    BY <1>2 DEF Reduce
  <2>3. QED
    BY <2>1, <2>2
<1>3. CASE c.op = "AddClip"
  <2>1. /\ c.clip \in ClipIds /\ c.asset \in AssetIds
        /\ c.track \in TrackIds /\ c.range \in Ranges
    BY <1>3, CommandCases
  <2>2. p.tracks[c.track] # Absent
    BY <1>3 DEF Accepts, ReduceError, HasTrack
  <2>3. p.tracks[c.track] \in Seq(ClipIds)
    BY <2>1, <2>2
  <2>4. Append(p.tracks[c.track], c.clip) \in Seq(ClipIds)
    BY <2>1, <2>3
  <2>5. [asset |-> c.asset, track |-> c.track, range |-> c.range] \in Clip
    BY <2>1 DEF Clip
  <2>6. QED
    BY <1>3, <2>1, <2>4, <2>5 DEF Reduce
<1>4. CASE c.op = "MoveClip"
  <2>1. c.clip \in ClipIds /\ c.range \in Ranges
    BY <1>4, CommandCases
  <2>2. p.clips[c.clip] \in Clip
    BY <1>4, <2>1 DEF Accepts, ReduceError, HasClip
  <2>3. [p.clips[c.clip] EXCEPT !.range = c.range] \in Clip
    BY <2>1, <2>2 DEF Clip
  <2>4. QED
    BY <1>4, <2>1, <2>3 DEF Reduce
<1>5. CASE c.op = "RemoveClip"
  <2>1. c.clip \in ClipIds
    BY <1>5, CommandCases
  <2> DEFINE t == p.clips[c.clip].track
  <2>2. p.clips[c.clip] \in Clip /\ p.tracks[t] # Absent
    BY <1>5, <2>1 DEF Accepts, ReduceError, HasClip, HasTrack
  <2>3. t \in TrackIds /\ p.tracks[t] \in Seq(ClipIds)
    BY <2>2 DEF Clip
  <2>4. Without(p.tracks[t], c.clip) \in Seq(ClipIds)
    BY <2>3, WithoutProperties
  <2>5. QED
    BY <1>5, <2>1, <2>3, <2>4 DEF Reduce
<1>6. QED
  BY <1>1, <1>2, <1>3, <1>4, <1>5, CommandCases

(* What Project::validate checks is preserved by every accepted command:   *)
(* no edit, in whatever order, reaches a project that its own decoder      *)
(* would reject.                                                           *)
THEOREM ReduceWellFormed ==
  ASSUME NEW p \in Project, NEW c \in Command, Accepts(p, c), WellFormed(p)
  PROVE  WellFormed(Reduce(p, c))
<1> DEFINE q == Reduce(p, c)
<1>0. /\ p.tracks \in [TrackIds -> Seq(ClipIds) \cup {Absent}]
      /\ p.clips \in [ClipIds -> Clip \cup {Absent}]
      /\ p.assets \subseteq AssetIds
      /\ p = [assets |-> p.assets, tracks |-> p.tracks, clips |-> p.clips]
  BY DEF Project
<1>1. CASE c.op = "AddAsset"
  <2>1. /\ q.tracks = p.tracks /\ q.clips = p.clips
        /\ q.assets = p.assets \cup {c.asset}
    BY <1>0, <1>1 DEF Reduce
  <2> HIDE DEF q
  <2>2. ASSUME NEW t \in TrackIds, HasTrack(q, t)
        PROVE  ListsOnce(q, t) /\ ListedClipsPlaced(q, t)
    BY <2>1, <2>2 DEF WellFormed, HasTrack, HasClip, ListsOnce, ListedClipsPlaced
  <2>3. ASSUME NEW k \in ClipIds, HasClip(q, k) PROVE ReferencesResolve(q, k)
    BY <2>1, <2>3 DEF WellFormed, HasTrack, HasClip, ReferencesResolve
  <2>4. WellFormed(q)
    BY <2>2, <2>3 DEF WellFormed
  <2>5. QED
    BY <2>4 DEF q
<1>2. CASE c.op = "AddTrack"
  <2>1. /\ q.tracks = [p.tracks EXCEPT ![c.track] = <<>>] /\ q.clips = p.clips
        /\ q.assets = p.assets
    BY <1>0, <1>2 DEF Reduce
  <2>2. c.track \in TrackIds /\ p.tracks[c.track] = Absent
    BY <1>2, CommandCases DEF Accepts, ReduceError, HasTrack
  <2> HIDE DEF q
  <2>3. ASSUME NEW t \in TrackIds, HasTrack(q, t)
        PROVE  ListsOnce(q, t) /\ ListedClipsPlaced(q, t)
    <3>1. CASE t = c.track
      <4>1. q.tracks[t] = <<>> /\ DOMAIN q.tracks[t] = {}
        BY <1>0, <2>1, <2>2, <3>1
      <4>2. QED
        BY <4>1 DEF ListsOnce, ListedClipsPlaced
    <3>2. CASE t # c.track
      <4>1. q.tracks[t] = p.tracks[t] /\ HasTrack(p, t)
        BY <1>0, <2>1, <2>3, <3>2 DEF HasTrack
      <4>2. ListsOnce(p, t) /\ ListedClipsPlaced(p, t)
        BY <4>1 DEF WellFormed
      <4>3. QED
        BY <2>1, <4>1, <4>2 DEF HasClip, ListsOnce, ListedClipsPlaced
    <3>3. QED
      BY <3>1, <3>2
  <2>4. ASSUME NEW k \in ClipIds, HasClip(q, k) PROVE ReferencesResolve(q, k)
    <3>1. ReferencesResolve(p, k)
      BY <2>1, <2>4 DEF WellFormed, HasClip
    <3>2. p.clips[k].track # c.track
      BY <2>2, <3>1 DEF ReferencesResolve, HasTrack
    <3>3. p.clips[k] \in Clip
      BY <1>0, <2>1, <2>4 DEF HasClip
    <3>4. q.tracks[p.clips[k].track] = p.tracks[p.clips[k].track]
      BY <1>0, <2>1, <3>2, <3>3 DEF Clip
    <3>5. QED
      BY <2>1, <3>1, <3>4 DEF ReferencesResolve, HasTrack
  <2>5. WellFormed(q)
    BY <2>3, <2>4 DEF WellFormed
  <2>6. QED
    BY <2>5 DEF q
<1>3. CASE c.op = "AddClip"
  <2> DEFINE k0 == c.clip
             t0 == c.track
             new == [asset |-> c.asset, track |-> t0, range |-> c.range]
  <2>1. /\ q.tracks = [p.tracks EXCEPT ![t0] = Append(p.tracks[t0], k0)]
        /\ q.clips = [p.clips EXCEPT ![k0] = new]
        /\ q.assets = p.assets
    BY <1>0, <1>3 DEF Reduce
  <2>2. k0 \in ClipIds /\ t0 \in TrackIds
    BY <1>3, CommandCases
  <2>3. /\ p.clips[k0] = Absent /\ p.tracks[t0] # Absent /\ c.asset \in p.assets
    BY <1>3 DEF Accepts, ReduceError, HasClip, HasTrack
  <2>4. p.tracks[t0] \in Seq(ClipIds)
    BY <1>0, <2>2, <2>3
  <2> DEFINE n == Len(p.tracks[t0])
  <2>5. /\ n \in Nat /\ DOMAIN p.tracks[t0] = 1..n
        /\ DOMAIN q.tracks[t0] = 1..(n + 1)
        /\ \A i \in 1..n : q.tracks[t0][i] = p.tracks[t0][i]
        /\ q.tracks[t0][n + 1] = k0
        /\ q.tracks[t0] # Absent
    <3>1. q.tracks[t0] = Append(p.tracks[t0], k0)
      BY <1>0, <2>1, <2>2
    <3>2. Append(p.tracks[t0], k0) \in Seq(ClipIds)
      BY <2>2, <2>4
    <3> DEFINE s == p.tracks[t0]
               a == Append(s, k0)
    <3>3. /\ Len(s) \in Nat /\ DOMAIN s = 1..Len(s) /\ DOMAIN a = 1..(Len(s) + 1)
          /\ \A i \in 1..Len(s) : a[i] = s[i]
          /\ a[Len(s) + 1] = k0
      <4> HIDE DEF s, k0
      <4>1. s \in Seq(ClipIds) /\ k0 \in ClipIds
        BY <2>2, <2>4 DEF s, k0
      <4>2. QED
        BY <4>1
    <3>4. a # Absent
      BY <3>2, AbsentAssumption
    <3>5. q.tracks[t0] = a
      BY <3>1
    <3> HIDE DEF a, q
    <3>6. QED
      BY <3>3, <3>4, <3>5
  <2>6. /\ \A t \in TrackIds \ {t0} : q.tracks[t] = p.tracks[t]
        /\ \A k \in ClipIds \ {k0} : q.clips[k] = p.clips[k]
        /\ q.clips[k0] = new /\ new # Absent
    <3>1. new \in Clip
      BY <1>3, CommandCases DEF Clip
    <3> HIDE DEF new
    <3>2. QED
      BY <1>0, <2>1, <2>2, <3>1, AbsentAssumption
  <2>7. new.asset = c.asset /\ new.track = t0
    OBVIOUS
  <2> HIDE DEF q, new, n
  <2>8. \A t \in TrackIds : HasTrack(p, t) =>
          p.tracks[t] \in Seq(ClipIds) /\ DOMAIN p.tracks[t] \subseteq Nat
            /\ \A i \in DOMAIN p.tracks[t] : p.tracks[t][i] \in ClipIds \ {k0}
    <3>1. ASSUME NEW t \in TrackIds, HasTrack(p, t)
          PROVE  p.tracks[t] \in Seq(ClipIds)
      BY <1>0, <3>1 DEF HasTrack
    <3>2. ASSUME NEW t \in TrackIds, HasTrack(p, t), NEW i \in DOMAIN p.tracks[t]
          PROVE  p.tracks[t][i] \in ClipIds \ {k0}
      BY <2>3, <3>1, <3>2 DEF WellFormed, ListedClipsPlaced, HasClip
    <3>3. QED
      BY <3>1, <3>2
  <2>9. ASSUME NEW t \in TrackIds, HasTrack(q, t)
        PROVE  ListsOnce(q, t) /\ ListedClipsPlaced(q, t)
    <3>1. CASE t = t0
      <4>1. /\ HasTrack(p, t0) /\ ListsOnce(p, t0) /\ ListedClipsPlaced(p, t0)
        BY <2>2, <2>3 DEF HasTrack, WellFormed
      <4>2. \A i \in 1..n : p.tracks[t0][i] # k0
        BY <2>2, <2>5, <2>8, <4>1
      <4>3. ListsOnce(q, t0)
        BY <2>5, <4>1, <4>2 DEF ListsOnce
      <4>4. ASSUME NEW i \in 1..n
            PROVE  HasClip(q, p.tracks[t0][i]) /\ q.clips[p.tracks[t0][i]].track = t0
        <5> DEFINE k == p.tracks[t0][i]
        <5>1. k \in ClipIds \ {k0} /\ HasClip(p, k) /\ p.clips[k].track = t0
          BY <2>2, <2>5, <2>8, <4>1, <4>4 DEF ListedClipsPlaced
        <5> HIDE DEF k
        <5>2. q.clips[k] = p.clips[k]
          BY <2>6, <5>1
        <5>3. HasClip(q, k) /\ q.clips[k].track = t0
          BY <5>1, <5>2 DEF HasClip
        <5>4. QED
          BY <5>3 DEF k
      <4>5. HasClip(q, k0) /\ q.clips[k0].track = t0
        BY <2>6, <2>7 DEF HasClip
      <4>6. ListedClipsPlaced(q, t0)
        BY <2>5, <4>4, <4>5 DEF ListedClipsPlaced
      <4>7. QED
        BY <3>1, <4>3, <4>6
    <3>2. CASE t # t0
      <4>1. q.tracks[t] = p.tracks[t] /\ HasTrack(p, t)
        BY <2>6, <2>9, <3>2 DEF HasTrack
      <4>2. ListsOnce(p, t) /\ ListedClipsPlaced(p, t)
        BY <4>1 DEF WellFormed
      <4>3. QED
        BY <2>6, <2>8, <4>1, <4>2 DEF HasClip, ListsOnce, ListedClipsPlaced
    <3>3. QED
      BY <3>1, <3>2
  <2>10. ASSUME NEW k \in ClipIds, HasClip(q, k) PROVE ReferencesResolve(q, k)
    <3>1. CASE k = k0
      <4>1. n + 1 \in DOMAIN q.tracks[t0]
        BY <2>5
      <4>2. QED
        BY <2>1, <2>3, <2>5, <2>6, <2>7, <3>1, <4>1 DEF ReferencesResolve, HasTrack
    <3>2. CASE k # k0
      <4>1. q.clips[k] = p.clips[k] /\ HasClip(p, k) /\ ReferencesResolve(p, k)
        BY <2>6, <2>10, <3>2 DEF WellFormed, HasClip
      <4>2. p.clips[k].track \in TrackIds
        BY <1>0, <4>1 DEF HasClip, Clip
      <4>3. CASE p.clips[k].track = t0
        <5>1. PICK i \in 1..n : p.tracks[t0][i] = k
          BY <2>5, <4>1, <4>3 DEF ReferencesResolve
        <5>2. i \in DOMAIN q.tracks[t0] /\ q.tracks[t0][i] = k
          BY <2>5, <5>1
        <5>3. QED
          BY <2>1, <2>5, <4>1, <4>3, <5>2 DEF ReferencesResolve, HasTrack
      <4>4. CASE p.clips[k].track # t0
        <5>1. q.tracks[p.clips[k].track] = p.tracks[p.clips[k].track]
          BY <2>6, <4>2, <4>4
        <5>2. p.assets = q.assets
          BY <2>1
        <5> HIDE DEF q
        <5>3. QED
          BY <4>1, <5>1, <5>2 DEF ReferencesResolve, HasTrack
      <4>5. QED
        BY <4>3, <4>4
    <3>3. QED
      BY <3>1, <3>2
  <2>11. WellFormed(q)
    BY <2>9, <2>10 DEF WellFormed
  <2>12. QED
    BY <2>11 DEF q
<1>4. CASE c.op = "MoveClip"
  <2> DEFINE k0 == c.clip
  <2>1. /\ q.tracks = p.tracks /\ q.assets = p.assets
        /\ q.clips = [p.clips EXCEPT ![k0] = [p.clips[k0] EXCEPT !.range = c.range]]
    BY <1>0, <1>4 DEF Reduce
  <2>2. k0 \in ClipIds /\ c.range \in Ranges /\ p.clips[k0] # Absent
    BY <1>4, CommandCases DEF Accepts, ReduceError, HasClip
  <2>3. p.clips[k0] \in Clip
    BY <1>0, <2>2
  <2>4. /\ q.clips[k0].track = p.clips[k0].track
        /\ q.clips[k0].asset = p.clips[k0].asset
        /\ q.clips[k0] \in Clip
    BY <1>0, <2>1, <2>2, <2>3 DEF Clip
  <2> HIDE DEF q
  <2>5. \A k \in ClipIds : /\ HasClip(q, k) <=> HasClip(p, k)
                           /\ q.clips[k].track = p.clips[k].track
                           /\ q.clips[k].asset = p.clips[k].asset
    BY <1>0, <2>1, <2>2, <2>4, AbsentAssumption DEF HasClip
  <2>6. ASSUME NEW t \in TrackIds, HasTrack(q, t)
        PROVE  ListsOnce(q, t) /\ ListedClipsPlaced(q, t)
    <3>1. HasTrack(p, t) /\ ListsOnce(p, t) /\ ListedClipsPlaced(p, t)
      BY <2>1, <2>6 DEF HasTrack, WellFormed
    <3>2. p.tracks[t] \in Seq(ClipIds)
      BY <1>0, <3>1 DEF HasTrack
    <3>3. \A i \in DOMAIN p.tracks[t] : p.tracks[t][i] \in ClipIds
      BY <3>2
    <3>4. q.tracks[t] = p.tracks[t]
      BY <2>1
    <3>5. ListsOnce(q, t)
      BY <3>1, <3>4 DEF ListsOnce
    <3>6. ListedClipsPlaced(q, t)
      BY <2>5, <3>1, <3>3, <3>4 DEF ListedClipsPlaced
    <3>7. QED
      BY <3>5, <3>6
  <2>7. ASSUME NEW k \in ClipIds, HasClip(q, k) PROVE ReferencesResolve(q, k)
    <3>1. ReferencesResolve(p, k)
      BY <2>5, <2>7 DEF WellFormed
    <3>2. /\ q.assets = p.assets /\ q.tracks = p.tracks
          /\ q.clips[k].track = p.clips[k].track
          /\ q.clips[k].asset = p.clips[k].asset
      BY <2>1, <2>5
    <3>3. QED
      BY <3>1, <3>2 DEF ReferencesResolve, HasTrack
  <2>8. WellFormed(q)
    BY <2>6, <2>7 DEF WellFormed
  <2>9. QED
    BY <2>8 DEF q
<1>5. CASE c.op = "RemoveClip"
  <2> DEFINE k0 == c.clip
             t0 == p.clips[k0].track
             kept == Without(p.tracks[t0], k0)
  <2>1. /\ q.tracks = [p.tracks EXCEPT ![t0] = kept] /\ q.assets = p.assets
        /\ q.clips = [p.clips EXCEPT ![k0] = Absent]
    BY <1>0, <1>5 DEF Reduce
  <2>2. k0 \in ClipIds /\ p.clips[k0] # Absent /\ p.tracks[t0] # Absent
    BY <1>5, CommandCases DEF Accepts, ReduceError, HasClip, HasTrack
  <2>3. t0 \in TrackIds /\ p.tracks[t0] \in Seq(ClipIds)
    <3>1. p.clips[k0] \in Clip
      BY <1>0, <2>2
    <3>2. QED
      BY <1>0, <2>2, <3>1 DEF Clip
  <2>4. /\ kept \in Seq(ClipIds)
        /\ Entries(kept) = Entries(p.tracks[t0]) \ {k0}
        /\ OnceEach(p.tracks[t0]) => OnceEach(kept)
    <3> DEFINE s == p.tracks[t0]
    <3> HIDE DEF s
    <3>1. s \in Seq(ClipIds)
      BY <2>3 DEF s
    <3>2. /\ Without(s, k0) \in Seq(ClipIds)
          /\ Entries(Without(s, k0)) = Entries(s) \ {k0}
          /\ OnceEach(s) => OnceEach(Without(s, k0))
      BY <3>1, WithoutProperties
    <3>3. QED
      BY <3>2 DEF s
  <2>5. kept # Absent
    BY <2>4, AbsentAssumption
  <2>6. /\ q.tracks[t0] = kept
        /\ \A t \in TrackIds \ {t0} : q.tracks[t] = p.tracks[t]
        /\ q.clips[k0] = Absent
        /\ \A k \in ClipIds \ {k0} : q.clips[k] = p.clips[k]
    BY <1>0, <2>1, <2>2, <2>3
  <2> HIDE DEF q, kept, t0
  <2>7. \A t \in TrackIds : HasTrack(p, t) =>
          \A i \in DOMAIN p.tracks[t] : p.tracks[t][i] \in ClipIds
    <3>1. ASSUME NEW t \in TrackIds, HasTrack(p, t)
          PROVE  p.tracks[t] \in Seq(ClipIds)
      BY <1>0, <3>1 DEF HasTrack
    <3>2. QED
      BY <3>1
  <2>8. ASSUME NEW t \in TrackIds, HasTrack(q, t)
        PROVE  ListsOnce(q, t) /\ ListedClipsPlaced(q, t)
    <3>1. CASE t = t0
      <4>1. HasTrack(p, t0) /\ ListsOnce(p, t0) /\ ListedClipsPlaced(p, t0)
        BY <2>2, <2>3 DEF HasTrack, WellFormed, t0
      <4>2. ListsOnce(q, t0)
        BY <2>4, <2>6, <4>1 DEF ListsOnce, OnceEach
      <4>3. ASSUME NEW i \in DOMAIN kept
            PROVE  HasClip(q, kept[i]) /\ q.clips[kept[i]].track = t0
        <5>1. kept[i] \in Entries(p.tracks[t0]) /\ kept[i] # k0
          BY <2>4 DEF Entries
        <5>2. PICK j \in DOMAIN p.tracks[t0] : kept[i] = p.tracks[t0][j]
          BY <5>1 DEF Entries
        <5>3. QED
          BY <2>3, <2>6, <2>7, <4>1, <5>1, <5>2 DEF ListedClipsPlaced, HasClip
      <4>4. QED
        BY <2>6, <3>1, <4>2, <4>3 DEF ListedClipsPlaced
    <3>2. CASE t # t0
      <4>1. q.tracks[t] = p.tracks[t] /\ HasTrack(p, t)
        BY <2>6, <2>8, <3>2 DEF HasTrack
      <4>2. ListsOnce(p, t) /\ ListedClipsPlaced(p, t)
        BY <4>1 DEF WellFormed
      <4>3. ASSUME NEW i \in DOMAIN p.tracks[t] PROVE p.tracks[t][i] # k0
        BY <3>2, <4>2 DEF ListedClipsPlaced, t0
      <4>4. QED
        BY <2>6, <2>7, <4>1, <4>2, <4>3 DEF HasClip, ListsOnce, ListedClipsPlaced
    <3>3. QED
      BY <3>1, <3>2
  <2>9. ASSUME NEW k \in ClipIds, HasClip(q, k) PROVE ReferencesResolve(q, k)
    <3>1. k # k0 /\ q.clips[k] = p.clips[k] /\ HasClip(p, k)
      BY <2>6, <2>9 DEF HasClip
    <3>2. ReferencesResolve(p, k)
      BY <3>1 DEF WellFormed
    <3>3. p.clips[k].track \in TrackIds
      BY <1>0, <3>1 DEF HasClip, Clip
    <3>4. CASE p.clips[k].track = t0
      <4>1. k \in Entries(kept)
        BY <2>4, <3>1, <3>2, <3>4 DEF ReferencesResolve, Entries
      <4>2. PICK i \in DOMAIN kept : kept[i] = k
        BY <4>1 DEF Entries
      <4>3. QED
        BY <2>1, <2>5, <2>6, <3>1, <3>2, <3>4, <4>2 DEF ReferencesResolve, HasTrack
    <3>5. CASE p.clips[k].track # t0
      BY <2>1, <2>6, <3>1, <3>2, <3>3, <3>5 DEF ReferencesResolve, HasTrack
    <3>6. QED
      BY <3>4, <3>5
  <2>10. WellFormed(q)
    BY <2>8, <2>9 DEF WellFormed
  <2>11. QED
    BY <2>10 DEF q
<1>6. QED
  BY <1>1, <1>2, <1>3, <1>4, <1>5, CommandCases

-----------------------------------------------------------------------------
(* Replay *)

Replays(log, f, n) ==
  f = [i \in 0..n |->
        IF i = 0 THEN EmptyProject ELSE Reduce(f[i - 1], log[i])]

(* The recursion of ReplayTo has a solution. *)
LEMMA ReplayExists ==
  ASSUME NEW log, NEW n \in Nat
  PROVE  \E f : Replays(log, f, n)
<1> DEFINE T == {m \in Nat : ~ \E f : Replays(log, f, m)}
<1>1. SUFFICES ASSUME T # {} PROVE FALSE
  OBVIOUS
<1>2. PICK m \in T : \A k \in T : m <= k
  <2> HIDE DEF T
  <2>1. T \in SUBSET Nat
    BY DEF T
  <2> QED
    BY <1>1, <2>1, LeastNatural
<1>3. m \in Nat
  OBVIOUS
<1>4. m # 0
  <2>1. Replays(log, [i \in 0..0 |-> EmptyProject], 0)
    BY DEF Replays
  <2>2. QED
    BY <2>1
<1>5. PICK f : Replays(log, f, m - 1)
  <2>1. m - 1 \in Nat /\ ~ (m <= m - 1)
    BY <1>3, <1>4
  <2>2. m - 1 \notin T
    BY <1>2, <2>1
  <2>3. QED
    BY <2>1, <2>2
<1> DEFINE g == [i \in 0..m |->
                  IF i < m THEN f[i] ELSE Reduce(f[m - 1], log[m])]
<1>6. Replays(log, g, m)
  <2>1. ASSUME NEW i \in 0..m
        PROVE  g[i] = IF i = 0 THEN EmptyProject ELSE Reduce(g[i - 1], log[i])
    <3>1. CASE i = 0
      BY <1>3, <1>4, <1>5, <3>1 DEF Replays
    <3>2. CASE i # 0 /\ i < m
      <4>1. i \in 0..(m - 1) /\ i - 1 \in 0..m /\ i - 1 < m
        BY <1>3, <3>2
      <4>2. g[i] = f[i] /\ g[i - 1] = f[i - 1]
        BY <3>2, <4>1
      <4>3. f[i] = Reduce(f[i - 1], log[i])
        BY <1>5, <3>2, <4>1 DEF Replays
      <4>4. QED
        BY <3>2, <4>2, <4>3
    <3>3. CASE i = m
      <4>1. g[m - 1] = f[m - 1]
        BY <1>3, <1>4
      <4>2. QED
        BY <1>3, <1>4, <3>3, <4>1
    <3>4. QED
      BY <1>3, <3>1, <3>2, <3>3
  <2> HIDE DEF g
  <2>2. g = [i \in 0..m |-> g[i]]
    BY DEF g
  <2>3. QED
    BY <2>1, <2>2 DEF Replays
<1>7. QED
  BY <1>6

LEMMA ReplayUnfold ==
  ASSUME NEW log \in Seq(Command)
  PROVE  /\ ReplayTo(log)[0] = EmptyProject
         /\ \A i \in 1..Len(log) :
              ReplayTo(log)[i] = Reduce(ReplayTo(log)[i - 1], log[i])
<1>1. Len(log) \in Nat
  OBVIOUS
<1>2. Replays(log, CHOOSE f : Replays(log, f, Len(log)), Len(log))
  BY <1>1, ReplayExists
<1>3. ReplayTo(log) = CHOOSE f : Replays(log, f, Len(log))
  BY DEF ReplayTo, Replays
<1>4. Replays(log, ReplayTo(log), Len(log))
  BY <1>2, <1>3
<1> DEFINE f == ReplayTo(log)
<1> HIDE DEF f
<1>5. f = [i \in 0..Len(log) |->
            IF i = 0 THEN EmptyProject ELSE Reduce(f[i - 1], log[i])]
  BY <1>4 DEF Replays, f
<1>6. f[0] = EmptyProject
  BY <1>1, <1>5
<1>7. ASSUME NEW i \in 1..Len(log) PROVE f[i] = Reduce(f[i - 1], log[i])
  BY <1>1, <1>5
<1>8. QED
  BY <1>6, <1>7 DEF f

(* Appending a command does not change what was replayed before it. *)
LEMMA ReplayPrefix ==
  ASSUME NEW log \in Seq(Command), NEW c \in Command
  PROVE  \A i \in 0..Len(log) : ReplayTo(Append(log, c))[i] = ReplayTo(log)[i]
<1> DEFINE n == Len(log)
           long == Append(log, c)
           T == {i \in 0..n : ReplayTo(long)[i] # ReplayTo(log)[i]}
<1>1. /\ n \in Nat /\ long \in Seq(Command) /\ Len(long) = n + 1
      /\ \A i \in 1..n : long[i] = log[i]
  BY AppendProperties
<1> HIDE DEF long
<1>2. SUFFICES ASSUME T # {} PROVE FALSE
  BY DEF long
<1>3. PICK k \in T : \A m \in T : k <= m
  <2> HIDE DEF T
  <2>1. T \in SUBSET Nat
    BY <1>1 DEF T
  <2> QED
    BY <1>2, <2>1, LeastNatural
<1>4. k \in 0..n /\ ReplayTo(long)[k] # ReplayTo(log)[k]
  OBVIOUS
<1>5. k # 0
  BY <1>1, <1>4, ReplayUnfold
<1>6. k \in 1..n /\ k - 1 \in 0..n /\ ~ (k <= k - 1)
  BY <1>1, <1>4, <1>5
<1>7. ReplayTo(long)[k - 1] = ReplayTo(log)[k - 1]
  BY <1>3, <1>6
<1>8. ReplayTo(log)[k] = Reduce(ReplayTo(log)[k - 1], log[k])
  BY <1>6, ReplayUnfold
<1>9. ReplayTo(long)[k] = Reduce(ReplayTo(long)[k - 1], long[k])
  <2>1. k \in 1..Len(long)
    BY <1>1, <1>6
  <2>2. QED
    BY <1>1, <2>1, ReplayUnfold
<1>10. QED
  BY <1>1, <1>4, <1>6, <1>7, <1>8, <1>9

(* Replaying one more command is one more reduce. *)
LEMMA ReplayAppend ==
  ASSUME NEW log \in Seq(Command), NEW c \in Command
  PROVE  /\ Replay(Append(log, c)) = Reduce(Replay(log), c)
         /\ Replayable(Append(log, c)) <=>
              Replayable(log) /\ Accepts(Replay(log), c)
<1> DEFINE n == Len(log)
           long == Append(log, c)
<1>1. /\ n \in Nat /\ long \in Seq(Command) /\ Len(long) = n + 1
      /\ \A i \in 1..n : long[i] = log[i]
      /\ long[n + 1] = c
  BY AppendProperties
<1>2. \A i \in 0..n : ReplayTo(long)[i] = ReplayTo(log)[i]
  BY ReplayPrefix
<1> HIDE DEF long, n
<1>3. ReplayTo(long)[n] = Replay(log)
  BY <1>1, <1>2 DEF Replay, n
<1>4. Replay(long) = Reduce(Replay(log), c)
  <2>1. n + 1 \in 1..Len(long)
    BY <1>1
  <2>2. ReplayTo(long)[n + 1] = Reduce(ReplayTo(long)[(n + 1) - 1], long[n + 1])
    BY <1>1, <2>1, ReplayUnfold
  <2>3. (n + 1) - 1 = n
    BY <1>1
  <2>4. QED
    BY <1>1, <1>3, <2>2, <2>3 DEF Replay
<1>5. Replayable(long) <=> Replayable(log) /\ Accepts(Replay(log), c)
  <2>1. 1..Len(long) = (1..n) \cup {n + 1}
    BY <1>1
  <2>2. ASSUME NEW i \in 1..n
        PROVE  Accepts(ReplayTo(long)[i - 1], long[i])
                 <=> Accepts(ReplayTo(log)[i - 1], log[i])
    <3>1. i - 1 \in 0..n
      BY <1>1
    <3>2. QED
      BY <1>1, <1>2, <3>1
  <2>3. Accepts(ReplayTo(long)[(n + 1) - 1], long[n + 1])
          <=> Accepts(Replay(log), c)
    <3>1. (n + 1) - 1 = n
      BY <1>1
    <3>2. QED
      BY <1>1, <1>3, <3>1
  <2>4. QED
    BY <2>1, <2>2, <2>3 DEF Replayable, n
<1>6. QED
  BY <1>4, <1>5 DEF long

LEMMA ReplayEmpty == Replay(<<>>) = EmptyProject /\ Replayable(<<>>)
<1>1. <<>> \in Seq(Command) /\ Len(<<>>) = 0 /\ 1..0 = {}
  OBVIOUS
<1>2. QED
  BY <1>1, ReplayUnfold DEF Replay, Replayable
=============================================================================

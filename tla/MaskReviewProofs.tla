------------------------- MODULE MaskReviewProofs -------------------------
(***************************************************************************)
(* Proofs about MaskReview for any sets of tabs, frames and objects, any   *)
(* number of saves and publications, and any budget of failures.  The      *)
(* theorems assume Parameters of the constants.                            *)
(***************************************************************************)
EXTENDS MaskReview, SequenceTheorems, TLAPS

-----------------------------------------------------------------------------
(* The inductive invariant *)

Status == {"none", "ok", "edited"}
RowOf  == [frame : Frames, revision : Saves, status : {"ok", "edited"}, id : Saves]

Page == [at : {"open"}, version : Versions, known : SUBSET Frames,
         visited : UNION {[D -> [revision : 0..MaxSaves, status : Status, id : 0..MaxSaves]] :
                             D \in SUBSET Frames}]
Save == [at : {"writing", "written", "replacing", "committed"}, tab : Tabs,
         kind : {"batch", "frame"}, id : Saves, rows : SUBSET RowOf,
         updates : UNION {[S -> Updates] : S \in SUBSET Frames}]

Typed ==
    /\ version \in Versions /\ runs \subseteq Versions /\ saves \in 0..MaxSaves
    /\ reviews \in [Versions -> [Frames -> Seq(Revision)]]
    /\ images \in [Versions -> [Frames -> [Saves -> [Objs -> 0..MaxSaves]]]]
    /\ page \in [Tabs -> Page \cup {Closed}]
    /\ save \in Save \cup {Idle}

\* One revision: its number, its save and the masks it refers to.
EntryInv(v, f, i) ==
    LET e == reviews[v][f][i] IN
    /\ e.revision = i
    /\ i <= e.id /\ e.id <= saves
    /\ \A o \in Objs : e.masks[o] \in 0..i \cup {None}
    /\ e.shown = v
    /\ e.base = IF i = 1 THEN 0 ELSE reviews[v][f][i - 1].id
    /\ \A o \in Objs : e.masks[o] \notin {None, 0} => images[v][f][e.masks[o]][o] = e.sums[o]

HistoryInv == \A v \in Versions, f \in Frames : \A i \in 1..Len(reviews[v][f]) : EntryInv(v, f, i)

\* What a page has seen of a frame is a revision of its publication.
SeenInv(t, f) ==
    LET seen == page[t].visited[f]
        history == reviews[page[t].version][f]
    IN /\ seen.revision <= Len(history)
       /\ seen.id = IF seen.revision = 0 THEN 0 ELSE history[seen.revision].id

PageInv == \A t \in Tabs : page[t].at = "open" => \A f \in DOMAIN page[t].visited : SeenInv(t, f)

\* What Enter established, until the manifest is replaced.
UncommittedInv ==
    save.at \in {"writing", "written", "replacing"} =>
       /\ \A f \in DOMAIN save.updates :
             Len(reviews[version][f]) = page[save.tab].visited[f].revision
       /\ \A v \in Versions, f \in Frames : \A i \in 1..Len(reviews[v][f]) :
             reviews[v][f][i].id < save.id

\* The images are there before the manifest that refers to them.
DrawnInv ==
    save.at \in {"written", "replacing"} =>
       \A f \in DOMAIN save.updates : \A o \in Drawn(save.updates[f]) :
          images[version][f][NextRevision(version, f)][o] = save.id

RowsInv ==
    /\ save.at = "replacing" => save.rows = {Row(p) : p \in Entries}
    /\ save.at = "committed" => save.rows \subseteq Committed(version)

SaveInv ==
    /\ save # Idle =>
          /\ save.id = saves
          /\ page[save.tab].at = "open" /\ page[save.tab].version = version
          /\ DOMAIN save.updates \subseteq DOMAIN page[save.tab].visited
    /\ UncommittedInv /\ DrawnInv /\ RowsInv

\* The entries a job has read are committed, in a publication of now or before.
JobInv(job) ==
    /\ job.at \in {"queued", "read"} => DOMAIN job.frames \subseteq Frames
    /\ job.at = "read" =>
          /\ job.version \in 1..version
          /\ {Row(p) : p \in job.entries} \subseteq Committed(job.version)

SyncInv == DOMAIN syncs = Saves /\ \A s \in Saves : JobInv(syncs[s])

IndexInv == DOMAIN index = Versions /\ IndexedIsCommitted

ReviewInv == Typed /\ HistoryInv /\ PageInv /\ SaveInv /\ SyncInv /\ IndexInv

-----------------------------------------------------------------------------
(* What the operators return *)

LEMMA Numbers ==
    ASSUME Parameters
    PROVE  /\ MaxSaves \in Nat /\ MaxVersions \in Nat \ {0} /\ None \notin Nat
           /\ Saves \subseteq 1..MaxSaves /\ Versions \subseteq Nat \ {0}
BY DEF Parameters, Saves, Versions

LEMMA Histories ==
    ASSUME Typed, NEW v \in Versions, NEW f \in Frames
    PROVE  /\ reviews[v][f] \in Seq(Revision) /\ Len(reviews[v][f]) \in Nat
           /\ DOMAIN reviews[v][f] = 1..Len(reviews[v][f])
           /\ \A i \in 1..Len(reviews[v][f]) : reviews[v][f][i] \in Revision
           /\ reviews[v][f] = <<>> <=> Len(reviews[v][f]) = 0
<1>1. reviews[v][f] \in Seq(Revision)
    BY DEF Typed
<1>2. Len(reviews[v][f]) \in Nat
    BY <1>1, LenProperties
<1>3. DOMAIN reviews[v][f] = 1..Len(reviews[v][f])
    BY <1>1, LenProperties
<1>4. \A i \in 1..Len(reviews[v][f]) : reviews[v][f][i] \in Revision
    BY <1>1, ElementOfSeq
<1>5. reviews[v][f] = <<>> <=> Len(reviews[v][f]) = 0
    BY <1>1, EmptySeq
<1> QED BY <1>1, <1>2, <1>3, <1>4, <1>5

\* The rows a publication committed, one by one.
LEMMA CommittedRows ==
    ASSUME Typed, NEW v \in Versions
    PROVE  \A row : row \in Committed(v) <=>
             \E f \in Frames : \E i \in 1..Len(reviews[v][f]) : row = Row(<<f, reviews[v][f][i]>>)
<1>1. \A f \in Frames : DOMAIN reviews[v][f] = 1..Len(reviews[v][f])
    BY Histories
<1> QED BY <1>1 DEF Committed

LEMMA RowTyped ==
    ASSUME NEW f \in Frames, NEW e \in Revision
    PROVE  Row(<<f, e>>) \in RowOf
BY DEF Row, RowOf, Revision

\* The revision a frame is at.
LEMMA CurrentFacts ==
    ASSUME Parameters, Typed, HistoryInv, NEW v \in Versions, NEW f \in Frames
    PROVE  LET c == Current(v, f)  n == Len(reviews[v][f]) IN
           /\ c.revision = n /\ n <= saves
           /\ c.status \in Status
           /\ c.id = IF n = 0 THEN 0 ELSE reviews[v][f][n].id
           /\ c.id <= saves /\ c.id \in Nat
<1> DEFINE n == Len(reviews[v][f])
<1>1. CASE n = 0
    <2>1. Current(v, f) = Unreviewed
        BY <1>1, Histories DEF Current
    <2>2. saves \in Nat
        BY Numbers DEF Typed
    <2> QED BY <1>1, <2>1, <2>2 DEF Unreviewed, Status
<1>2. CASE n # 0
    <2>1. n \in 1..n /\ Current(v, f) = reviews[v][f][n]
        BY <1>2, Histories DEF Current
    <2>2. EntryInv(v, f, n) /\ reviews[v][f][n] \in Revision
        BY <2>1, Histories DEF HistoryInv
    <2>3. saves \in Nat /\ reviews[v][f][n].id \in Nat
        BY <2>2, Numbers DEF Typed, Revision
    <2> QED BY <1>2, <2>1, <2>2, <2>3 DEF EntryInv, Revision, Status
<1> QED BY <1>1, <1>2

\* The masks a frame shows: none is of a later revision, and each is in its file.
LEMMA EffectiveFacts ==
    ASSUME Parameters, Typed, HistoryInv, NEW v \in Versions, NEW f \in Frames, NEW o \in Objs
    PROVE  LET e == EffectiveBefore(v, f) IN
           /\ e.masks[o] \in 0..Len(reviews[v][f]) \cup {None}
           /\ e.sums[o] \in 0..MaxSaves \cup {None}
           /\ e.masks[o] \notin {None, 0} => images[v][f][e.masks[o]][o] = e.sums[o]
<1> DEFINE n == Len(reviews[v][f])
           c == Current(v, f)
<1>0. n \in Nat /\ MaxSaves \in Nat
    BY Histories, Numbers
<1>1. CASE c.status = "edited"
    <2>1. n # 0
        BY <1>1, Histories DEF Current, Unreviewed
    <2>2. n \in 1..n /\ c = reviews[v][f][n]
        BY <2>1, Histories DEF Current
    <2>3. EntryInv(v, f, n) /\ reviews[v][f][n] \in Revision
        BY <2>2, Histories DEF HistoryInv
    <2>4. EffectiveBefore(v, f) = c
        BY <1>1 DEF EffectiveBefore
    <2> HIDE DEF c
    <2> QED BY <2>2, <2>3, <2>4 DEF EntryInv, Revision
<1>2. CASE c.status # "edited"
    <2>1. EffectiveBefore(v, f) = [c EXCEPT !.masks = Raw, !.sums = Raw]
        BY <1>2 DEF EffectiveBefore
    <2>2. CASE n = 0
        <3>1. c = Unreviewed
            BY <2>2, Histories DEF Current
        <3>2. EffectiveBefore(v, f).masks = Raw /\ EffectiveBefore(v, f).sums = Raw
            BY <2>1, <3>1 DEF Unreviewed
        <3> QED BY <1>0, <3>2 DEF Raw
    <2>3. CASE n # 0
        <3>1. n \in 1..n /\ c = reviews[v][f][n]
            BY <2>3, Histories DEF Current
        <3>2. c \in Revision
            BY <3>1, Histories
        <3>3. EffectiveBefore(v, f).masks = Raw /\ EffectiveBefore(v, f).sums = Raw
            BY <2>1, <3>2 DEF Revision
        <3> QED BY <1>0, <3>3 DEF Raw
    <2> QED BY <2>2, <2>3
<1> QED BY <1>1, <1>2

\* A save in progress, and what it holds.
LEMMA SaveFacts ==
    ASSUME Parameters, Typed, SaveInv, save # Idle
    PROVE  /\ save \in Save /\ save.tab \in Tabs /\ save.id \in Saves /\ saves \in Saves
           /\ save.id = saves
           /\ page[save.tab] \in Page
           /\ DOMAIN save.updates \subseteq Frames
           /\ \A f \in DOMAIN save.updates : save.updates[f] \in Updates
           /\ \A f \in DOMAIN save.updates :
                 page[save.tab].visited[f] \in [revision : 0..MaxSaves, status : Status, id : 0..MaxSaves]
<1>1. save \in Save
    BY DEF Typed
<1>2. save.tab \in Tabs /\ save.id \in Saves /\ save.id = saves
    BY <1>1 DEF Save, SaveInv
<1>3. PICK S \in SUBSET Frames : save.updates \in [S -> Updates]
    BY <1>1 DEF Save
<1>4. page[save.tab] \in Page
    BY <1>2 DEF Typed, SaveInv, Closed
<1>5. PICK D \in SUBSET Frames : page[save.tab].visited \in
              [D -> [revision : 0..MaxSaves, status : Status, id : 0..MaxSaves]]
    BY <1>4 DEF Page
<1>6. S \subseteq D
    BY <1>3, <1>5 DEF SaveInv
<1> QED BY <1>1, <1>2, <1>3, <1>4, <1>5, <1>6

\* The directory a save draws in: that of no revision yet.
LEMMA NextFacts ==
    ASSUME Parameters, Typed, HistoryInv, SaveInv,
           save.at \in {"writing", "written", "replacing"}, NEW f \in DOMAIN save.updates
    PROVE  LET n == Len(reviews[version][f]) IN
           /\ f \in Frames /\ NextRevision(version, f) = n + 1
           /\ n + 1 <= saves /\ n + 1 \in Saves
<1> DEFINE n == Len(reviews[version][f])
<1>0. save # Idle /\ version \in Versions
    BY DEF Idle, Typed
<1>1. f \in Frames /\ save.id = saves /\ saves \in Saves
    BY <1>0, SaveFacts
<1>2. n \in Nat /\ NextRevision(version, f) = n + 1
    BY <1>0, <1>1, Histories, CurrentFacts DEF NextRevision
<1>3. n + 1 <= saves
    <2>1. CASE n = 0
        BY <1>1, <2>1, Numbers
    <2>2. CASE n # 0
        <3>1. n \in 1..n
            BY <1>2, <2>2
        <3>2. reviews[version][f][n].id < save.id
            BY <1>0, <1>1, <3>1 DEF SaveInv, UncommittedInv
        <3>3. EntryInv(version, f, n) /\ reviews[version][f][n] \in Revision
            BY <1>0, <1>1, <3>1, Histories DEF HistoryInv
        <3>4. n <= reviews[version][f][n].id /\ reviews[version][f][n].id \in Nat
            BY <3>3, Numbers DEF EntryInv, Revision
        <3> QED BY <1>1, <1>2, <3>2, <3>4, Numbers
    <2> QED BY <2>1, <2>2
<1>4. n + 1 \in Saves
    BY <1>1, <1>2, <1>3, Numbers DEF Saves
<1> QED BY <1>1, <1>2, <1>3, <1>4

\* The entry a save prepares, before the manifest is replaced.
LEMMA PreparedFacts ==
    ASSUME Parameters, Typed, HistoryInv, PageInv, SaveInv,
           save.at \in {"written", "replacing"}, NEW f \in DOMAIN save.updates
    PROVE  LET p == Prepared(version, f, save.updates[f])  n == Len(reviews[version][f]) IN
           /\ p \in Revision
           /\ p.revision = n + 1 /\ n + 1 <= saves /\ p.id = saves /\ p.shown = version
           /\ p.base = IF n = 0 THEN 0 ELSE reviews[version][f][n].id
           /\ \A o \in Objs : p.masks[o] \in 0..(n + 1) \cup {None}
           /\ \A o \in Objs : p.masks[o] \notin {None, 0} =>
                 images[version][f][p.masks[o]][o] = p.sums[o]
<1> DEFINE n == Len(reviews[version][f])
           u == save.updates[f]
           p == Prepared(version, f, u)
           before == EffectiveBefore(version, f)
           Pick(drawn, kept) == [o \in Objs |-> IF u.status = "ok" THEN 0 ELSE
                                   CASE u.change[o] = "edit" -> drawn
                                     [] u.change[o] = "retain" -> kept[o]
                                     [] OTHER -> None]
<1>0. save # Idle /\ version \in Versions
    BY DEF Idle, Typed
<1>1. /\ f \in Frames /\ u \in Updates /\ save.id = saves /\ saves \in Saves /\ save.tab \in Tabs
      /\ page[save.tab].visited[f] \in [revision : 0..MaxSaves, status : Status, id : 0..MaxSaves]
    BY <1>0, SaveFacts
<1>2. n \in Nat /\ Current(version, f).revision = n
    BY <1>0, <1>1, Histories, CurrentFacts
<1>3. NextRevision(version, f) = n + 1 /\ n + 1 <= saves
    BY NextFacts
<1>5. p = [revision |-> n + 1, status |-> u.status, masks |-> Pick(n + 1, before.masks),
           sums |-> Pick(saves, before.sums), id |-> saves,
           base |-> page[save.tab].visited[f].id, shown |-> page[save.tab].version]
    BY <1>1, <1>3 DEF Prepared
<1>6. page[save.tab].version = version
    BY <1>0 DEF SaveInv
<1>7. /\ u.status \in {"ok", "edited"}
      /\ \A o \in Objs : u.change[o] \in {"edit", "retain", "delete"}
    BY <1>1 DEF Updates, Ok, Changes
<1>P. p.masks = Pick(n + 1, before.masks) /\ p.sums = Pick(saves, before.sums)
    <2> HIDE DEF p, before, u
    <2> QED BY <1>5
<1>8. ASSUME NEW o \in Objs
      PROVE  /\ p.masks[o] \in 0..(n + 1) \cup {None}
             /\ p.sums[o] \in 0..MaxSaves \cup {None}
             /\ p.masks[o] \notin {None, 0} => images[version][f][p.masks[o]][o] = p.sums[o]
    <2>1. /\ before.masks[o] \in 0..n \cup {None}
          /\ before.sums[o] \in 0..MaxSaves \cup {None}
          /\ before.masks[o] \notin {None, 0} =>
                images[version][f][before.masks[o]][o] = before.sums[o]
        BY <1>0, <1>1, EffectiveFacts
    <2>2. 0..n \subseteq 0..(n + 1) /\ n + 1 \in 0..(n + 1) /\ 0 \in 0..(n + 1)
        BY <1>2
    <2>3. 0 \in 0..MaxSaves /\ saves \in 0..MaxSaves
        BY <1>1, Numbers
    <2> HIDE DEF before, p, u
    <2>4. CASE u.status = "ok"
        <3>1. p.masks[o] = 0 /\ p.sums[o] = 0
            BY <1>P, <2>4
        <3> QED BY <2>2, <2>3, <3>1
    <2>5. CASE u.status = "edited" /\ u.change[o] = "edit"
        <3>1. p.masks[o] = n + 1 /\ p.sums[o] = saves
            BY <1>P, <2>5
        <3>2. images[version][f][n + 1][o] = saves
            BY <1>1, <1>3, <2>5 DEF SaveInv, DrawnInv, Drawn, u
        <3> QED BY <2>2, <2>3, <3>1, <3>2
    <2>6. CASE u.status = "edited" /\ u.change[o] = "retain"
        <3>1. p.masks[o] = before.masks[o] /\ p.sums[o] = before.sums[o]
            BY <1>P, <2>6
        <3> QED BY <2>1, <2>2, <3>1
    <2>7. CASE u.status = "edited" /\ u.change[o] = "delete"
        <3>1. p.masks[o] = None /\ p.sums[o] = None
            BY <1>P, <2>7
        <3> QED BY <3>1
    <2> QED BY <1>7, <2>4, <2>5, <2>6, <2>7
<1>9. p.base = IF n = 0 THEN 0 ELSE reviews[version][f][n].id
    <2>1. page[save.tab].visited[f].revision = n
        BY <1>0 DEF SaveInv, UncommittedInv
    <2>2. SeenInv(save.tab, f)
        BY <1>0, <1>1 DEF PageInv, SaveInv
    <2> QED BY <1>5, <1>6, <2>1, <2>2 DEF SeenInv
<1>10. p \in Revision
    <2>1. 0..(n + 1) \subseteq 0..MaxSaves /\ n + 1 \in Saves
        BY <1>1, <1>2, <1>3, Numbers DEF Saves
    <2>2. p.masks \in [Objs -> 0..MaxSaves \cup {None}] /\ p.sums \in [Objs -> 0..MaxSaves \cup {None}]
        <3>1. \A o \in Objs : p.masks[o] \in 0..MaxSaves \cup {None} /\ p.sums[o] \in 0..MaxSaves \cup {None}
            BY <1>8, <2>1
        <3>2. p.masks = [o \in Objs |-> p.masks[o]] /\ p.sums = [o \in Objs |-> p.sums[o]]
            BY <1>P
        <3> QED BY <3>1, <3>2
    <2>3. page[save.tab].visited[f].id \in 0..MaxSaves
        BY <1>1
    <2> HIDE DEF p, before, u
    <2>4. p = [revision |-> n + 1, status |-> u.status, masks |-> p.masks,
               sums |-> p.sums, id |-> saves,
               base |-> page[save.tab].visited[f].id, shown |-> version]
        BY <1>5, <1>6
    <2> QED BY <1>0, <1>1, <1>7, <2>1, <2>2, <2>3, <2>4 DEF Revision
<1>11. p.revision = n + 1 /\ p.id = saves /\ p.shown = version
    BY <1>5, <1>6
<1> QED BY <1>3, <1>8, <1>9, <1>10, <1>11

-----------------------------------------------------------------------------
(* Types *)

\* What os.replace puts in place of the manifest.
LEMMA ReplaceEffect ==
    ASSUME Parameters, Typed, HistoryInv, PageInv, SaveInv, Replace
    PROVE  /\ reviews' \in [Versions -> [Frames -> Seq(Revision)]]
           /\ \A v \in Versions, f \in Frames :
                 ~ (v = version /\ f \in DOMAIN save.updates) => reviews'[v][f] = reviews[v][f]
           /\ \A f \in DOMAIN save.updates :
                 LET n == Len(reviews[version][f]) IN
                 /\ Len(reviews'[version][f]) = n + 1
                 /\ reviews'[version][f][n + 1] = Prepared(version, f, save.updates[f])
                 /\ \A i \in 1..n : reviews'[version][f][i] = reviews[version][f][i]
<1>0. save # Idle /\ version \in Versions /\ save.at = "replacing"
    BY DEF Idle, Typed, Replace
<1>1. DOMAIN save.updates \subseteq Frames
    BY <1>0, SaveFacts
<1> DEFINE After(f) == IF f \in DOMAIN save.updates
                       THEN Append(reviews[version][f], Prepared(version, f, save.updates[f]))
                       ELSE reviews[version][f]
<1>2. reviews' = [reviews EXCEPT ![version] = [f \in Frames |-> After(f)]]
    BY DEF Replace
<1>3. ASSUME NEW f \in DOMAIN save.updates
      PROVE  LET n == Len(reviews[version][f]) IN
             /\ After(f) \in Seq(Revision)
             /\ Len(After(f)) = n + 1
             /\ After(f)[n + 1] = Prepared(version, f, save.updates[f])
             /\ \A i \in 1..n : After(f)[i] = reviews[version][f][i]
    <2>1. Prepared(version, f, save.updates[f]) \in Revision
        BY <1>0, PreparedFacts
    <2>2. reviews[version][f] \in Seq(Revision)
        BY <1>0, <1>1, Histories
    <2> QED BY <2>1, <2>2, AppendProperties
<1>4. \A f \in Frames : After(f) \in Seq(Revision)
    BY <1>0, <1>3, Histories
<1> HIDE DEF After
<1>5. \A v \in Versions, f \in Frames :
         reviews'[v][f] = IF v = version THEN After(f) ELSE reviews[v][f]
    BY <1>0, <1>2 DEF Typed
<1>6. reviews' \in [Versions -> [Frames -> Seq(Revision)]]
    BY <1>0, <1>2, <1>4 DEF Typed
<1>7. \A f \in Frames : f \notin DOMAIN save.updates => After(f) = reviews[version][f]
    BY DEF After
<1> QED BY <1>0, <1>1, <1>3, <1>5, <1>6, <1>7

LEMMA PageTyped ==
    ASSUME NEW D \in SUBSET Frames, NEW v \in Versions, NEW known \in SUBSET Frames,
           NEW visited \in [D -> [revision : 0..MaxSaves, status : Status, id : 0..MaxSaves]]
    PROVE  [at |-> "open", version |-> v, visited |-> visited, known |-> known] \in Page
BY DEF Page

LEMMA OpenedPage ==
    ASSUME Parameters, Typed, NEW t \in Tabs, page[t].at = "open"
    PROVE  /\ page[t] \in Page /\ page[t].version \in Versions
           /\ DOMAIN page[t].visited \subseteq Frames
           /\ \A g \in DOMAIN page[t].visited :
                 page[t].visited[g] \in [revision : 0..MaxSaves, status : Status, id : 0..MaxSaves]
<1>1. page[t] \in Page
    BY DEF Typed, Closed
<1>2. PICK D \in SUBSET Frames : page[t].visited \in
              [D -> [revision : 0..MaxSaves, status : Status, id : 0..MaxSaves]]
    BY <1>1 DEF Page
<1> QED BY <1>1, <1>2 DEF Page

\* What VisitFrame makes of the page.
LEMMA VisitEffect ==
    ASSUME Parameters, Typed, HistoryInv, NEW t \in Tabs, NEW f \in Frames, VisitFrame(t, f)
    PROVE  /\ page' \in [Tabs -> Page \cup {Closed}]
           /\ \A u \in Tabs : u # t => page'[u] = page[u]
           /\ page'[t].at = "open" /\ page'[t].version = version
           /\ DOMAIN page'[t].visited = {f} \cup DOMAIN page[t].visited
           /\ page'[t].visited[f] = Shown(Current(version, f))
           /\ \A g \in DOMAIN page[t].visited : page'[t].visited[g] = page[t].visited[g]
<1> DEFINE seen == [revision : 0..MaxSaves, status : Status, id : 0..MaxSaves]
           visited == [g \in {f} \cup DOMAIN page[t].visited |->
                         IF g = f THEN Shown(Current(version, f)) ELSE page[t].visited[g]]
<1>0. page[t].at = "open" /\ page[t].version = version /\ f \notin DOMAIN page[t].visited
    BY DEF VisitFrame
<1>1. /\ page[t] \in Page /\ DOMAIN page[t].visited \subseteq Frames
      /\ \A g \in DOMAIN page[t].visited : page[t].visited[g] \in seen
    BY <1>0, OpenedPage
<1>2. Shown(Current(version, f)) \in seen
    <2>1. LET c == Current(version, f) IN
          /\ c.revision \in Nat /\ c.revision <= saves /\ c.status \in Status
          /\ c.id \in Nat /\ c.id <= saves
        BY CurrentFacts, Histories DEF Typed
    <2>2. \A x \in Nat : x <= saves => x \in 0..MaxSaves
        BY Numbers DEF Typed
    <2> QED BY <2>1, <2>2 DEF Shown
<1>3. visited \in [{f} \cup DOMAIN page[t].visited -> seen]
    BY <1>1, <1>2
<1>4. page' = [page EXCEPT ![t] = [page[t] EXCEPT !.visited = visited]]
    BY DEF VisitFrame
<1>5. [page[t] EXCEPT !.visited = visited] =
         [at |-> "open", version |-> version, visited |-> visited, known |-> page[t].known]
    BY <1>0, <1>1 DEF Page
<1>6. [page[t] EXCEPT !.visited = visited] \in Page
    <2> HIDE DEF visited, seen
    <2>1. page[t].known \in SUBSET Frames /\ version \in Versions
        BY <1>1 DEF Page, Typed
    <2> QED BY <1>1, <1>3, <1>5, <2>1, PageTyped DEF seen
<1>7. /\ page'[t] = [at |-> "open", version |-> version, visited |-> visited, known |-> page[t].known]
      /\ \A u \in Tabs : u # t => page'[u] = page[u]
    BY <1>4, <1>5 DEF Typed
<1>8. page' \in [Tabs -> Page \cup {Closed}]
    BY <1>4, <1>6 DEF Typed
<1>9. DOMAIN visited = {f} \cup DOMAIN page[t].visited /\ visited[f] = Shown(Current(version, f))
      /\ \A g \in DOMAIN page[t].visited : visited[g] = page[t].visited[g]
    BY <1>0
<1> HIDE DEF visited
<1> QED BY <1>7, <1>8, <1>9

LEMMA OpenEffect ==
    ASSUME Parameters, Typed, NEW t \in Tabs, OpenSegment(t)
    PROVE  /\ page' \in [Tabs -> Page \cup {Closed}]
           /\ \A u \in Tabs : u # t => page'[u] = page[u]
           /\ DOMAIN page'[t].visited = {}
<1> DEFINE known == {f \in Frames : Current(version, f).status # "none"}
           opened == [at |-> "open", version |-> version, visited |-> <<>>, known |-> known]
<1>1. page' = [page EXCEPT ![t] = opened]
    BY DEF OpenSegment
<1>2. <<>> \in [{} -> [revision : 0..MaxSaves, status : Status, id : 0..MaxSaves]]
    OBVIOUS
<1>3. opened \in Page
    <2>1. version \in Versions /\ known \in SUBSET Frames /\ {} \in SUBSET Frames
        BY DEF Typed
    <2> HIDE DEF known
    <2> QED BY <1>2, <2>1, PageTyped
<1>4. DOMAIN opened.visited = {}
    OBVIOUS
<1> HIDE DEF opened
<1> QED BY <1>1, <1>3, <1>4 DEF Typed

\* What Enter makes of the request.
LEMMA EnterEffect ==
    ASSUME Parameters, Typed, NEW t \in Tabs, NEW kind \in {"batch", "frame"}, Enter(t, kind)
    PROVE  /\ save' \in Save /\ save'.at = "writing" /\ save'.tab = t
           /\ save'.id = saves + 1 /\ saves' = saves + 1 /\ saves + 1 \in Saves
           /\ DOMAIN save'.updates \subseteq DOMAIN page[t].visited
           /\ page[t].at = "open" /\ page[t].version = version
           /\ \A f \in DOMAIN save'.updates :
                 Current(version, f).revision = page[t].visited[f].revision
<1>0. page[t].at = "open" /\ page[t].version = version /\ saves' = saves + 1
    BY DEF Enter, ShownIsCurrent
<1>1. saves + 1 \in Saves
    BY Numbers DEF Enter, Typed, Saves
<1>2. PICK S \in SUBSET DOMAIN page[t].visited \ {{}} :
         /\ RevisionsExpected(t, S)
         /\ \E updates \in [S -> Updates] :
               save' = [at |-> "writing", tab |-> t, kind |-> kind, id |-> saves + 1,
                        updates |-> updates, rows |-> {}]
    BY DEF Enter
<1>3. PICK updates \in [S -> Updates] :
         save' = [at |-> "writing", tab |-> t, kind |-> kind, id |-> saves + 1,
                  updates |-> updates, rows |-> {}]
    BY <1>2
<1>4. S \subseteq DOMAIN page[t].visited /\ S \in SUBSET Frames
    <2>1. page[t] \in Page
        BY <1>0 DEF Typed, Closed
    <2>2. PICK D \in SUBSET Frames : page[t].visited \in
              [D -> [revision : 0..MaxSaves, status : Status, id : 0..MaxSaves]]
        BY <2>1 DEF Page
    <2> QED BY <1>2, <2>2
<1>5. updates \in UNION {[R -> Updates] : R \in SUBSET Frames}
    BY <1>3, <1>4
<1>6. save' \in Save
    BY <1>1, <1>3, <1>5 DEF Save
<1>7. save'.updates = updates /\ DOMAIN updates = S
    BY <1>3
<1>8. save'.at = "writing" /\ save'.tab = t /\ save'.id = saves + 1
    BY <1>3
<1> QED BY <1>0, <1>1, <1>2, <1>4, <1>6, <1>7, <1>8 DEF RevisionsExpected

\* Where BeforeCommit, WriteImages and Replace take the save.
LEMMA SaveMoved ==
    ASSUME save \in Save, NEW at \in {"writing", "written", "replacing", "committed"},
           save' = [save EXCEPT !.at = at]
    PROVE  /\ save' \in Save /\ save'.at = at /\ save'.rows = save.rows
           /\ save'.tab = save.tab /\ save'.id = save.id /\ save'.updates = save.updates
BY DEF Save

LEMMA SaveIndexes ==
    ASSUME save \in Save, NEW rows \in SUBSET RowOf,
           save' = [save EXCEPT !.at = "replacing", !.rows = rows]
    PROVE  /\ save' \in Save /\ save'.at = "replacing" /\ save'.rows = rows
           /\ save'.tab = save.tab /\ save'.id = save.id /\ save'.updates = save.updates
BY DEF Save

LEMMA EntriesTyped ==
    ASSUME Parameters, Typed, HistoryInv, PageInv, SaveInv, save.at \in {"written", "replacing"}
    PROVE  {Row(p) : p \in Entries} \subseteq RowOf
<1>1. \A f \in DOMAIN save.updates :
         f \in Frames /\ Prepared(version, f, save.updates[f]) \in Revision
    BY NextFacts, PreparedFacts
<1> QED BY <1>1, RowTyped DEF Entries

\* The images a save writes, and those it leaves alone.
LEMMA WriteEffect ==
    ASSUME Parameters, Typed, HistoryInv, SaveInv, WriteImages
    PROVE  /\ images' \in [Versions -> [Frames -> [Saves -> [Objs -> 0..MaxSaves]]]]
           /\ \A v \in Versions, f \in Frames, n \in Saves, o \in Objs :
                 images'[v][f][n][o] =
                    IF /\ v = version /\ f \in DOMAIN save.updates
                       /\ n = NextRevision(version, f) /\ o \in Drawn(save.updates[f])
                    THEN save.id ELSE images[v][f][n][o]
<1> DEFINE Written(f, n, o) == IF /\ f \in DOMAIN save.updates /\ n = NextRevision(version, f)
                                  /\ o \in Drawn(save.updates[f])
                               THEN save.id ELSE images[version][f][n][o]
<1>0. save # Idle /\ version \in Versions
    BY DEF Idle, Typed, WriteImages
<1>1. images' = [images EXCEPT ![version] =
                    [f \in Frames |-> [n \in Saves |-> [o \in Objs |-> Written(f, n, o)]]]]
    BY DEF WriteImages
<1>2. \A f \in Frames, n \in Saves, o \in Objs : Written(f, n, o) \in 0..MaxSaves
    <2>1. save.id \in 0..MaxSaves
        BY <1>0, SaveFacts, Numbers
    <2>2. \A f \in Frames, n \in Saves, o \in Objs : images[version][f][n][o] \in 0..MaxSaves
        BY <1>0 DEF Typed
    <2> QED BY <2>1, <2>2
<1>3. \A v \in Versions, f \in Frames, n \in Saves, o \in Objs :
         images'[v][f][n][o] = IF v = version THEN Written(f, n, o) ELSE images[v][f][n][o]
    <2> HIDE DEF Written
    <2> QED BY <1>0, <1>1 DEF Typed
<1>4. images' \in [Versions -> [Frames -> [Saves -> [Objs -> 0..MaxSaves]]]]
    <2> HIDE DEF Written
    <2> QED BY <1>0, <1>1, <1>2 DEF Typed
<1> QED BY <1>3, <1>4

\* Typed is kept by every step.
LEMMA TypedStep ==
    ASSUME Parameters, Typed, HistoryInv, PageInv, SaveInv, [Next]_vars
    PROVE  Typed'
<1> USE DEF Typed
<1>1. ASSUME NEW t \in Tabs, OpenSegment(t)
      PROVE  Typed'
    BY <1>1, OpenEffect DEF OpenSegment, storeVars
<1>2. ASSUME NEW t \in Tabs, NEW f \in Frames, VisitFrame(t, f)
      PROVE  Typed'
    BY <1>2, VisitEffect DEF VisitFrame, storeVars
<1>3. ASSUME NEW t \in Tabs, NEW kind \in {"batch", "frame"}, Enter(t, kind)
      PROVE  Typed'
    <2>1. save' \in Save /\ saves' = saves + 1 /\ saves + 1 \in Saves
        BY <1>3, EnterEffect
    <2>2. saves' \in 0..MaxSaves
        BY <2>1, Numbers
    <2>3. UNCHANGED <<version, runs, storeVars, page>>
        BY <1>3 DEF Enter
    <2> QED BY <2>1, <2>2, <2>3 DEF storeVars
<1>4. CASE WriteImages
    <2>1. save \in Save
        BY <1>4 DEF WriteImages, Idle
    <2>2. save' \in Save
        BY <1>4, <2>1, SaveMoved DEF WriteImages
    <2> QED BY <1>4, <2>2, WriteEffect DEF WriteImages
<1>5. CASE BeforeCommit
    <2>1. save \in Save
        BY <1>5 DEF BeforeCommit, Idle
    <2>2. NewRows \in SUBSET RowOf
        BY <1>5, EntriesTyped DEF BeforeCommit, NewRows
    <2>3. save' \in Save \cup {Idle}
        BY <1>5, <2>1, <2>2, SaveIndexes DEF BeforeCommit
    <2> QED BY <1>5, <2>3 DEF BeforeCommit, storeVars
<1>6. CASE Replace
    <2>1. save \in Save
        BY <1>6 DEF Replace, Idle
    <2>2. save' \in Save
        BY <1>6, <2>1, SaveMoved DEF Replace
    <2> QED BY <1>6, <2>2, ReplaceEffect DEF Replace
<1>7. CASE Finish
    BY <1>7 DEF Finish
<1>8. CASE Fail
    BY <1>8 DEF Fail, storeVars
<1>9. ASSUME NEW s \in Saves, SyncRead(s)
      PROVE  Typed'
    BY <1>9 DEF SyncRead, storeVars
<1>10. ASSUME NEW s \in Saves, SyncIndex(s)
       PROVE  Typed'
    BY <1>10 DEF SyncIndex
<1>11. CASE Republish
    <2>1. version + 1 \in Versions
        BY <1>11, Numbers DEF Republish, Versions
    <2> QED BY <1>11, <2>1 DEF Republish, storeVars
<1>12. CASE IndexRun
    BY <1>12 DEF IndexRun, storeVars
<1>13. CASE UNCHANGED vars
    BY <1>13 DEF vars, storeVars
<1> QED BY <1>1, <1>2, <1>3, <1>4, <1>5, <1>6, <1>7, <1>8, <1>9, <1>10, <1>11, <1>12, <1>13
       DEF Next, Serve

-----------------------------------------------------------------------------
(* The history: what is committed is never changed *)

Unchanged == UNCHANGED <<reviews, images, saves>>

\* Only four actions touch a manifest, an image or the number of saves.
LEMMA StepsOfHistory ==
    ASSUME [Next]_vars
    PROVE  \/ \E t \in Tabs, kind \in {"batch", "frame"} : Enter(t, kind)
           \/ WriteImages \/ Replace \/ Unchanged
<1> USE DEF Unchanged
<1>1. ASSUME NEW t \in Tabs, OpenSegment(t) \/ \E f \in Frames : VisitFrame(t, f)
      PROVE  Unchanged
    BY <1>1 DEF OpenSegment, VisitFrame, storeVars
<1>2. CASE BeforeCommit \/ Finish \/ Fail
    BY <1>2 DEF BeforeCommit, Finish, Fail, storeVars
<1>3. ASSUME NEW s \in Saves, SyncRead(s) \/ SyncIndex(s)
      PROVE  Unchanged
    BY <1>3 DEF SyncRead, SyncIndex, storeVars
<1>4. CASE Republish \/ IndexRun \/ UNCHANGED vars
    BY <1>4 DEF Republish, IndexRun, vars, storeVars
<1> QED BY <1>1, <1>2, <1>3, <1>4 DEF Next, Serve

\* The history of a frame only grows.
LEMMA HistoriesExtend ==
    ASSUME Parameters, Typed, HistoryInv, PageInv, SaveInv, [Next]_vars,
           NEW v \in Versions, NEW f \in Frames
    PROVE  /\ Len(reviews[v][f]) <= Len(reviews'[v][f])
           /\ \A i \in 1..Len(reviews[v][f]) : reviews'[v][f][i] = reviews[v][f][i]
<1>0. Len(reviews[v][f]) \in Nat
    BY Histories
<1>1. CASE Replace
    <2>1. CASE v = version /\ f \in DOMAIN save.updates
        BY <1>0, <1>1, <2>1, ReplaceEffect
    <2>2. CASE ~ (v = version /\ f \in DOMAIN save.updates)
        <3>1. reviews'[v][f] = reviews[v][f]
            BY <1>1, <2>2, ReplaceEffect
        <3> QED BY <1>0, <3>1
    <2> QED BY <2>1, <2>2
<1>2. CASE reviews' = reviews
    BY <1>0, <1>2
<1> QED BY <1>1, <1>2, StepsOfHistory DEF Unchanged, Enter, WriteImages, storeVars

LEMMA CommittedGrows ==
    ASSUME Parameters, Typed, HistoryInv, PageInv, SaveInv, [Next]_vars, NEW v \in Versions
    PROVE  Committed(v) \subseteq Committed(v)'
<1>1. Typed'
    BY TypedStep
<1>2. ASSUME NEW f \in Frames, NEW i \in 1..Len(reviews[v][f])
      PROVE  /\ i \in 1..Len(reviews'[v][f])
             /\ reviews'[v][f][i] = reviews[v][f][i]
    <2>1. Len(reviews[v][f]) \in Nat /\ Len(reviews'[v][f]) \in Nat
        BY <1>1, Histories DEF Typed
    <2> QED BY <2>1, HistoriesExtend
<1>3. \A f \in Frames : DOMAIN reviews[v][f] = 1..Len(reviews[v][f])
    BY Histories
<1>4. \A f \in Frames : DOMAIN reviews'[v][f] = 1..Len(reviews'[v][f])
    BY <1>1, LenProperties DEF Typed
<1>5. ASSUME NEW f \in Frames
      PROVE  {Row(<<f, reviews[v][f][i]>>) : i \in DOMAIN reviews[v][f]}
                \subseteq {Row(<<f, reviews'[v][f][i]>>) : i \in DOMAIN reviews'[v][f]}
    BY <1>2, <1>3, <1>4
<1> QED BY <1>5 DEF Committed, Row

\* HistoryInv is kept by every step: a save draws only where no revision refers
\* to, and adds the revision that it prepared.
LEMMA HistoryStep ==
    ASSUME Parameters, Typed, HistoryInv, PageInv, SaveInv, [Next]_vars
    PROVE  HistoryInv'
<1>0. saves \in Nat
    BY Numbers DEF Typed
<1>1. ASSUME NEW t \in Tabs, NEW kind \in {"batch", "frame"}, Enter(t, kind)
      PROVE  HistoryInv'
    <2>1. saves' = saves + 1 /\ UNCHANGED <<reviews, images>>
        BY <1>1 DEF Enter, storeVars
    <2>2. ASSUME NEW v \in Versions, NEW f \in Frames, NEW i \in 1..Len(reviews[v][f])
          PROVE  EntryInv(v, f, i)'
        <3>1. EntryInv(v, f, i) /\ reviews[v][f][i] \in Revision
            BY Histories DEF HistoryInv
        <3> reviews[v][f][i].id \in Nat
            <4>1. reviews[v][f][i].id \in Saves
                BY <3>1 DEF Revision
            <4> QED BY <4>1, Numbers
        <3>2. reviews[v][f][i].id <= saves'
            BY <1>0, <2>1, <3>1 DEF EntryInv
        <3> QED BY <2>1, <3>1, <3>2 DEF EntryInv
    <2> QED BY <2>1, <2>2 DEF HistoryInv
<1>2. CASE WriteImages
    <2>1. UNCHANGED <<reviews, saves>> /\ save.at = "writing"
        BY <1>2 DEF WriteImages
    <2>2. ASSUME NEW v \in Versions, NEW f \in Frames, NEW i \in 1..Len(reviews[v][f])
          PROVE  EntryInv(v, f, i)'
        <3> DEFINE e == reviews[v][f][i]
        <3>1. EntryInv(v, f, i) /\ e \in Revision /\ Len(reviews[v][f]) \in Nat
            BY Histories DEF HistoryInv
        <3>2. ASSUME NEW o \in Objs, e.masks[o] \notin {None, 0}
              PROVE  images'[v][f][e.masks[o]][o] = images[v][f][e.masks[o]][o]
            <4>1. e.masks[o] \in 0..i
                BY <3>1, <3>2 DEF EntryInv
            <4>2. e.masks[o] \in Saves
                BY <3>1, <3>2, Numbers DEF Revision, Saves
            <4>3. ~ (v = version /\ f \in DOMAIN save.updates /\ e.masks[o] = NextRevision(version, f))
                <5>1. SUFFICES ASSUME v = version, f \in DOMAIN save.updates,
                                      e.masks[o] = NextRevision(version, f)
                               PROVE  FALSE
                    OBVIOUS
                <5>2. e.masks[o] = Len(reviews[v][f]) + 1
                    BY <2>1, <5>1, NextFacts
                <5> HIDE DEF e
                <5> QED BY <3>1, <4>1, <5>2
            <4> QED BY <1>2, <4>2, <4>3, WriteEffect
        <3> QED BY <2>1, <3>1, <3>2 DEF EntryInv
    <2> QED BY <2>1, <2>2 DEF HistoryInv
<1>3. CASE Replace
    <2>1. UNCHANGED <<images, saves>> /\ save.at = "replacing" /\ version \in Versions
        BY <1>3 DEF Replace, Typed
    <2>2. ASSUME NEW v \in Versions, NEW f \in Frames, NEW i \in 1..Len(reviews[v][f]),
                 reviews'[v][f][i] = reviews[v][f][i],
                 \A j \in 1..Len(reviews[v][f]) : reviews'[v][f][j] = reviews[v][f][j]
          PROVE  EntryInv(v, f, i)'
        <3>1. EntryInv(v, f, i) /\ Len(reviews[v][f]) \in Nat
            BY Histories DEF HistoryInv
        <3>2. i # 1 => i - 1 \in 1..Len(reviews[v][f])
            BY <3>1
        <3> QED BY <2>1, <2>2, <3>1, <3>2 DEF EntryInv
    <2>3. ASSUME NEW v \in Versions, NEW f \in Frames, NEW i \in 1..Len(reviews'[v][f]),
                 ~ (v = version /\ f \in DOMAIN save.updates)
          PROVE  EntryInv(v, f, i)'
        <3>1. reviews'[v][f] = reviews[v][f]
            BY <1>3, <2>3, ReplaceEffect
        <3> QED BY <2>2, <2>3, <3>1
    <2>4. ASSUME NEW v \in Versions, v = version, NEW f \in DOMAIN save.updates,
                 NEW i \in 1..Len(reviews'[v][f])
          PROVE  EntryInv(v, f, i)'
        <3> DEFINE n == Len(reviews[v][f])
                   p == Prepared(version, f, save.updates[f])
        <3>1. /\ f \in Frames /\ n \in Nat
              /\ Len(reviews'[v][f]) = n + 1 /\ reviews'[v][f][n + 1] = p
              /\ \A j \in 1..n : reviews'[v][f][j] = reviews[v][f][j]
            BY <1>3, <2>1, <2>4, ReplaceEffect, NextFacts, Histories
        <3>2. CASE i \in 1..n
            BY <2>2, <2>4, <3>1, <3>2
        <3>3. CASE i = n + 1
            <4>1. /\ p \in Revision
                  /\ p.revision = n + 1 /\ n + 1 <= saves /\ p.id = saves /\ p.shown = v
                  /\ p.base = IF n = 0 THEN 0 ELSE reviews[v][f][n].id
                  /\ \A o \in Objs : p.masks[o] \in 0..(n + 1) \cup {None}
                  /\ \A o \in Objs : p.masks[o] \notin {None, 0} =>
                        images[v][f][p.masks[o]][o] = p.sums[o]
                BY <2>1, <2>4, PreparedFacts
            <4>2. p.base = IF i = 1 THEN 0 ELSE reviews'[v][f][i - 1].id
                <5>1. CASE n = 0
                    BY <3>3, <4>1, <5>1
                <5>2. CASE n # 0
                    <6>1. n \in 1..n /\ i # 1 /\ i - 1 = n
                        BY <3>1, <3>3, <5>2
                    <6>2. reviews'[v][f][n] = reviews[v][f][n]
                        BY <3>1, <6>1
                    <6> QED BY <4>1, <5>2, <6>1, <6>2
                <5> QED BY <5>1, <5>2
            <4>3. reviews'[v][f][i] = p
                BY <3>1, <3>3
            <4>4. saves <= saves
                BY <1>0
            <4> HIDE DEF p, n
            <4> QED BY <2>1, <3>3, <4>1, <4>2, <4>3, <4>4 DEF EntryInv
        <3> QED BY <3>1, <3>2, <3>3
    <2> QED BY <2>3, <2>4 DEF HistoryInv
<1>4. CASE Unchanged
    BY <1>4 DEF Unchanged, HistoryInv, EntryInv
<1> QED BY <1>1, <1>2, <1>3, <1>4, StepsOfHistory

-----------------------------------------------------------------------------
(* The pages and the save in progress *)

\* PageInv is kept by every step.
LEMMA PageStep ==
    ASSUME Parameters, Typed, HistoryInv, PageInv, SaveInv, [Next]_vars
    PROVE  PageInv'
<1>1. ASSUME NEW t \in Tabs, page'[t] = page[t], page[t].at = "open",
             NEW f \in DOMAIN page[t].visited
      PROVE  SeenInv(t, f)'
    <2> DEFINE v == page[t].version
               seen == page[t].visited[f]
    <2>1. /\ v \in Versions /\ f \in Frames
          /\ seen \in [revision : 0..MaxSaves, status : Status, id : 0..MaxSaves]
        BY <1>1, OpenedPage
    <2>2. SeenInv(t, f)
        BY <1>1 DEF PageInv
    <2>3. /\ Len(reviews[v][f]) <= Len(reviews'[v][f])
          /\ \A i \in 1..Len(reviews[v][f]) : reviews'[v][f][i] = reviews[v][f][i]
        BY <2>1, HistoriesExtend
    <2>4. Len(reviews[v][f]) \in Nat /\ Len(reviews'[v][f]) \in Nat
        <3>1. Typed'
            BY TypedStep
        <3> QED BY <2>1, <3>1, Histories DEF Typed
    <2>5. seen.revision \in Nat
        BY <2>1, Numbers
    <2>6. seen.revision <= Len(reviews'[v][f])
        <3>1. seen.revision <= Len(reviews[v][f])
            BY <2>2 DEF SeenInv
        <3> HIDE DEF seen, v
        <3> QED BY <2>3, <2>4, <2>5, <3>1
    <2>7. seen.revision # 0 => seen.revision \in 1..Len(reviews[v][f])
        BY <2>2, <2>4, <2>5 DEF SeenInv
    <2>8. seen.id = IF seen.revision = 0 THEN 0 ELSE reviews'[v][f][seen.revision].id
        BY <2>2, <2>3, <2>7 DEF SeenInv
    <2> QED BY <1>1, <2>6, <2>8 DEF SeenInv
<1>2. CASE page' = page
    BY <1>1, <1>2 DEF PageInv
<1>3. ASSUME NEW t \in Tabs, OpenSegment(t)
      PROVE  PageInv'
    <2>1. /\ \A u \in Tabs : u # t => page'[u] = page[u]
          /\ DOMAIN page'[t].visited = {}
        BY <1>3, OpenEffect
    <2> QED BY <1>1, <2>1 DEF PageInv
<1>4. ASSUME NEW t \in Tabs, NEW f \in Frames, VisitFrame(t, f)
      PROVE  PageInv'
    <2>1. /\ \A u \in Tabs : u # t => page'[u] = page[u]
          /\ page'[t].at = "open" /\ page'[t].version = version
          /\ DOMAIN page'[t].visited = {f} \cup DOMAIN page[t].visited
          /\ page'[t].visited[f] = Shown(Current(version, f))
          /\ \A g \in DOMAIN page[t].visited : page'[t].visited[g] = page[t].visited[g]
        BY <1>4, VisitEffect
    <2>2. /\ page[t].at = "open" /\ page[t].version = version /\ version \in Versions
          /\ reviews' = reviews
        BY <1>4 DEF VisitFrame, Typed, storeVars
    <2>3. SeenInv(t, f)'
        <3>1. LET c == Current(version, f)  n == Len(reviews[version][f]) IN
              /\ c.revision = n /\ n \in Nat
              /\ c.id = IF n = 0 THEN 0 ELSE reviews[version][f][n].id
            BY <2>2, CurrentFacts, Histories
        <3> QED BY <2>1, <2>2, <3>1 DEF SeenInv, Shown
    <2>4. ASSUME NEW g \in DOMAIN page[t].visited, g # f
          PROVE  SeenInv(t, g)'
        <3>1. SeenInv(t, g)
            BY <2>2 DEF PageInv
        <3> QED BY <2>1, <2>2, <3>1 DEF SeenInv
    <2>5. \A u \in Tabs : page'[u].at = "open" => \A g \in DOMAIN page'[u].visited : SeenInv(u, g)'
        <3> TAKE u \in Tabs
        <3>1. CASE u # t
            BY <1>1, <2>1, <3>1
        <3>2. CASE u = t
            BY <2>1, <2>3, <2>4, <3>2
        <3> QED BY <3>1, <3>2
    <2> QED BY <2>5 DEF PageInv
<1>5. CASE Finish
    <2>1. save # Idle /\ page' = [page EXCEPT ![save.tab] = Closed]
        BY <1>5 DEF Finish, Idle
    <2>2. save.tab \in Tabs
        BY <2>1, SaveFacts
    <2>3. \A u \in Tabs : u # save.tab => page'[u] = page[u]
        BY <2>1 DEF Typed
    <2>4. page'[save.tab].at = "closed"
        BY <2>1, <2>2 DEF Typed, Closed
    <2> QED BY <1>1, <2>3, <2>4 DEF PageInv
<1>6. \/ \E t \in Tabs : OpenSegment(t) \/ \E f \in Frames : VisitFrame(t, f)
      \/ Finish \/ page' = page
    BY DEF Next, Serve, Enter, WriteImages, BeforeCommit, Replace, Fail, SyncRead, SyncIndex,
           Republish, IndexRun, vars
<1> QED BY <1>2, <1>3, <1>4, <1>5, <1>6

\* What a save prepares is the same until it is in the manifest.
LEMMA PreparedSame ==
    ASSUME NEW f, NEW u, UNCHANGED <<version, reviews, page>>,
           save'.id = save.id, save'.tab = save.tab
    PROVE  Prepared(version, f, u)' = Prepared(version, f, u)
BY DEF Prepared, NextRevision, EffectiveBefore, Current

LEMMA SaveIsIdle ==
    ASSUME save' = Idle
    PROVE  SaveInv'
BY DEF SaveInv, UncommittedInv, DrawnInv, RowsInv, Idle

\* SaveInv is kept by every step.
LEMMA SaveStep ==
    ASSUME Parameters, Typed, HistoryInv, PageInv, SaveInv, [Next]_vars
    PROVE  SaveInv'
<1>0. saves \in Nat /\ version \in Versions
    BY Numbers DEF Typed
<1>1. ASSUME NEW t \in Tabs, NEW kind \in {"batch", "frame"}, Enter(t, kind)
      PROVE  SaveInv'
    <2>1. /\ save' \in Save /\ save'.at = "writing" /\ save'.tab = t
          /\ save'.id = saves + 1 /\ saves' = saves + 1 /\ saves + 1 \in Saves
          /\ DOMAIN save'.updates \subseteq DOMAIN page[t].visited
          /\ page[t].at = "open" /\ page[t].version = version
          /\ \A f \in DOMAIN save'.updates :
                Current(version, f).revision = page[t].visited[f].revision
        BY <1>1, EnterEffect
    <2>2. UNCHANGED <<version, reviews, page>>
        BY <1>1 DEF Enter, storeVars
    <2>3. DOMAIN save'.updates \subseteq Frames
        BY <2>1, OpenedPage
    <2>4. \A f \in DOMAIN save'.updates : Len(reviews[version][f]) = page[t].visited[f].revision
        BY <1>0, <2>1, <2>3, CurrentFacts
    <2>5. \A v \in Versions, f \in Frames : \A i \in 1..Len(reviews[v][f]) :
             reviews[v][f][i].id < saves + 1
        <3> TAKE v \in Versions, f \in Frames
        <3> TAKE i \in 1..Len(reviews[v][f])
        <3>1. EntryInv(v, f, i) /\ reviews[v][f][i] \in Revision
            BY Histories DEF HistoryInv
        <3>2. reviews[v][f][i].id \in Saves
            BY <3>1 DEF Revision
        <3>3. reviews[v][f][i].id \in Nat
            BY <3>2, Numbers
        <3> QED BY <1>0, <3>1, <3>3 DEF EntryInv
    <2>6. UncommittedInv'
        BY <2>1, <2>2, <2>4, <2>5 DEF UncommittedInv
    <2>7. DrawnInv' /\ RowsInv'
        BY <2>1 DEF DrawnInv, RowsInv
    <2> QED BY <2>1, <2>2, <2>6, <2>7 DEF SaveInv
<1>2. CASE WriteImages
    <2>0. save \in Save /\ save.at = "writing"
        BY <1>2 DEF WriteImages, Typed, Idle
    <2>1. /\ save'.at = "written" /\ save'.tab = save.tab /\ save'.id = save.id
          /\ save'.updates = save.updates /\ save # Idle
          /\ UNCHANGED <<version, reviews, page, saves>>
        BY <1>2, <2>0, SaveMoved DEF WriteImages, Idle
    <2>2. UncommittedInv'
        BY <2>0, <2>1 DEF SaveInv, UncommittedInv
    <2>3. DrawnInv'
        <3>1. ASSUME NEW f \in DOMAIN save.updates, NEW o \in Drawn(save.updates[f])
              PROVE  images'[version][f][NextRevision(version, f)][o] = save.id
            <4>1. f \in Frames /\ NextRevision(version, f) \in Saves
                BY <2>0, NextFacts
            <4>2. o \in Objs
                BY DEF Drawn
            <4> QED BY <1>0, <1>2, <4>1, <4>2, WriteEffect
        <3> QED BY <2>1, <3>1 DEF DrawnInv, NextRevision, Current, Drawn
    <2>4. RowsInv'
        BY <2>1 DEF RowsInv
    <2> QED BY <2>1, <2>2, <2>3, <2>4 DEF SaveInv
<1>3. CASE BeforeCommit /\ save' # Idle
    <2>0. save \in Save /\ save.at = "written"
        BY <1>3 DEF BeforeCommit, Typed, Idle
    <2>1. {Row(p) : p \in Entries} \in SUBSET RowOf
        BY <2>0, EntriesTyped
    <2>2. /\ save'.at = "replacing" /\ save'.tab = save.tab /\ save'.id = save.id
          /\ save'.updates = save.updates /\ save # Idle
          /\ save'.rows = {Row(p) : p \in Entries}
          /\ UNCHANGED <<version, reviews, images, page, saves>>
        <3>1. /\ save' = [save EXCEPT !.at = "replacing", !.rows = {Row(p) : p \in Entries}]
              /\ UNCHANGED <<version, reviews, images, page, saves>>
            BY <1>3 DEF BeforeCommit, NewRows, storeVars
        <3>2. save # Idle
            BY <2>0 DEF Idle
        <3> QED BY <2>0, <2>1, <3>1, <3>2, SaveIndexes
    <2>3. UncommittedInv'
        BY <2>0, <2>2 DEF SaveInv, UncommittedInv
    <2>4. DrawnInv'
        BY <2>0, <2>2 DEF SaveInv, DrawnInv, NextRevision, Current, Drawn
    <2>5. Entries' = Entries
        BY <2>2, PreparedSame DEF Entries
    <2>6. RowsInv'
        BY <2>2, <2>5 DEF RowsInv, Row
    <2> QED BY <2>2, <2>3, <2>4, <2>6 DEF SaveInv
<1>4. CASE Replace
    <2>0. save \in Save /\ save.at = "replacing"
        BY <1>4 DEF Replace, Typed, Idle
    <2>1. /\ save'.at = "committed" /\ save'.tab = save.tab /\ save'.id = save.id
          /\ save'.updates = save.updates /\ save # Idle /\ save'.rows = save.rows
          /\ UNCHANGED <<version, page, saves>>
        BY <1>4, <2>0, SaveMoved DEF Replace, Idle
    <2>2. save.rows \subseteq Committed(version)'
        <3>1. save.rows = {Row(<<f, Prepared(version, f, save.updates[f])>>) : f \in DOMAIN save.updates}
            BY <2>0 DEF SaveInv, RowsInv, Entries
        <3>2. ASSUME NEW f \in DOMAIN save.updates
              PROVE  /\ f \in Frames /\ Len(reviews[version][f]) + 1 \in DOMAIN reviews'[version][f]
                     /\ reviews'[version][f][Len(reviews[version][f]) + 1] =
                           Prepared(version, f, save.updates[f])
            <4>1. f \in Frames
                BY <2>0, NextFacts
            <4>2. Len(reviews[version][f]) \in Nat /\ reviews'[version][f] \in Seq(Revision)
                BY <1>0, <1>4, <4>1, Histories, ReplaceEffect
            <4>3. Len(reviews[version][f]) + 1 \in DOMAIN reviews'[version][f]
                BY <1>4, <4>2, ReplaceEffect, LenProperties
            <4> QED BY <1>4, <4>1, <4>3, ReplaceEffect
        <3> QED BY <2>1, <3>1, <3>2 DEF Committed, Row
    <2>3. UncommittedInv' /\ DrawnInv' /\ RowsInv'
        BY <2>1, <2>2 DEF UncommittedInv, DrawnInv, RowsInv
    <2> QED BY <2>1, <2>3 DEF SaveInv
<1>5. CASE save' = Idle
    BY <1>5, SaveIsIdle
<1>6. CASE UNCHANGED <<version, reviews, images, saves, page, save>>
    <2>1. UncommittedInv' /\ DrawnInv'
        BY <1>6 DEF SaveInv, UncommittedInv, DrawnInv, NextRevision, Current, Drawn
    <2>2. Entries' = Entries
        BY <1>6, PreparedSame DEF Entries
    <2>3. RowsInv'
        BY <1>6, <2>2 DEF SaveInv, RowsInv, Row, Committed
    <2> QED BY <1>6, <2>1, <2>3 DEF SaveInv
<1>7. \/ \E t \in Tabs, kind \in {"batch", "frame"} : Enter(t, kind)
      \/ WriteImages \/ BeforeCommit \/ Replace \/ save' = Idle
      \/ UNCHANGED <<version, reviews, images, saves, page, save>>
    BY DEF Next, Serve, OpenSegment, VisitFrame, Finish, Fail, SyncRead, SyncIndex,
           Republish, IndexRun, vars, storeVars
<1> QED BY <1>1, <1>2, <1>3, <1>4, <1>5, <1>6, <1>7

-----------------------------------------------------------------------------
(* The job of the index, and the index *)

\* Publications are only added, and what each has committed stays.
LEMMA PublicationsExtend ==
    ASSUME Parameters, Typed, HistoryInv, PageInv, SaveInv, [Next]_vars
    PROVE  /\ version \in Nat /\ version' \in Nat /\ version <= version'
           /\ 1..version \subseteq Versions /\ 1..version \subseteq 1..version'
           /\ \A v \in Versions : Committed(v) \subseteq Committed(v)'
<1>1. version \in Nat /\ 1..version \subseteq Versions
    BY Numbers DEF Typed, Versions
<1>2. version' = version \/ version' = version + 1
    BY DEF Next, Serve, OpenSegment, VisitFrame, Enter, WriteImages, BeforeCommit, Replace,
           Finish, Fail, SyncRead, SyncIndex, Republish, IndexRun, vars
<1>3. version' \in Nat /\ version <= version' /\ 1..version \subseteq 1..version'
    BY <1>1, <1>2
<1> QED BY <1>1, <1>3, CommittedGrows

\* What a job reads of the manifest.
LEMMA SelectedCommitted ==
    ASSUME Typed, NEW f \in Frames, NEW r, NEW e \in Selected(version, f, r)
    PROVE  Row(<<f, e>>) \in Committed(version)
<1>1. PICK i \in DOMAIN reviews[version][f] : e = reviews[version][f][i]
    BY DEF Selected
<1> QED BY <1>1 DEF Committed

\* SyncInv is kept by every step.
LEMMA SyncStep ==
    ASSUME Parameters, Typed, HistoryInv, PageInv, SaveInv, SyncInv, [Next]_vars
    PROVE  SyncInv'
<1>0. version \in Versions /\ version \in Nat \ {0}
    BY Numbers DEF Typed
<1>1. ASSUME NEW job, JobInv(job)
      PROVE  JobInv(job)'
    <2>1. {Row(p) : p \in job.entries}' = {Row(p) : p \in job.entries}
        BY DEF Row
    <2>2. ASSUME job.at = "read"
          PROVE  /\ job.version \in 1..version'
                 /\ {Row(p) : p \in job.entries} \subseteq Committed(job.version)'
        BY <1>1, <2>2, PublicationsExtend DEF JobInv
    <2> QED BY <1>1, <2>1, <2>2 DEF JobInv
<1>2. ASSUME NEW s \in Saves, NEW job, JobInv(job), syncs'[s] = job
      PROVE  JobInv(syncs[s])'
    BY <1>1, <1>2 DEF JobInv
<1>3. CASE syncs' = syncs
    <2>1. ASSUME NEW s \in Saves
          PROVE  JobInv(syncs[s])'
        BY <1>2, <1>3 DEF SyncInv
    <2> QED BY <1>3, <2>1 DEF SyncInv
<1>4. ASSUME NEW s \in Saves, NEW job, JobInv(job), syncs' = [syncs EXCEPT ![s] = job]
      PROVE  SyncInv'
    <2>1. ASSUME NEW r \in Saves
          PROVE  JobInv(syncs[r])'
        <3>1. r # s => syncs'[r] = syncs[r]
            BY <1>4 DEF SyncInv
        <3>2. r = s => syncs'[r] = job
            BY <1>4 DEF SyncInv
        <3> QED BY <1>2, <1>4, <3>1, <3>2 DEF SyncInv
    <2>2. DOMAIN syncs' = Saves
        BY <1>4 DEF SyncInv
    <2> QED BY <2>1, <2>2 DEF SyncInv
<1>5. CASE Finish
    <2> DEFINE job == [at |-> "queued",
                       frames |-> [f \in DOMAIN save.updates |-> Current(version, f).revision]]
    <2>1. save # Idle
        BY <1>5 DEF Finish, Idle
    <2>2. save.id \in Saves /\ DOMAIN save.updates \subseteq Frames
        BY <2>1, SaveFacts
    <2>3. syncs' = syncs \/ syncs' = [syncs EXCEPT ![save.id] = job]
        BY <1>5 DEF Finish
    <2>4. JobInv(job)
        BY <2>2 DEF JobInv
    <2> HIDE DEF job
    <2> QED BY <1>3, <1>4, <2>2, <2>3, <2>4
<1>6. ASSUME NEW s \in Saves, SyncRead(s)
      PROVE  SyncInv'
    <2> DEFINE frames == syncs[s].frames
               read == [at |-> "read", frames |-> frames, version |-> version,
                        entries |-> UNION {{<<f, e>> : e \in Selected(version, f, frames[f])} :
                                              f \in DOMAIN frames}]
    <2>1. syncs[s].at = "queued"
        BY <1>6 DEF SyncRead
    <2>2. DOMAIN frames \subseteq Frames
        BY <2>1 DEF SyncInv, JobInv
    <2>3. \/ syncs' = [syncs EXCEPT ![s] = [at |-> "error"]]
          \/ syncs' = [syncs EXCEPT ![s] = read]
        BY <1>6 DEF SyncRead
    <2>4. JobInv([at |-> "error"])
        BY DEF JobInv
    <2>5. JobInv(read)
        <3>1. {Row(p) : p \in read.entries} \subseteq Committed(version)
            BY <2>2, SelectedCommitted
        <3>2. /\ read.at = "read" /\ read.version = version /\ version \in 1..version
              /\ DOMAIN read.frames \subseteq Frames
            BY <1>0, <2>2
        <3> HIDE DEF read
        <3> QED BY <3>1, <3>2 DEF JobInv
    <2> HIDE DEF read
    <2> QED BY <1>4, <2>3, <2>4, <2>5
<1>7. ASSUME NEW s \in Saves, SyncIndex(s)
      PROVE  SyncInv'
    <2>1. syncs[s].at = "read" /\ JobInv(syncs[s])
        BY <1>7 DEF SyncIndex, SyncInv
    <2>2. \/ syncs' = [syncs EXCEPT ![s] = [at |-> "done"]]
          \/ syncs' = [syncs EXCEPT ![s] = [at |-> "queued", frames |-> syncs[s].frames]]
          \/ syncs' = [syncs EXCEPT ![s] = [at |-> "error"]]
        BY <1>7 DEF SyncIndex
    <2>3. /\ JobInv([at |-> "done"]) /\ JobInv([at |-> "error"])
          /\ JobInv([at |-> "queued", frames |-> syncs[s].frames])
        BY <2>1 DEF JobInv
    <2> QED BY <1>4, <2>2, <2>3
<1>8. \/ Finish \/ \E s \in Saves : SyncRead(s) \/ SyncIndex(s)
      \/ syncs' = syncs
    BY DEF Next, Serve, OpenSegment, VisitFrame, Enter, WriteImages, BeforeCommit, Replace, Fail,
           Republish, IndexRun, vars
<1> QED BY <1>3, <1>5, <1>6, <1>7, <1>8

\* The index of a run is changed by the request for a frame, and by the job,
\* which add what is committed.
LEMMA IndexStep ==
    ASSUME Parameters, Typed, HistoryInv, PageInv, SaveInv, SyncInv, IndexInv, [Next]_vars
    PROVE  IndexInv'
<1>0. version \in Versions /\ version \in Nat \ {0}
    BY Numbers DEF Typed
<1>1. ASSUME NEW v \in Versions, NEW row, \E u \in 1..v : row \in Committed(u)
      PROVE  row \in UNION {Committed(u)' : u \in 1..v}
    <2>1. PICK u \in 1..v : row \in Committed(u)
        BY <1>1
    <2>2. u \in Versions
        BY Numbers DEF Versions
    <2>3. row \in Committed(u)'
        BY <2>1, <2>2, CommittedGrows
    <2> QED BY <2>3
<1>2. ASSUME NEW v \in Versions, NEW row \in index[v]
      PROVE  \E u \in 1..v : row \in Committed(u)
    BY DEF IndexInv, IndexedIsCommitted
<1>3. CASE index' = index
    BY <1>1, <1>2, <1>3 DEF IndexInv, IndexedIsCommitted
<1>4. ASSUME NEW rows, \A row \in rows : \E u \in 1..version : row \in Committed(u),
             index' = [index EXCEPT ![version] = Indexed(version, rows)]
      PROVE  IndexInv'
    <2>1. DOMAIN index' = Versions
        BY <1>4 DEF IndexInv
    <2>2. \A v \in Versions : v # version => index'[v] = index[v]
        BY <1>4 DEF IndexInv
    <2>3. index'[version] \subseteq index[version] \cup rows
        BY <1>0, <1>4 DEF IndexInv, Indexed
    <2>4. \A v \in Versions : index'[v] \subseteq UNION {Committed(u)' : u \in 1..v}
        <3> TAKE v \in Versions
        <3>1. CASE v # version
            BY <1>1, <1>2, <2>2, <3>1
        <3>2. CASE v = version
            BY <1>1, <1>2, <1>4, <2>3, <3>2
        <3> QED BY <3>1, <3>2
    <2> QED BY <2>1, <2>4 DEF IndexInv, IndexedIsCommitted
<1>5. CASE Finish
    <2>1. save # Idle /\ save.at = "committed"
        BY <1>5 DEF Finish, Idle
    <2>2. index' = index \/ index' = [index EXCEPT ![version] = Indexed(version, save.rows)]
        BY <1>5 DEF Finish
    <2>3. save.rows \subseteq Committed(version) /\ version \in 1..version
        BY <1>0, <2>1 DEF SaveInv, RowsInv
    <2> QED BY <1>3, <1>4, <2>2, <2>3
<1>6. ASSUME NEW s \in Saves, SyncIndex(s)
      PROVE  IndexInv'
    <2> DEFINE rows == {Row(p) : p \in syncs[s].entries}
    <2>1. syncs[s].at = "read" /\ JobInv(syncs[s])
        BY <1>6 DEF SyncIndex, SyncInv
    <2>2. index' = index \/ index' = [index EXCEPT ![version] = Indexed(version, rows)]
        BY <1>6 DEF SyncIndex
    <2>3. syncs[s].version \in 1..version /\ rows \subseteq Committed(syncs[s].version)
        BY <2>1 DEF JobInv
    <2> HIDE DEF rows
    <2> QED BY <1>3, <1>4, <2>2, <2>3
<1>7. \/ Finish \/ \E s \in Saves : SyncIndex(s)
      \/ index' = index
    BY DEF Next, Serve, OpenSegment, VisitFrame, Enter, WriteImages, BeforeCommit, Replace, Fail,
           SyncRead, Republish, IndexRun, vars, storeVars
<1> QED BY <1>3, <1>5, <1>6, <1>7

-----------------------------------------------------------------------------
(* The theorems *)

LEMMA InitInv ==
    ASSUME Parameters, Init
    PROVE  ReviewInv
<1> USE DEF Init
<1>0. MaxSaves \in Nat /\ 1 \in Versions
    BY Numbers DEF Versions
<1>1. Raw \in [Objs -> 0..MaxSaves]
    BY <1>0 DEF Raw
<1>2. Typed
    <2>1. <<>> \in Seq(Revision)
        BY EmptySeq
    <2>2. saves \in 0..MaxSaves
        BY <1>0
    <2> QED BY <1>0, <1>1, <2>1, <2>2 DEF Typed
<1>3. \A v \in Versions, f \in Frames : reviews[v][f] = <<>> /\ 1..Len(reviews[v][f]) = {}
    <2>1. \A v \in Versions, f \in Frames : reviews[v][f] = <<>>
        OBVIOUS
    <2> QED BY <2>1, <1>2, Histories
<1>4. HistoryInv
    BY <1>3 DEF HistoryInv
<1>5. PageInv
    BY DEF PageInv, Closed
<1>6. SaveInv
    BY DEF SaveInv, UncommittedInv, DrawnInv, RowsInv, Idle
<1>7. SyncInv
    BY DEF SyncInv, JobInv
<1>8. IndexInv
    BY DEF IndexInv, IndexedIsCommitted
<1> QED BY <1>2, <1>4, <1>5, <1>6, <1>7, <1>8 DEF ReviewInv

LEMMA StepInv ==
    ASSUME Parameters, ReviewInv, [Next]_vars
    PROVE  ReviewInv'
BY TypedStep, HistoryStep, PageStep, SaveStep, SyncStep, IndexStep DEF ReviewInv

LEMMA Invariance == ASSUME Parameters PROVE Spec => []ReviewInv
<1>1. Init => ReviewInv
    BY InitInv
<1>2. ReviewInv /\ [Next]_vars => ReviewInv'
    BY StepInv
<1> QED BY <1>1, <1>2, PTL DEF Spec

LEMMA IndexTyped ==
    ASSUME Parameters, ReviewInv, NEW v \in Versions
    PROVE  index[v] \subseteq RowOf
<1>1. ASSUME NEW row \in index[v]
      PROVE  row \in RowOf
    <2>1. PICK u \in 1..v : row \in Committed(u)
        BY DEF ReviewInv, IndexInv, IndexedIsCommitted
    <2>2. u \in Versions
        BY Numbers DEF Versions
    <2>3. PICK f \in Frames : \E i \in 1..Len(reviews[u][f]) : row = Row(<<f, reviews[u][f][i]>>)
        BY <2>1, <2>2, CommittedRows DEF ReviewInv
    <2>4. \A i \in 1..Len(reviews[u][f]) : reviews[u][f][i] \in Revision
        BY <2>2, Histories DEF ReviewInv
    <2> QED BY <2>3, <2>4, RowTyped
<1> QED BY <1>1

(***************************************************************************)
(* A revision is numbered by its place in the history of its frame, and    *)
(* every store of the review has the shape that save_frames, the index and *)
(* the job rely on (review_store.py, sam3_run_index.py).                   *)
(***************************************************************************)
THEOREM ReviewsAreTyped == ASSUME Parameters PROVE Spec => []TypeOK
<1>1. ReviewInv => TypeOK
    <2> SUFFICES ASSUME ReviewInv
                 PROVE  TypeOK
        OBVIOUS
    <2> USE DEF ReviewInv
    <2>1. \A v \in Versions, f \in Frames : \A i \in DOMAIN reviews[v][f] :
             reviews[v][f][i] \in Revision /\ reviews[v][f][i].revision = i
        BY Histories DEF HistoryInv, EntryInv
    <2>2. save.at # "idle" => save.tab \in Tabs /\ save.id = saves
        BY SaveFacts DEF Idle
    <2>3. \A v \in Versions : index[v] \subseteq RowOf
        BY IndexTyped
    <2> QED BY <2>1, <2>2, <2>3 DEF TypeOK, Typed, RowOf
<1> QED BY <1>1, Invariance, PTL

(***************************************************************************)
(* Every revision was made, in its own publication, on top of the revision *)
(* that its author had seen: the check of the version and of the expected  *)
(* revisions, under the fence, leaves no other outcome (routers/review.py). *)
(***************************************************************************)
THEOREM RevisionsAreChained == ASSUME Parameters PROVE Spec => []RevisionsChain
<1>1. ReviewInv => RevisionsChain
    <2> SUFFICES ASSUME ReviewInv
                 PROVE  RevisionsChain
        OBVIOUS
    <2>1. ASSUME NEW v \in Versions, NEW f \in Frames, NEW i \in DOMAIN reviews[v][f]
          PROVE  /\ reviews[v][f][i].shown = v
             /\ reviews[v][f][i].base = IF i = 1 THEN 0 ELSE reviews[v][f][i - 1].id
        <3>1. i \in 1..Len(reviews[v][f])
            BY Histories DEF ReviewInv
        <3>2. EntryInv(v, f, i)
            BY <3>1 DEF ReviewInv, HistoryInv
        <3> QED BY <3>2 DEF EntryInv
    <2> QED BY <2>1 DEF RevisionsChain
<1> QED BY <1>1, Invariance, PTL

(***************************************************************************)
(* The masks of every revision are in their files as they were committed:  *)
(* what a save leaves behind when it fails is never a file that a revision *)
(* refers to (save_frames of review_store.py).                             *)
(***************************************************************************)
THEOREM MasksStayIntact == ASSUME Parameters PROVE Spec => []MasksIntact
<1>1. ReviewInv => MasksIntact
    <2> SUFFICES ASSUME ReviewInv
                 PROVE  MasksIntact
        OBVIOUS
    <2>1. ASSUME NEW v \in Versions, NEW f \in Frames, NEW i \in DOMAIN reviews[v][f]
          PROVE  \A o \in Objs : reviews[v][f][i].masks[o] \notin {None, 0} =>
                images[v][f][reviews[v][f][i].masks[o]][o] = reviews[v][f][i].sums[o]
        <3>1. i \in 1..Len(reviews[v][f])
            BY Histories DEF ReviewInv
        <3>2. EntryInv(v, f, i)
            BY <3>1 DEF ReviewInv, HistoryInv
        <3> QED BY <3>2 DEF EntryInv
    <2> QED BY <2>1 DEF MasksIntact
<1> QED BY <1>1, Invariance, PTL

\* The three together, as the run checks them (save_frames, _require_export_version).
THEOREM RevisionsAreSound == ASSUME Parameters PROVE Spec => []RevisionsSound
BY ReviewsAreTyped, RevisionsAreChained, MasksStayIntact, PTL DEF RevisionsSound

(***************************************************************************)
(* Whatever fails and wherever, the index of PostgreSQL has no revision    *)
(* that was not committed by an os.replace of a manifest, in the           *)
(* publication of the run or in one before it (sam3_run_index.py).         *)
(***************************************************************************)
THEOREM IndexIsCommitted == ASSUME Parameters PROVE Spec => []IndexedIsCommitted
<1>1. ReviewInv => IndexedIsCommitted
    BY DEF ReviewInv, IndexInv
<1> QED BY <1>1, Invariance, PTL

(***************************************************************************)
(* Manifests are append-only: no step removes a revision or changes one,   *)
(* in the publication of now or in an earlier one.                         *)
(***************************************************************************)
HistoriesGrow ==
    \A v \in Versions, f \in Frames :
       /\ Len(reviews[v][f]) <= Len(reviews'[v][f])
       /\ \A i \in 1..Len(reviews[v][f]) : reviews'[v][f][i] = reviews[v][f][i]

THEOREM HistoriesAreAppendOnly == ASSUME Parameters PROVE Spec => [][HistoriesGrow]_vars
<1>1. ReviewInv /\ [Next]_vars => HistoriesGrow
    BY HistoriesExtend DEF ReviewInv, HistoriesGrow
<1> QED BY <1>1, Invariance, PTL DEF Spec
=============================================================================

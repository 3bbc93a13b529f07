-------------------------- MODULE ProjectionProofs --------------------------
(***************************************************************************)
(* Proofs about Projection for every set of videos, contents and           *)
(* processes, and any number of mutations and faults.                      *)
(***************************************************************************)
EXTENDS Projection, WellFoundedInduction, TLAPS

-----------------------------------------------------------------------------
(* Types *)

\* What a process holds in hand at the place where it uses it.
InHand(p) ==
  /\ pc[p] = "applying" => intent[p] \in Seqs
  /\ pc[p] \in {"repairing", "applying"} => seen[p] \in Source
  /\ pc[p] = "reserved" => seen[p] \in Value

TypeInv == TypeOK /\ \A p \in Proc : InHand(p)

LEMMA InitTyped == Init => TypeInv
<1> SUFFICES ASSUME Init PROVE TypeInv
  OBVIOUS
<1> USE ProjectionAssumption DEF Init
<1>1. Seqs = {} /\ events \in [Seqs -> Event]
  BY DEF Seqs
<1>2. row \in [Video -> [seq: 0..lastSeq, source: Source]]
  BY DEF Source
<1>3. TypeOK
  <2>1. pc \in [Proc -> Labels]
    BY DEF Labels
  <2>2. \A p \in Proc : seen[p] \in Source \cup Value /\ intent[p] \in 0..lastSeq
    BY DEF Source
  <2>3. seen \in [Proc -> Source \cup Value] /\ intent \in [Proc -> 0..lastSeq]
    BY <2>2
  <2>4. barrier \in 0..lastSeq /\ Seqs \subseteq 1..lastSeq /\ lastSeq \in Nat
    BY <1>1
  <2>5. mutations \in 0..MaxMutations /\ faults \in 0..MaxFaults
    OBVIOUS
  <2> QED BY <1>1, <1>2, <2>1, <2>3, <2>4, <2>5 DEF TypeOK
<1>4. \A p \in Proc : InHand(p)
  BY DEF InHand
<1> QED BY <1>3, <1>4 DEF TypeInv

\* A source derived from the files is a source.
LEMMA SourceTyped == ASSUME TypeInv, NEW v \in Video PROVE SourceOf(v) \in Source
BY DEF TypeInv, TypeOK, SourceOf, Source

\* The event a repair reuses is one of the table.
LEMMA ReservedTyped ==
  ASSUME TypeInv, NEW event \in Event, NEW retired, event.status = "pending",
         Reserved(event, retired), row' = row
  PROVE  /\ lastSeq' = lastSeq + 1 /\ lastSeq' \in Nat
         /\ Seqs' = Seqs \cup {lastSeq'} /\ Seqs' \subseteq 1..lastSeq'
         /\ events' \in [Seqs' -> Event]
         /\ lastSeq' \notin Seqs
         /\ \A s \in Seqs' : events'[s].status = "applied" => row'[events'[s].video].seq = s
<1> USE DEF Reserved, TypeInv, TypeOK, Seqs
<1>1. lastSeq' = lastSeq + 1 /\ lastSeq' \in Nat /\ lastSeq' \notin Seqs
  OBVIOUS
<1>2. Seqs' = Seqs \cup {lastSeq'} /\ Seqs' \subseteq 1..lastSeq'
  OBVIOUS
<1>3. events' \in [Seqs' -> Event]
  BY <1>1, <1>2 DEF Event, Status
<1>4. \A s \in Seqs' : events'[s].status = "applied" => row'[events'[s].video].seq = s
  BY <1>1, <1>2 DEF Event
<1> QED BY <1>1, <1>2, <1>3, <1>4

\* A step that leaves the table alone keeps what is said of it.
LEMMA TableKept ==
  ASSUME TypeInv, UNCHANGED table
  PROVE  /\ lastSeq' \in Nat /\ Seqs' = Seqs /\ Seqs' \subseteq 1..lastSeq'
         /\ events' \in [Seqs' -> Event]
         /\ row' \in [Video -> [seq: 0..lastSeq', source: Source]]
         /\ barrier' \in 0..lastSeq'
         /\ \A s \in Seqs' : events'[s].status = "applied" => row'[events'[s].video].seq = s
BY DEF TypeInv, TypeOK, table, Seqs

LEMMA ReturnTyped ==
  ASSUME TypeInv, NEW p \in Proc, Return(p), UNCHANGED <<table, files>>,
         mutations' = mutations, faults' \in 0..MaxFaults, drops' = drops
  PROVE  TypeInv'
<1> USE DEF TypeInv, TypeOK, Return, ReleaseFences, Goto, files
<1>1. TypeOK'
  <2>1. pc' \in [Proc -> Labels]
    BY DEF Labels
  <2>2. intent' \in [Proc -> 0..lastSeq'] /\ seen' \in [Proc -> Source \cup Value]
    BY DEF table, Source
  <2>3. videoFence' \in Proc \cup {Nobody} /\ objectFence' \in Proc \cup {Nobody}
    OBVIOUS
  <2> QED BY <2>1, <2>2, <2>3, TableKept
<1>2. \A q \in Proc : InHand(q)'
  BY TableKept DEF InHand
<1> QED BY <1>1, <1>2

\* A step of a process that leaves the table alone and is back in its loop, or
\* goes on with what it has in hand.
LEMMA MoveTyped ==
  ASSUME TypeInv, NEW p \in Proc, UNCHANGED table, NEW label \in Labels, Goto(p, label),
         canon' \in [Video -> Value], quiet' \in [Video -> Value], archived' \in BOOLEAN,
         videoFence' \in Proc \cup {Nobody}, objectFence' \in Proc \cup {Nobody},
         vid' \in [Proc -> Video], seen' \in [Proc -> Source \cup Value],
         \A q \in Proc : q # p => seen'[q] = seen[q],
         intent' = intent, label \notin {"reserved", "applying"},
         label = "repairing" => seen'[p] \in Source,
         mutations' \in 0..MaxMutations, faults' = faults, drops' = drops
  PROVE  TypeInv'
<1> USE DEF TypeInv, TypeOK, Goto
<1>1. TypeOK'
  <2>1. pc' \in [Proc -> Labels] /\ vid' \in [Proc -> Video]
    OBVIOUS
  <2>2. intent' \in [Proc -> 0..lastSeq'] /\ seen' \in [Proc -> Source \cup Value]
    BY DEF table
  <2> QED BY <2>1, <2>2, TableKept
<1>2. ASSUME NEW q \in Proc PROVE InHand(q)'
  <2>1. CASE q = p
    BY <2>1 DEF InHand
  <2>2. CASE q # p
    BY <2>2, TableKept DEF InHand
  <2> QED BY <2>1, <2>2
<1> QED BY <1>1, <1>2

LEMMA ReserveTyped ==
  ASSUME TypeInv, NEW p \in Proc, Reserve(p)
  PROVE  TypeInv'
<1> USE DEF TypeInv, TypeOK
<1>1. PICK x \in Value : ReserveIntent(p, vid[p], x) /\ seen' = [seen EXCEPT ![p] = x]
  BY DEF Reserve
<1>2. Goto(p, "reserved") /\ UNCHANGED <<files, fences, vid, bounds>> /\ UNCHANGED <<row, barrier>>
  BY <1>1 DEF Reserve, ReserveIntent
<1>3. /\ lastSeq' \in Nat /\ lastSeq <= lastSeq'
      /\ Seqs \subseteq Seqs' /\ Seqs' \subseteq 1..lastSeq'
      /\ events' \in [Seqs' -> Event]
      /\ \A s \in Seqs' : events'[s].status = "applied" => row'[events'[s].video].seq = s
      /\ intent' \in [Proc -> 0..lastSeq']
      /\ \A q \in Proc : q # p => intent'[q] = intent[q]
  <2>1. CASE UNCHANGED <<events, lastSeq>>
    <3>1. PICK s \in Live(vid[p]) : intent' = [intent EXCEPT ![p] = s]
      BY <1>1, <2>1 DEF ReserveIntent, SameIdentity, Reserved
    <3> QED BY <1>2, <2>1, <3>1 DEF Live, Seqs
  <2>2. CASE Reserved(New(vid[p], "mutation", x), {}) /\ intent' = [intent EXCEPT ![p] = lastSeq + 1]
    <3>1. New(vid[p], "mutation", x) \in Event /\ New(vid[p], "mutation", x).status = "pending"
      BY DEF New, Event, Status, Source
    <3> QED BY <1>2, <2>2, <3>1, ReservedTyped
  <2> QED BY <1>1, <2>1, <2>2 DEF ReserveIntent
<1>4. row' \in [Video -> [seq: 0..lastSeq', source: Source]] /\ barrier' \in 0..lastSeq'
  BY <1>2, <1>3
<1>5. TypeOK'
  <2>1. pc' \in [Proc -> Labels]
    BY <1>2 DEF Goto, Labels
  <2>2. seen' \in [Proc -> Source \cup Value]
    BY <1>1 DEF Source
  <2> QED BY <1>2, <1>3, <1>4, <2>1, <2>2 DEF files, fences, bounds
<1>6. \A q \in Proc : InHand(q)'
  BY <1>1, <1>2, <1>3 DEF InHand, Goto
<1> QED BY <1>5, <1>6

LEMMA RepairTyped ==
  ASSUME TypeInv, NEW p \in Proc, Repair(p)
  PROVE  TypeInv'
<1> USE DEF TypeInv, TypeOK
<1>1. /\ pc[p] = "repairing" /\ seen[p] \in Source /\ vid[p] \in Video
      /\ UNCHANGED <<files, fences, vid, seen, bounds>>
  BY DEF Repair, InHand
<1>2. CASE Goto(p, "leaving") /\ UNCHANGED <<table, intent>>
  <2>1. TypeOK'
    <3>1. pc' \in [Proc -> Labels]
      BY <1>2 DEF Goto, Labels
    <3>2. intent' \in [Proc -> 0..lastSeq']
      BY <1>2 DEF table
    <3> QED BY <1>1, <1>2, <3>1, <3>2, TableKept DEF files, fences, bounds
  <2>2. \A q \in Proc : InHand(q)'
    BY <1>1, <1>2, TableKept DEF InHand, Goto
  <2> QED BY <2>1, <2>2
<1>3. CASE ReserveRepair(p, vid[p], seen[p]) /\ Goto(p, "applying")
  <2>1. /\ lastSeq' \in Nat /\ lastSeq <= lastSeq'
        /\ Seqs \subseteq Seqs' /\ Seqs' \subseteq 1..lastSeq'
        /\ events' \in [Seqs' -> Event]
        /\ \A s \in Seqs' : events'[s].status = "applied" => row'[events'[s].video].seq = s
        /\ intent' \in [Proc -> 0..lastSeq'] /\ intent'[p] \in Seqs'
        /\ \A q \in Proc : q # p => intent'[q] = intent[q]
    <3>1. CASE /\ ReusableRepair(vid[p], seen[p]) /\ UNCHANGED <<events, lastSeq>>
               /\ intent' = [intent EXCEPT ![p] = Latest(vid[p])]
      <4>1. Latest(vid[p]) \in Seqs
        BY <3>1 DEF ReusableRepair, Pending
      <4>2. UNCHANGED row
        BY <1>3 DEF ReserveRepair
      <4> QED BY <3>1, <4>1, <4>2 DEF Seqs
    <3>2. CASE /\ Reserved(New(vid[p], "repair", seen[p]), SameIdentity(vid[p], "repair", seen[p]))
               /\ intent' = [intent EXCEPT ![p] = lastSeq + 1]
      <4>1. /\ New(vid[p], "repair", seen[p]) \in Event
            /\ New(vid[p], "repair", seen[p]).status = "pending"
        BY <1>1 DEF New, Event, Status
      <4>2. UNCHANGED row
        BY <1>3 DEF ReserveRepair
      <4> QED BY <3>2, <4>1, <4>2, ReservedTyped
    <3> QED BY <1>3, <3>1, <3>2 DEF ReserveRepair
  <2>2. UNCHANGED <<row, barrier>>
    BY <1>3 DEF ReserveRepair
  <2>3. row' \in [Video -> [seq: 0..lastSeq', source: Source]] /\ barrier' \in 0..lastSeq'
    BY <2>1, <2>2
  <2>4. TypeOK'
    <3>1. pc' \in [Proc -> Labels]
      BY <1>3 DEF Goto, Labels
    <3> QED BY <1>1, <2>1, <2>3, <3>1 DEF files, fences, bounds
  <2>5. \A q \in Proc : InHand(q)'
    BY <1>1, <1>3, <2>1 DEF InHand, Goto
  <2> QED BY <2>4, <2>5
<1> QED BY <1>2, <1>3 DEF Repair

LEMMA StatusSet ==
  ASSUME NEW e \in Event, NEW status \in Status
  PROVE  LET f == [e EXCEPT !.status = status]
         IN  /\ f \in Event /\ f.status = status
             /\ f.video = e.video /\ f.kind = e.kind /\ f.source = e.source
BY DEF Event

\* What apply_intent does to the event, to the row of its video, to the others.
LEMMA ApplyIntentStep ==
  ASSUME TypeInv, NEW s \in Seqs, NEW x \in Source, ApplyIntent(s, x)
  PROVE  /\ Seqs' = Seqs /\ events' \in [Seqs -> Event]
         /\ row' \in [Video -> [seq: 0..lastSeq, source: Source]]
         /\ \A t \in Seqs : events'[t] \in
              {events[t], [events[t] EXCEPT !.status = "superseded"]} \/ t = s
         /\ events'[s].video = events[s].video
         /\ \A t \in Seqs' : events'[t].status = "applied" => row'[events'[t].video].seq = t
         /\ \A v \in Video : row'[v] # row[v] => row'[v].seq > row[v].seq /\ row'[v].seq > barrier
<1> USE DEF TypeInv, TypeOK, Seqs, Event, Status
<1> DEFINE v == events[s].video
<1>1. v \in Video /\ s \in Nat /\ s <= lastSeq
  OBVIOUS
<1>2. CASE events' = Marked(s, "superseded") /\ UNCHANGED row
  <2>1. Seqs' = Seqs /\ \A t \in Seqs : t # s => events'[t] = events[t]
    BY <1>2 DEF Marked
  <2>2. events'[s] = [events[s] EXCEPT !.status = "superseded"] /\ events[s] \in Event
    BY <1>2 DEF Marked
  <2>3. /\ events'[s] \in Event /\ events'[s].video = events[s].video
        /\ events'[s].status = "superseded"
    <3>1. "superseded" \in Status
      BY DEF Status
    <3>2. PICK e \in Event : e = events[s]
      BY <2>2
    <3> HIDE DEF Event, Status, v, TypeInv, TypeOK
    <3> QED BY <2>2, <3>1, <3>2, StatusSet
  <2>4. events' \in [Seqs -> Event]
    <3> HIDE DEF Event, Status
    <3> QED BY <1>2, <2>1, <2>2, <2>3 DEF Marked
  <2>5. \A t \in Seqs' : events'[t].status = "applied" => row'[events'[t].video].seq = t
    <3> HIDE DEF Event, v
    <3> QED BY <1>2, <2>1, <2>3
  <2> HIDE DEF Event, v
  <2> QED BY <1>2, <2>1, <2>2, <2>3, <2>4, <2>5
<1>3. CASE /\ s > barrier /\ s >= row[v].seq
           /\ row' = IF s = row[v].seq THEN row
                     ELSE [row EXCEPT ![v] = [seq |-> s, source |-> x]]
           /\ events' = [t \in Seqs |->
                IF t = s THEN [events[t] EXCEPT !.status = "applied"]
                ELSE IF t \in Live(v) /\ t < s THEN [events[t] EXCEPT !.status = "superseded"]
                ELSE events[t]]
  <2>1. Seqs' = Seqs
    BY <1>3
  <2>2. \A t \in Seqs : /\ t = s => events'[t] = [events[t] EXCEPT !.status = "applied"]
                        /\ t # s /\ t \in Live(v) /\ t < s
                             => events'[t] = [events[t] EXCEPT !.status = "superseded"]
                        /\ t # s /\ ~ (t \in Live(v) /\ t < s) => events'[t] = events[t]
    BY <1>3
  <2>0. s > barrier /\ s >= row[v].seq
    BY <1>3
  <2>3. ASSUME NEW t \in Seqs
        PROVE  events'[t] \in Event /\ events'[t].video = events[t].video
    <3>1. events[t] \in Event
      BY DEF TypeInv, TypeOK
    <3>2. \A status \in Status : LET f == [events[t] EXCEPT !.status = status]
                                 IN  f \in Event /\ f.video = events[t].video
      BY <3>1, StatusSet
    <3>3. {"applied", "superseded"} \subseteq Status
      BY DEF Status
    <3> HIDE DEF Event, Status, v, TypeInv, TypeOK
    <3> QED BY <2>2, <3>1, <3>2, <3>3
  <2>4. events' \in [Seqs -> Event]
    BY <1>3, <2>3
  <2>5. row' \in [Video -> [seq: 0..lastSeq, source: Source]]
    BY <1>1, <1>3
  <2>6. \A w \in Video : /\ w # v => row'[w] = row[w]
                         /\ w = v => row'[w].seq = s
    BY <1>1, <1>3
  <2>7. \A w \in Video : row'[w] # row[w] => row'[w].seq > row[w].seq /\ row'[w].seq > barrier
    <3>1. row' # row => row' = [row EXCEPT ![v] = [seq |-> s, source |-> x]] /\ s # row[v].seq
      BY <1>3
    <3>2. row[v].seq \in Nat
      BY <1>1
    <3> SUFFICES ASSUME NEW w \in Video, row'[w] # row[w]
                 PROVE  row'[w].seq > row[w].seq /\ row'[w].seq > barrier
      OBVIOUS
    <3>3. w = v /\ s # row[v].seq
      BY <2>6, <3>1
    <3>4. row'[w].seq = s
      BY <2>6, <3>3
    <3> HIDE DEF v, TypeInv, TypeOK
    <3> QED BY <1>1, <2>0, <3>2, <3>3, <3>4
  <2>8. ASSUME NEW t \in Seqs, events'[t].status = "applied"
        PROVE  row'[events'[t].video].seq = t
    <3>1. CASE t = s
      BY <1>1, <2>3, <2>6, <3>1
    <3>2. CASE t # s
      <4>1. events'[t] = events[t] /\ ~ (t \in Live(v) /\ t < s)
        BY <2>2, <2>8, <3>2
      <4>2. row[events[t].video].seq = t /\ events[t].video \in Video
        BY <2>8, <4>1
      <4>3. events[t].video # v
        <5> SUFFICES ASSUME events[t].video = v PROVE FALSE
          OBVIOUS
        <5>1. t \in Live(v)
          BY <2>8, <4>1 DEF Live
        <5>2. t >= s
          BY <4>1, <5>1, <1>1
        <5>3. t \in Nat /\ row[v].seq = t
          BY <4>2
        <5> HIDE DEF v, TypeInv, TypeOK
        <5> QED BY <1>1, <2>0, <3>2, <5>2, <5>3
      <4> QED BY <2>6, <4>1, <4>2, <4>3
    <3> QED BY <3>1, <3>2
  <2>9. \A t \in Seqs : events'[t] \in
              {events[t], [events[t] EXCEPT !.status = "superseded"]} \/ t = s
    BY <2>2, Zenon
  <2> QED BY <2>1, <2>3, <2>4, <2>5, <2>7, <2>8, <2>9
<1> QED BY <1>2, <1>3 DEF ApplyIntent

LEMMA ApplyTyped ==
  ASSUME TypeInv, NEW p \in Proc, Apply(p)
  PROVE  TypeInv'
<1>1. /\ pc[p] = "applying" /\ Goto(p, "leaving") /\ ApplyIntent(intent[p], seen[p])
      /\ UNCHANGED <<lastSeq, barrier, files, fences, local, bounds>>
  BY DEF Apply
<1>2. intent[p] \in Seqs /\ seen[p] \in Source
  BY <1>1 DEF TypeInv, InHand
<1>3. /\ Seqs' = Seqs /\ events' \in [Seqs -> Event]
      /\ row' \in [Video -> [seq: 0..lastSeq, source: Source]]
      /\ \A t \in Seqs' : events'[t].status = "applied" => row'[events'[t].video].seq = t
  BY <1>1, <1>2, ApplyIntentStep
<1>4. TypeOK'
  BY <1>1, <1>3 DEF TypeInv, TypeOK, Goto, Labels, files, fences, local, bounds
<1>5. \A q \in Proc : InHand(q)'
  BY <1>1, <1>3 DEF TypeInv, TypeOK, InHand, Goto, local
<1> QED BY <1>4, <1>5 DEF TypeInv

LEMMA TypeStep == TypeInv /\ [Next]_vars => TypeInv'
<1> SUFFICES ASSUME TypeInv, [Next]_vars PROVE TypeInv'
  OBVIOUS
<1>0. /\ Labels \subseteq Labels /\ {"idle", "mutating", "published", "reconciling", "fenced",
            "reading", "repairing", "leaving", "replacing", "lifecycle", "invalidated"} \subseteq Labels
  BY DEF Labels
<1>1. CASE UNCHANGED vars
  BY <1>1 DEF vars, TypeInv, TypeOK, InHand, Seqs, Labels
<1>2. ASSUME NEW p \in Proc, Step(p) PROVE TypeInv'
  <2>1. CASE Reserve(p)
    BY <2>1, ReserveTyped
  <2>2. CASE Publish(p)
    <3>1. canon' \in [Video -> Value]
      BY <2>2 DEF Publish, TypeInv, TypeOK, InHand, local
    <3>2. UNCHANGED <<vid, seen, intent>>
      BY <2>2 DEF Publish, TypeInv, TypeOK, local
    <3> QED BY <1>0, <2>2, <3>1, <3>2, MoveTyped
            DEF Publish, TypeInv, TypeOK, fences, local, bounds
  <2>3. CASE EndMutation(p)
    <3>1. seen' = [seen EXCEPT ![p] = Archived] /\ UNCHANGED <<vid, intent>>
      BY <2>3 DEF EndMutation
    <3>2. seen' \in [Proc -> Source \cup Value] /\ \A q \in Proc : q # p => seen'[q] = seen[q]
      BY <3>1 DEF Source, TypeInv, TypeOK
    <3> QED BY <1>0, <2>3, <3>1, <3>2, MoveTyped
            DEF EndMutation, ReleaseFences, TypeInv, TypeOK, files, bounds
  <2>4. CASE UnlockRaises(p)
    BY <2>4, ReturnTyped DEF UnlockRaises, bounds, TypeInv, TypeOK
  <2>5. CASE ReadSource(p)
    <3>1. /\ SourceOf(vid[p]) \in Source /\ UNCHANGED <<vid, intent>>
          /\ seen' = [seen EXCEPT ![p] = SourceOf(vid[p])]
      BY <2>5, SourceTyped DEF ReadSource, TypeInv, TypeOK
    <3> QED BY <1>0, <2>5, <3>1, MoveTyped
            DEF ReadSource, TypeInv, TypeOK, files, fences, bounds
  <2>6. CASE Repair(p)
    BY <2>6, RepairTyped
  <2>7. CASE Apply(p)
    BY <2>7, ApplyTyped
  <2>8. CASE Leave(p)
    BY <2>8, ReturnTyped DEF Leave, bounds, TypeInv, TypeOK
  <2>9. CASE InvalidateObject(p)
    <3>1. /\ lastSeq' = lastSeq + 1 /\ lastSeq' \in Nat /\ barrier' \in 0..lastSeq'
          /\ UNCHANGED <<events, row, files, fences, local, bounds>> /\ Goto(p, "invalidated")
      BY <2>9 DEF InvalidateObject, TypeInv, TypeOK
    <3>2. /\ Seqs' = Seqs /\ Seqs' \subseteq 1..lastSeq'
          /\ row' \in [Video -> [seq: 0..lastSeq', source: Source]]
          /\ intent' \in [Proc -> 0..lastSeq']
      BY <3>1 DEF TypeInv, TypeOK, Seqs, local
    <3>3. TypeOK'
      BY <3>1, <3>2 DEF TypeInv, TypeOK, Goto, Labels, files, fences, local, bounds
    <3>4. \A q \in Proc : InHand(q)'
      BY <3>1, <3>2 DEF TypeInv, TypeOK, InHand, Goto, local
    <3> QED BY <3>3, <3>4 DEF TypeInv
  <2>10. CASE CommitRegistry(p)
    <3>1. UNCHANGED <<vid, seen, intent>>
      BY <2>10 DEF CommitRegistry, TypeInv, TypeOK, local
    <3> QED BY <1>0, <2>10, <3>1, MoveTyped
            DEF CommitRegistry, TypeInv, TypeOK, fences, local, bounds
  <2>11. CASE Replace(p)
    <3>1. quiet' \in [Video -> Value]
      BY <2>11 DEF Replace, TypeInv, TypeOK
    <3>2. UNCHANGED <<vid, seen, intent>>
      BY <2>11 DEF Replace, TypeInv, TypeOK, local
    <3> QED BY <1>0, <2>11, <3>1, <3>2, MoveTyped
            DEF Replace, TypeInv, TypeOK, fences, local, bounds
  <2> QED BY <1>2, <2>1, <2>2, <2>3, <2>4, <2>5, <2>6, <2>7, <2>8, <2>9, <2>10, <2>11
      DEF Step
<1>3. ASSUME NEW p \in Proc, Lock(p) PROVE TypeInv'
  <2>1. UNCHANGED <<vid, seen, intent>>
    BY <1>3 DEF Lock, LockVideo, LockObject, TypeInv, TypeOK, local
  <2>2. CASE LockVideo(p)
    BY <1>0, <2>1, <2>2, MoveTyped DEF LockVideo, TypeInv, TypeOK, files, local, bounds
  <2>3. CASE LockObject(p)
    BY <1>0, <2>1, <2>3, MoveTyped DEF LockObject, TypeInv, TypeOK, files, local, bounds
  <2> QED BY <1>3, <2>2, <2>3 DEF Lock
<1>4. ASSUME NEW p \in Proc, StartLifecycle(p) PROVE TypeInv'
  <2>1. UNCHANGED <<vid, seen, intent>>
    BY <1>4 DEF StartLifecycle, TypeInv, TypeOK, local
  <2>2. mutations' \in 0..MaxMutations
    BY <1>4, ProjectionAssumption DEF StartLifecycle, TypeInv, TypeOK
  <2> QED BY <1>0, <1>4, <2>1, <2>2, MoveTyped
          DEF StartLifecycle, TypeInv, TypeOK, files, local
<1>5. ASSUME NEW p \in Proc, Fails(p) PROVE TypeInv'
  <2>1. faults' \in 0..MaxFaults
    BY <1>5, ProjectionAssumption DEF Fails, Fault, TypeInv, TypeOK
  <2> QED BY <1>5, <2>1, ReturnTyped DEF Fails, Fault, TypeInv, TypeOK
<1>6. ASSUME NEW p \in Proc, FenceDrops(p) PROVE TypeInv'
  <2>1. faults' \in 0..MaxFaults
    BY <1>6, ProjectionAssumption DEF FenceDrops, Fault, TypeInv, TypeOK
  <2>2. TypeOK'
    BY <1>6, <2>1, TableKept DEF FenceDrops, Fault, TypeInv, TypeOK, files, local, table
  <2>3. \A q \in Proc : InHand(q)'
    BY <1>6, TableKept DEF FenceDrops, TypeInv, TypeOK, InHand, local
  <2> QED BY <2>2, <2>3 DEF TypeInv
<1>7. ASSUME NEW p \in Proc, NEW v \in Video, StartMutation(p, v) PROVE TypeInv'
  <2>1. vid' \in [Proc -> Video]
    BY <1>7 DEF StartMutation, TypeInv, TypeOK
  <2>2. mutations' \in 0..MaxMutations
    BY <1>7, ProjectionAssumption DEF StartMutation, TypeInv, TypeOK
  <2> QED BY <1>0, <1>7, <2>1, <2>2, MoveTyped
          DEF StartMutation, TypeInv, TypeOK, files
<1>9. ASSUME NEW p \in Proc, NEW v \in Video, StartReplace(p, v) PROVE TypeInv'
  <2>1. vid' \in [Proc -> Video]
    BY <1>9 DEF StartReplace, TypeInv, TypeOK
  <2>2. mutations' \in 0..MaxMutations
    BY <1>9, ProjectionAssumption DEF StartReplace, TypeInv, TypeOK
  <2> QED BY <1>0, <1>9, <2>1, <2>2, MoveTyped
          DEF StartReplace, TypeInv, TypeOK, files
<1>10. ASSUME NEW v \in Video, ChangeQueue(v) PROVE TypeInv'
  <2>1. mutations' \in 0..MaxMutations /\ quiet' \in [Video -> Value]
    BY <1>10, ProjectionAssumption DEF ChangeQueue, TypeInv, TypeOK
  <2>2. TypeOK'
    BY <1>10, <2>1, TableKept DEF ChangeQueue, TypeInv, TypeOK, fences, local, table
  <2>3. \A q \in Proc : InHand(q)'
    BY <1>10, TableKept DEF ChangeQueue, TypeInv, TypeOK, InHand, local
  <2> QED BY <2>2, <2>3 DEF TypeInv
<1>8. ASSUME NEW p \in Proc, NEW v \in Video, StartRepair(p, v) PROVE TypeInv'
  <2>1. vid' \in [Proc -> Video]
    BY <1>8 DEF StartRepair, TypeInv, TypeOK
  <2> QED BY <1>0, <1>8, <2>1, MoveTyped
          DEF StartRepair, TypeInv, TypeOK, files, fences, bounds
<1> QED BY <1>1, <1>2, <1>3, <1>4, <1>5, <1>6, <1>7, <1>8, <1>9, <1>10
    DEF Next, ListInVain

\* At most one event of a video is applied, whatever is lost: the one its row holds.
THEOREM TypeCorrect == Spec => []TypeOK
<1>1. TypeInv => TypeOK
  BY DEF TypeInv
<1> QED BY <1>1, InitTyped, TypeStep, PTL DEF Spec

-----------------------------------------------------------------------------
(* The order of events *)

\* What closes a pending event.
Closable(s) ==
  \/ row'[events[s].video].seq >= s
  \/ s <= barrier'
  \/ \E t \in Seqs' : t > s /\ Pending(t)' /\ events'[t].video = events[s].video

InOrder ==
  /\ \A v \in Video : row'[v] # row[v] => row'[v].seq > row[v].seq /\ row'[v].seq > barrier
  /\ \A s \in Seqs : Pending(s) /\ ~Pending(s)' => Closable(s)

\* The barrier is never in the way: it closes nothing by itself.
LEMMA EventsKept == ASSUME UNCHANGED <<events, row>> PROVE InOrder
BY DEF InOrder, Pending, Seqs

LEMMA ApplyInOrder ==
  ASSUME TypeInv, NEW s \in Seqs, NEW x \in Source, ApplyIntent(s, x), barrier' = barrier
  PROVE  InOrder
<1>1. \A v \in Video : row'[v] # row[v] => row'[v].seq > row[v].seq /\ row'[v].seq > barrier
  BY ApplyIntentStep
<1>2. ASSUME NEW t \in Seqs, Pending(t), ~Pending(t)'
      PROVE  t <= barrier \/ row'[events[t].video].seq >= t
  <2>0. s \in Nat /\ t \in Nat /\ barrier \in Nat /\ Seqs' = Seqs
    BY ApplyIntentStep DEF TypeInv, TypeOK
  <2>1. CASE s <= barrier /\ events' = Marked(s, "superseded")
    <3>1. t = s
      BY <1>2, <2>0, <2>1 DEF Marked, Pending
    <3> QED BY <2>1, <3>1
  <2>2. CASE s < row[events[s].video].seq /\ events' = Marked(s, "superseded") /\ UNCHANGED row
    <3>1. t = s
      BY <1>2, <2>0, <2>2 DEF Marked, Pending
    <3>2. row[events[s].video].seq \in Nat
      BY DEF TypeInv, TypeOK, Event
    <3> QED BY <2>0, <2>2, <3>1, <3>2
  <2>3. CASE LET v == events[s].video
             IN  /\ s > barrier /\ s >= row[v].seq
                 /\ row' = IF s = row[v].seq THEN row
                           ELSE [row EXCEPT ![v] = [seq |-> s, source |-> x]]
                 /\ events' = [u \in Seqs |->
                     IF u = s THEN [events[u] EXCEPT !.status = "applied"]
                     ELSE IF u \in Live(v) /\ u < s THEN [events[u] EXCEPT !.status = "superseded"]
                     ELSE events[u]]
    <3> DEFINE v == events[s].video
    <3>1. row'[v].seq = s
      BY <2>3 DEF TypeInv, TypeOK, Event
    <3>2. t = s \/ (t \in Live(v) /\ t < s)
      <4>1. events' = [u \in Seqs |->
                     IF u = s THEN [events[u] EXCEPT !.status = "applied"]
                     ELSE IF u \in Live(v) /\ u < s THEN [events[u] EXCEPT !.status = "superseded"]
                     ELSE events[u]]
        BY <2>3
      <4> HIDE DEF v
      <4>2. t # s /\ ~ (t \in Live(v) /\ t < s) => events'[t] = events[t]
        BY <4>1
      <4> QED BY <1>2, <2>0, <4>2 DEF Pending
    <3>3. events[t].video = v
      BY <3>2 DEF Live
    <3> HIDE DEF v
    <3> QED BY <2>0, <3>1, <3>2, <3>3
  <2> QED BY <2>1, <2>2, <2>3 DEF ApplyIntent
<1> QED BY <1>1, <1>2 DEF InOrder, Closable

LEMMA ReserveInOrder ==
  ASSUME TypeInv, NEW event \in Event, NEW retired, event.status = "pending",
         Reserved(event, retired), UNCHANGED <<row, barrier>>,
         \A s \in retired : events[s].video = event.video
  PROVE  InOrder
<1>0. PICK new \in Int : new = lastSeq + 1
  BY DEF TypeInv, TypeOK
<1>1. Seqs' = Seqs \cup {new} /\ new \notin Seqs /\ \A s \in Seqs : s < new
  BY <1>0, ReservedTyped DEF TypeInv, TypeOK
<1>2. events'[new] = event /\ \A s \in Seqs \ retired : events'[s] = events[s]
  BY <1>0, <1>1 DEF Reserved
<1>3. ASSUME NEW s \in Seqs, Pending(s), ~Pending(s)' PROVE Closable(s)
  <2>1. s \in retired
    BY <1>1, <1>2, <1>3 DEF Pending
  <2>2. new \in Seqs' /\ new > s /\ Pending(new)' /\ events'[new].video = events[s].video
    BY <1>1, <1>2, <2>1 DEF Pending, TypeInv, TypeOK
  <2> QED BY <2>2 DEF Closable
<1> QED BY <1>3 DEF InOrder

LEMMA OrderStep == TypeInv /\ [Next]_vars => [InOrder]_vars
<1> SUFFICES ASSUME TypeInv, Next PROVE InOrder
  OBVIOUS
<1>1. ASSUME NEW p \in Proc, Reserve(p) PROVE InOrder
  <2>1. PICK x \in Value : ReserveIntent(p, vid[p], x)
    BY <1>1 DEF Reserve
  <2>2. CASE UNCHANGED <<events, lastSeq>>
    BY <2>1, <2>2, EventsKept DEF ReserveIntent
  <2>3. CASE Reserved(New(vid[p], "mutation", x), {})
    <3>1. New(vid[p], "mutation", x) \in Event /\ New(vid[p], "mutation", x).status = "pending"
      BY DEF New, Event, Status, Source, TypeInv, TypeOK
    <3> QED BY <2>1, <2>3, <3>1, ReserveInOrder DEF ReserveIntent
  <2> QED BY <2>1, <2>2, <2>3 DEF ReserveIntent
<1>2. ASSUME NEW p \in Proc, Repair(p) PROVE InOrder
  <2>1. CASE UNCHANGED table
    BY <2>1, EventsKept DEF table
  <2>2. CASE ReserveRepair(p, vid[p], seen[p])
    <3>1. CASE UNCHANGED <<events, lastSeq>>
      BY <2>2, <3>1, EventsKept DEF ReserveRepair
    <3>2. CASE Reserved(New(vid[p], "repair", seen[p]), SameIdentity(vid[p], "repair", seen[p]))
      <4>1. /\ New(vid[p], "repair", seen[p]) \in Event
            /\ New(vid[p], "repair", seen[p]).status = "pending"
            /\ New(vid[p], "repair", seen[p]).video = vid[p]
        BY <1>2 DEF New, Event, Status, Repair, TypeInv, TypeOK, InHand
      <4>2. \A s \in SameIdentity(vid[p], "repair", seen[p]) : events[s].video = vid[p]
        BY DEF SameIdentity, Live
      <4> QED BY <2>2, <3>2, <4>1, <4>2, ReserveInOrder DEF ReserveRepair
    <3> QED BY <2>2, <3>1, <3>2 DEF ReserveRepair
  <2> QED BY <1>2, <2>1, <2>2 DEF Repair
<1>3. ASSUME NEW p \in Proc, Apply(p) PROVE InOrder
  <2>1. intent[p] \in Seqs /\ seen[p] \in Source
    BY <1>3 DEF Apply, TypeInv, InHand
  <2> QED BY <1>3, <2>1, ApplyInOrder DEF Apply
<1>4. ASSUME NEW p \in Proc,
             \/ Publish(p) \/ EndMutation(p) \/ UnlockRaises(p) \/ ReadSource(p) \/ Leave(p)
             \/ InvalidateObject(p) \/ CommitRegistry(p) \/ Lock(p) \/ StartLifecycle(p)
             \/ Fails(p) \/ FenceDrops(p) \/ Replace(p)
             \/ \E v \in Video : StartMutation(p, v) \/ StartReplace(p, v) \/ StartRepair(p, v)
      PROVE  InOrder
  BY <1>4, EventsKept
     DEF Publish, EndMutation, UnlockRaises, ReadSource, Leave, InvalidateObject, CommitRegistry,
         Lock, LockVideo, LockObject, StartLifecycle, Fails, FenceDrops, Replace,
         StartMutation, StartReplace, StartRepair, table
<1>5. ASSUME NEW v \in Video, ChangeQueue(v) PROVE InOrder
  BY <1>5, EventsKept DEF ChangeQueue, table
<1>6. CASE ListInVain
  BY <1>6, EventsKept DEF ListInVain, vars
<1> QED BY <1>1, <1>2, <1>3, <1>4, <1>5, <1>6 DEF Next, Step

\* However late events are applied, and whatever fences are lost, the projection
\* never goes back, and no pending event is closed by an older one.
THEOREM EventsKeepOrder == Spec => EventsInOrder
<1>1. [InOrder]_vars => [/\ \A v \in Video : row'[v] # row[v]
                                => row'[v].seq > row[v].seq /\ row'[v].seq > barrier
                         /\ \A s \in Seqs : Pending(s) /\ ~Pending(s)' =>
                              \/ row'[events[s].video].seq >= s
                              \/ s <= barrier'
                              \/ \E t \in Seqs' : t > s /\ Pending(t)'
                                                  /\ events'[t].video = events[s].video]_vars
  BY DEF InOrder, Closable
<1> QED BY <1>1, InitTyped, TypeStep, OrderStep, PTL DEF Spec, EventsInOrder

-----------------------------------------------------------------------------
(* What "current" says *)

Waits(s, v) == Pending(s) /\ events[s].video = v

\* What a process knows at its place as long as fences hold.
PlaceInv(p) ==
  /\ pc[p] \in {"mutating", "reserved", "fenced", "reading", "repairing", "applying"}
       => videoFence = p
  /\ pc[p] \in {"reading", "repairing", "applying", "lifecycle", "invalidated"}
       => objectFence = p
  /\ pc[p] = "reserved" => Waits(intent[p], vid[p])
  /\ pc[p] \in {"repairing", "applying"} => Announced(vid[p], seen[p])
  /\ pc[p] = "applying" => /\ Waits(intent[p], vid[p]) /\ events[intent[p]].kind = "repair"
                           /\ intent[p] > barrier
  /\ pc[p] = "invalidated" => \A v \in Video : row[v].seq <= barrier

\* A pending event is newer than the projection, and only repairs are applied.
EventInv(s) ==
  /\ events[s].status = "pending" => s > row[events[s].video].seq
  /\ events[s].kind = "mutation" => events[s].status # "applied"

\* No live event asks for more: then the projection says what events announced.
RowInv(v) ==
  row[v].seq > barrier /\ (\A s \in Live(v) : s <= row[v].seq) => Announced(v, row[v].source)

\* A source just derived says what is so, by any contents.
LEMMA SourceAnnounced == ASSUME TypeInv, NEW v \in Video PROVE Announced(v, SourceOf(v))
BY ProjectionAssumption DEF TypeInv, TypeOK, Announced, SourceOf

CanonInv ==
  /\ \A p \in Proc : PlaceInv(p)
  /\ \A s \in Seqs : EventInv(s)
  /\ \A v \in Video : RowInv(v)

\* Other processes are not disturbed by a step of p that takes, at most, a free fence.
OthersKept(p) ==
  \A q \in Proc \ {p} :
    /\ pc'[q] = pc[q] /\ vid'[q] = vid[q] /\ seen'[q] = seen[q] /\ intent'[q] = intent[q]
    /\ videoFence = q => videoFence' = q
    /\ objectFence = q => objectFence' = q

LEMMA InitCanon == Init => CanonInv
BY DEF Init, CanonInv, PlaceInv, EventInv, RowInv, Seqs

\* max() of the sequence numbers that are asked for finds one whenever there is one.
LEMMA Largest ==
  ASSUME NEW n \in Nat, NEW T \in SUBSET (0..n), T # {}
  PROVE  \E m \in T : \A t \in T : t <= m
<1> DEFINE D == {n - t : t \in T}
<1>1. D \subseteq Nat /\ D # {}
  <2>1. ASSUME NEW t \in T PROVE n - t \in Nat
    <3>1. t \in 0..n
      OBVIOUS
    <3> QED BY <3>1
  <2> QED BY <2>1
<1>2. \E d \in D : \A e \in D : ~ (<<e, d>> \in OpToRel(<, Nat))
  <2> HIDE DEF D
  <2> QED BY <1>1, NatLessThanWellFounded, WFMin, Zenon
<1>3. PICK d \in D : \A e \in D : ~ (e < d)
  BY <1>1, <1>2 DEF OpToRel
<1>4. PICK m \in T : d = n - m
  OBVIOUS
<1>5. ASSUME NEW t \in T PROVE t <= m
  <2>1. n - t \in D
    OBVIOUS
  <2>2. ~ (n - t < n - m)
    BY <1>3, <1>4, <2>1
  <2>3. t \in 0..n /\ m \in 0..n
    OBVIOUS
  <2> QED BY <2>2, <2>3
<1> QED BY <1>5

LEMMA LargestIsLatest ==
  ASSUME TypeInv, NEW v \in Video
  PROVE  \A s \in Live(v) : Latest(v) \in Live(v) /\ s <= Latest(v)
<1> SUFFICES ASSUME Live(v) # {} PROVE Latest(v) \in Live(v) /\ \A s \in Live(v) : s <= Latest(v)
  OBVIOUS
<1>1. Live(v) \in SUBSET (0..lastSeq) /\ lastSeq \in Nat
  <2>1. Live(v) \subseteq Seqs
    BY DEF Live
  <2>2. Seqs \subseteq 1..lastSeq /\ lastSeq \in Nat
    BY DEF TypeInv, TypeOK
  <2>3. ASSUME NEW s \in Live(v) PROVE s \in 0..lastSeq
    <3>1. s \in 1..lastSeq
      BY <2>1, <2>2
    <3> QED BY <2>2, <3>1
  <2>4. Live(v) \subseteq 0..lastSeq
    BY <2>3
  <2> QED BY <2>2, <2>4
<1>2. \E m \in Live(v) : \A t \in Live(v) : t <= m
  BY <1>1, Largest
<1> QED BY <1>2 DEF Latest

\* A step that leaves the table and what it announces alone.
LEMMA MoveCanon ==
  ASSUME TypeInv, CanonInv, NEW p \in Proc, UNCHANGED <<table, canon, archived>>, OthersKept(p),
         PlaceInv(p)'
  PROVE  CanonInv'
<1> USE DEF table
<1>1. \A q \in Proc : PlaceInv(q)'
  BY DEF CanonInv, PlaceInv, OthersKept, Waits, Pending, Seqs, Announced
<1>2. \A s \in Seqs' : EventInv(s)'
  BY DEF CanonInv, EventInv, Seqs
<1>3. \A v \in Video : RowInv(v)'
  BY DEF CanonInv, RowInv, Live, Seqs, Announced
<1> QED BY <1>1, <1>2, <1>3 DEF CanonInv

\* A new event is newer than everything, so that no row is current with it waiting.
LEMMA ReservedCanon ==
  ASSUME TypeInv, CanonInv, NEW p \in Proc, NEW v \in Video, NEW event \in Event, NEW retired,
         event.status = "pending", event.video = v, retired \subseteq Live(v),
         Reserved(event, retired), UNCHANGED <<row, barrier, files>>,
         videoFence = p, OthersKept(p)
  PROVE  /\ \A q \in Proc \ {p} : PlaceInv(q)'
         /\ \A s \in Seqs' : EventInv(s)'
         /\ \A w \in Video : RowInv(w)'
         /\ \A s : s = lastSeq + 1 => Waits(s, v)' /\ events'[s] = event /\ s > barrier'
<1>0. PICK new \in Int : new = lastSeq + 1
  BY DEF TypeInv, TypeOK
<1>1. /\ Seqs' = Seqs \cup {new} /\ new \notin Seqs /\ events' \in [Seqs' -> Event]
      /\ \A s \in Seqs : s < new
      /\ \A w \in Video : row[w].seq < new
      /\ barrier < new
  BY <1>0, ReservedTyped DEF TypeInv, TypeOK
<1>2. /\ events'[new] = event
      /\ \A s \in Seqs \ retired : events'[s] = events[s]
  BY <1>0, <1>1 DEF Reserved
<1>3. \A s \in retired : /\ events'[s].status = "superseded" /\ events'[s].kind = events[s].kind
                         /\ events'[s].video = v
  <2> SUFFICES ASSUME NEW s \in retired
               PROVE  /\ events'[s].status = "superseded" /\ events'[s].kind = events[s].kind
                      /\ events'[s].video = v
    OBVIOUS
  <2>1. s \in Seqs /\ events[s] \in Event /\ events[s].video = v /\ s # new
    BY <1>1 DEF TypeInv, TypeOK, Live
  <2>2. events'[s] = [events[s] EXCEPT !.status = "superseded"]
    BY <1>0, <2>1 DEF Reserved, Event
  <2> QED BY <2>1, <2>2, StatusSet DEF Status, Event
<1>4. Waits(new, v)'
  BY <1>1, <1>2 DEF Waits, Pending
<1>5. ASSUME NEW q \in Proc \ {p} PROVE PlaceInv(q)'
  BY <1>5 DEF CanonInv, PlaceInv, OthersKept, Announced, files
<1>6. ASSUME NEW s \in Seqs' PROVE EventInv(s)'
  <2>1. CASE s = new
    <3>1. event.status # "applied" /\ new > row[event.video].seq
      BY <1>1
    <3> QED BY <1>2, <2>1, <3>1 DEF EventInv
  <2>2. CASE s \in retired
    BY <1>3, <2>2 DEF EventInv
  <2>3. CASE s \in Seqs \ retired
    BY <1>2, <2>3 DEF EventInv, CanonInv
  <2> QED BY <1>1, <2>1, <2>2, <2>3
<1>7. ASSUME NEW w \in Video PROVE RowInv(w)'
  <2>1. CASE w = v
    <3>1. new \in Live(w)'
      BY <1>4, <2>1 DEF Live, Waits, Pending
    <3>2. ~ (new <= row'[w].seq)
      BY <1>1 DEF TypeInv, TypeOK
    <3> QED BY <3>1, <3>2 DEF RowInv
  <2>2. CASE w # v
    <3>1. \A s \in Live(w) : s \in Live(w)'
      BY <1>1, <1>2, <2>2 DEF Live
    <3> QED BY <3>1 DEF RowInv, CanonInv, Announced, files
  <2> QED BY <2>1, <2>2
<1>8. \A s : s = lastSeq + 1 => s = new
  BY <1>0
<1>9. new > barrier'
  BY <1>1 DEF TypeInv, TypeOK
<1> QED BY <1>2, <1>4, <1>5, <1>6, <1>7, <1>8, <1>9

\* apply_intent of what the files say, for an event that waits behind no barrier.
LEMMA ApplyCanon ==
  ASSUME TypeInv, CanonInv, NEW p \in Proc, Apply(p), videoFence = p
  PROVE  CanonInv'
<1> DEFINE s == intent[p]
           v == vid[p]
<1>1. /\ pc[p] = "applying" /\ Goto(p, "leaving") /\ ApplyIntent(s, seen[p])
      /\ UNCHANGED <<lastSeq, barrier, files, fences, local, bounds>>
  BY DEF Apply
<1>2. /\ s \in Seqs /\ events[s].status = "pending" /\ events[s].video = v /\ v \in Video
      /\ s > barrier /\ s > row[v].seq /\ Announced(v, seen[p]) /\ s \in Nat
      /\ events[s].kind = "repair"
      /\ seen[p] \in Source /\ row[v].seq \in Nat /\ barrier \in Nat
  BY <1>1 DEF CanonInv, PlaceInv, Waits, Pending, EventInv, TypeInv, TypeOK, InHand
<1>3. /\ row' = [row EXCEPT ![v] = [seq |-> s, source |-> seen[p]]]
      /\ events' = [t \in Seqs |->
           IF t = s THEN [events[t] EXCEPT !.status = "applied"]
           ELSE IF t \in Live(v) /\ t < s THEN [events[t] EXCEPT !.status = "superseded"]
           ELSE events[t]]
  <2> HIDE DEF s, v
  <2>1. ~ (s <= barrier) /\ ~ (s < row[v].seq) /\ s # row[v].seq
    BY <1>2
  <2> QED BY <1>1, <1>2, <2>1, Zenon DEF ApplyIntent
<1> HIDE DEF s, v
<1>4. ASSUME NEW t \in Seqs
      PROVE  /\ events'[t].video = events[t].video /\ events'[t].kind = events[t].kind
             /\ t = s => events'[t].status = "applied"
             /\ t # s => events'[t].status \in {events[t].status, "superseded"}
             /\ t # s /\ t \in Live(v) /\ t < s => events'[t].status = "superseded"
  <2>1. events[t] \in Event
    BY DEF TypeInv, TypeOK
  <2>2. \A status \in Status :
          LET f == [events[t] EXCEPT !.status = status]
          IN  f.status = status /\ f.video = events[t].video /\ f.kind = events[t].kind
    BY <2>1, StatusSet
  <2>3. {"applied", "superseded"} \subseteq Status
    BY DEF Status
  <2>4. \/ t = s /\ events'[t] = [events[t] EXCEPT !.status = "applied"]
        \/ /\ t # s /\ t \in Live(v) /\ t < s
           /\ events'[t] = [events[t] EXCEPT !.status = "superseded"]
        \/ t # s /\ ~ (t \in Live(v) /\ t < s) /\ events'[t] = events[t]
    BY <1>3, Zenon
  <2> QED BY <2>2, <2>3, <2>4
<1>5. Seqs' = Seqs
  BY <1>3 DEF Seqs
<1>6. ASSUME NEW t \in Seqs PROVE EventInv(t)'
  <2>1. EventInv(t) /\ t \in Nat /\ events[t].video \in Video
    BY DEF CanonInv, TypeInv, TypeOK, Event
  <2>2. CASE t = s
    BY <1>2, <1>4, <2>2 DEF EventInv
  <2>3. CASE t # s
    <3>1. events'[t].status = "pending" => events[t].status = "pending"
      BY <1>4, <2>3
    <3>2. events'[t].status = "pending" /\ events[t].video = v => t > s
      BY <1>2, <1>4, <2>1, <2>3, <3>1 DEF Live
    <3>3. /\ row'[v].seq = s
          /\ \A w \in Video : w # v => row'[w] = row[w]
      BY <1>2, <1>3 DEF TypeInv, TypeOK
    <3>4. events'[t].status = "pending" => t > row'[events'[t].video].seq
      BY <1>4, <2>1, <3>1, <3>2, <3>3 DEF EventInv
    <3>5. events'[t].kind = "mutation" => events'[t].status # "applied"
      BY <1>4, <2>1, <2>3 DEF EventInv
    <3> QED BY <3>4, <3>5 DEF EventInv
  <2> QED BY <2>2, <2>3
<1>7. ASSUME NEW w \in Video PROVE RowInv(w)'
  <2>1. CASE w = v
    <3>1. row'[w].source = seen[p]
      BY <1>2, <1>3, <2>1 DEF TypeInv, TypeOK
    <3> QED BY <1>1, <1>2, <2>1, <3>1 DEF RowInv, Announced, files
  <2>2. CASE w # v
    <3>1. row'[w] = row[w]
      BY <1>3, <2>2 DEF TypeInv, TypeOK
    <3>2. ASSUME NEW t \in Live(w) PROVE t \in Live(w)'
      <4>1. t \in Seqs /\ t # s /\ t \notin Live(v) /\ events[t].video = w
        BY <1>2, <2>2 DEF Live
      <4>2. events'[t] = events[t]
        BY <1>3, <4>1, Zenon
      <4> QED BY <1>5, <4>1, <4>2, <3>2 DEF Live
    <3> QED BY <1>1, <3>1, <3>2 DEF RowInv, CanonInv, Announced, files
  <2> QED BY <2>1, <2>2
<1>8. ASSUME NEW q \in Proc PROVE PlaceInv(q)'
  <2>1. CASE q = p
    BY <1>1, <2>1 DEF PlaceInv, Goto, TypeInv, TypeOK
  <2>2. CASE q # p
    <3>1. /\ pc'[q] = pc[q] /\ UNCHANGED <<vid, seen, intent, barrier, videoFence, objectFence>>
          /\ PlaceInv(q) /\ videoFence # q
      BY <1>1, <2>2 DEF CanonInv, Goto, TypeInv, TypeOK, local, fences
    <3>2. pc[q] \in {"idle", "published", "reconciling", "leaving", "replacing", "lifecycle",
                   "invalidated"}
      BY <3>1 DEF PlaceInv, TypeInv, TypeOK, Labels
    <3>3. pc[q] # "invalidated"
      <4>1. objectFence = p
        BY <1>1 DEF CanonInv, PlaceInv
      <4> QED BY <2>2, <3>1, <4>1 DEF PlaceInv
    <3> QED BY <3>1, <3>2, <3>3 DEF PlaceInv
  <2> QED BY <2>1, <2>2
<1> QED BY <1>5, <1>6, <1>7, <1>8 DEF CanonInv

LEMMA ReserveCanon ==
  ASSUME TypeInv, CanonInv, NEW p \in Proc, Reserve(p)
  PROVE  CanonInv'
<1>1. /\ pc[p] = "mutating" /\ videoFence = p /\ vid[p] \in Video /\ Goto(p, "reserved")
      /\ UNCHANGED <<files, fences, vid, bounds, row, barrier>>
  BY DEF Reserve, ReserveIntent, CanonInv, PlaceInv, TypeInv, TypeOK
<1>2. PICK x \in Value : ReserveIntent(p, vid[p], x) /\ seen' = [seen EXCEPT ![p] = x]
  BY DEF Reserve
<1>3. PICK s \in Int : intent' = [intent EXCEPT ![p] = s]
                       /\ (UNCHANGED <<events, lastSeq>> => s \in SameIdentity(vid[p], "mutation", x))
                       /\ (s = lastSeq + 1 \/ UNCHANGED <<events, lastSeq>>)
  <2>1. lastSeq + 1 \in Int /\ \A s \in SameIdentity(vid[p], "mutation", x) : s \in Int
    BY DEF SameIdentity, Live, TypeInv, TypeOK
  <2>2. Reserved(New(vid[p], "mutation", x), {}) => lastSeq' # lastSeq
    BY DEF Reserved, TypeInv, TypeOK
  <2> QED BY <1>2, <2>1, <2>2 DEF ReserveIntent
<1>4. OthersKept(p)
  BY <1>1, <1>2, <1>3 DEF OthersKept, Goto, fences, TypeInv, TypeOK
<1>5. /\ \A q \in Proc \ {p} : PlaceInv(q)'
      /\ \A t \in Seqs' : EventInv(t)'
      /\ \A v \in Video : RowInv(v)'
      /\ Waits(s, vid[p])'
  <2>1. CASE UNCHANGED <<events, lastSeq>>
    <3>1. \A q \in Proc \ {p} : PlaceInv(q)'
      BY <1>1, <1>4, <2>1 DEF CanonInv, PlaceInv, OthersKept, Waits, Pending, Seqs, Announced, files
    <3>2. \A t \in Seqs' : EventInv(t)'
      BY <1>1, <2>1 DEF CanonInv, EventInv, Seqs
    <3>3. \A v \in Video : RowInv(v)'
      BY <1>1, <2>1 DEF CanonInv, RowInv, Live, Seqs, Announced, files
    <3>4. /\ s \in Seqs /\ events[s].video = vid[p] /\ events[s].status # "superseded"
          /\ events[s].kind = "mutation"
      BY <1>3, <2>1 DEF SameIdentity, Live
    <3>5. events[s].status = "pending"
      BY <3>4 DEF CanonInv, EventInv, TypeInv, TypeOK, Event, Status
    <3> QED BY <1>1, <2>1, <3>1, <3>2, <3>3, <3>4, <3>5 DEF Waits, Pending, Seqs
  <2>2. CASE Reserved(New(vid[p], "mutation", x), {}) /\ s = lastSeq + 1
    <3>1. /\ New(vid[p], "mutation", x) \in Event /\ New(vid[p], "mutation", x).status = "pending"
          /\ New(vid[p], "mutation", x).video = vid[p]
      BY <1>1 DEF New, Event, Status, Source
    <3>2. UNCHANGED <<row, barrier, files>>
      BY <1>1
    <3>3. \A t : t = lastSeq + 1 => Waits(t, vid[p])'
      BY <1>1, <1>4, <2>2, <3>1, <3>2, ReservedCanon DEF Waits
    <3> QED BY <1>1, <1>4, <2>2, <3>1, <3>2, <3>3, ReservedCanon
  <2> QED BY <1>2, <1>3, <2>1, <2>2 DEF ReserveIntent
<1>6. PlaceInv(p)'
  BY <1>1, <1>3, <1>5 DEF PlaceInv, Goto, fences, TypeInv, TypeOK
<1> QED BY <1>5, <1>6 DEF CanonInv

LEMMA RepairCanon ==
  ASSUME TypeInv, CanonInv, NEW p \in Proc, Repair(p)
  PROVE  CanonInv'
<1>1. /\ pc[p] = "repairing" /\ videoFence = p /\ objectFence = p /\ vid[p] \in Video
      /\ seen[p] \in Source /\ Announced(vid[p], seen[p])
      /\ UNCHANGED <<files, fences, vid, seen, bounds>>
  BY DEF Repair, CanonInv, PlaceInv, TypeInv, TypeOK, InHand
<1>2. CASE Goto(p, "leaving") /\ UNCHANGED <<table, intent>>
  <2>1. OthersKept(p)
    BY <1>1, <1>2 DEF OthersKept, Goto, fences, TypeInv, TypeOK
  <2>2. PlaceInv(p)'
    BY <1>2 DEF PlaceInv, Goto, TypeInv, TypeOK
  <2> QED BY <1>1, <1>2, <2>1, <2>2, MoveCanon DEF files
<1>3. CASE ReserveRepair(p, vid[p], seen[p]) /\ Goto(p, "applying")
  <2> DEFINE event   == New(vid[p], "repair", seen[p])
             retired == SameIdentity(vid[p], "repair", seen[p])
  <2>1. UNCHANGED <<row, barrier>>
    BY <1>3 DEF ReserveRepair
  <2>2. CASE /\ ReusableRepair(vid[p], seen[p]) /\ UNCHANGED <<events, lastSeq>>
             /\ intent' = [intent EXCEPT ![p] = Latest(vid[p])]
    <3>1. OthersKept(p)
      BY <1>1, <1>3, <2>2 DEF OthersKept, Goto, fences, TypeInv, TypeOK
    <3>2. PICK s \in Int : s = Latest(vid[p]) /\ s \in Live(vid[p]) /\ Pending(s) /\ s > barrier
                           /\ events[s].kind = "repair"
      <4>0. Latest(vid[p]) \in Seqs
        BY <2>2 DEF ReusableRepair, Pending
      <4>1. Latest(vid[p]) \in Seqs /\ Latest(vid[p]) \in 1..lastSeq
        BY <4>0 DEF TypeInv, TypeOK
      <4>2. Live(vid[p]) # {}
        <5> SUFFICES ASSUME Live(vid[p]) = {} PROVE FALSE
          OBVIOUS
        <5>1. Latest(vid[p]) = 0
          BY DEF Latest
        <5> QED BY <4>1, <5>1 DEF TypeInv, TypeOK
      <4>3. Latest(vid[p]) \in Live(vid[p])
        BY <1>1, <4>2, LargestIsLatest
      <4> QED BY <2>2, <4>1, <4>3 DEF ReusableRepair
    <3>3. Waits(s, vid[p])' /\ events'[s].kind = "repair" /\ s > barrier' /\ intent'[p] = s
      BY <1>1, <2>1, <2>2, <3>2 DEF Waits, Pending, Live, Seqs, TypeInv, TypeOK
    <3>4. PlaceInv(p)'
      BY <1>1, <1>3, <3>3 DEF PlaceInv, Goto, fences, files, Announced, TypeInv, TypeOK
    <3> QED BY <1>1, <2>1, <2>2, <3>1, <3>4, MoveCanon DEF table, files
  <2>3. CASE Reserved(event, retired) /\ intent' = [intent EXCEPT ![p] = lastSeq + 1]
    <3>1. OthersKept(p)
      BY <1>1, <1>3, <2>3 DEF OthersKept, Goto, fences, TypeInv, TypeOK
    <3>2. /\ event \in Event /\ event.status = "pending" /\ event.video = vid[p]
          /\ event.kind = "repair" /\ retired \subseteq Live(vid[p])
      BY <1>1 DEF New, Event, Status, SameIdentity
    <3> HIDE DEF event, retired
    <3>3. PICK s \in Int : s = lastSeq + 1
      BY DEF TypeInv, TypeOK
    <3>4. UNCHANGED <<row, barrier, files>>
      BY <1>1, <2>1
    <3>5. PICK v \in Video : v = vid[p] /\ v = vid'[p]
      BY <1>1
    <3>6. /\ \A q \in Proc \ {p} : PlaceInv(q)'
          /\ \A t \in Seqs' : EventInv(t)'
          /\ \A w \in Video : RowInv(w)'
          /\ Waits(s, v)' /\ events'[s] = event /\ s > barrier'
      BY <1>1, <2>3, <3>1, <3>2, <3>3, <3>4, <3>5, ReservedCanon
    <3>7. PlaceInv(p)'
      <4>1. intent'[p] = s
        BY <2>3, <3>3 DEF TypeInv, TypeOK
      <4> QED BY <1>1, <1>3, <3>2, <3>5, <3>6, <4>1
              DEF PlaceInv, Goto, Waits, fences, files, Announced, TypeInv, TypeOK
    <3> QED BY <3>6, <3>7 DEF CanonInv
  <2> QED BY <1>3, <2>2, <2>3 DEF ReserveRepair
<1> QED BY <1>2, <1>3 DEF Repair

\* The canonical file changes while its event is waiting: the projection of its
\* video is not current then, whatever it holds.
LEMMA PublishCanon ==
  ASSUME TypeInv, CanonInv, NEW p \in Proc, Publish(p)
  PROVE  CanonInv'
<1>1. /\ pc[p] = "reserved" /\ videoFence = p /\ vid[p] \in Video /\ Waits(intent[p], vid[p])
      /\ canon' = [canon EXCEPT ![vid[p]] = seen[p]] /\ Goto(p, "published")
      /\ UNCHANGED <<table, archived, fences, local, bounds>>
  BY DEF Publish, CanonInv, PlaceInv, TypeInv, TypeOK
<1>2. ASSUME NEW v \in Video PROVE RowInv(v)'
  <2>1. CASE v = vid[p]
    <3>1. intent[p] \in Live(v) /\ intent[p] > row[v].seq
      BY <1>1, <2>1 DEF Waits, Pending, Live, CanonInv, EventInv
    <3>2. intent[p] \in Live(v)' /\ ~ (intent[p] <= row'[v].seq)
      BY <1>1, <3>1 DEF Live, Seqs, table, local, TypeInv, TypeOK
    <3> QED BY <3>2 DEF RowInv
  <2>2. CASE v # vid[p]
    BY <1>1, <2>2 DEF RowInv, CanonInv, Live, Seqs, Announced, table, TypeInv, TypeOK
  <2> QED BY <2>1, <2>2
<1>3. ASSUME NEW q \in Proc PROVE PlaceInv(q)'
  <2>1. CASE q = p
    BY <1>1, <2>1 DEF PlaceInv, Goto, TypeInv, TypeOK
  <2>2. CASE q # p
    <3>1. PlaceInv(q) /\ videoFence # q /\ pc'[q] = pc[q]
      BY <1>1, <2>2 DEF CanonInv, Goto, TypeInv, TypeOK
    <3>2. pc[q] \notin {"mutating", "reserved", "fenced", "reading", "repairing", "applying"}
      BY <3>1 DEF PlaceInv
    <3> QED BY <1>1, <3>1, <3>2 DEF PlaceInv, fences, table
  <2> QED BY <2>1, <2>2
<1>4. \A s \in Seqs' : EventInv(s)'
  BY <1>1 DEF CanonInv, EventInv, Seqs, table
<1> QED BY <1>2, <1>3, <1>4 DEF CanonInv

\* The barrier is above every row until the registry says what the files do.
LEMMA LifecycleCanon ==
  ASSUME TypeInv, CanonInv, NEW p \in Proc, InvalidateObject(p) \/ CommitRegistry(p)
  PROVE  CanonInv'
<1>1. CASE InvalidateObject(p)
  <2>1. /\ pc[p] = "lifecycle" /\ objectFence = p /\ barrier' = lastSeq + 1
        /\ Goto(p, "invalidated") /\ UNCHANGED <<events, row, files, fences, local, bounds>>
        /\ \A v \in Video : row[v].seq < barrier'
    BY <1>1 DEF InvalidateObject, CanonInv, PlaceInv, TypeInv, TypeOK
  <2>2. ASSUME NEW q \in Proc PROVE PlaceInv(q)'
    <3>1. CASE q = p
      BY <2>1, <3>1 DEF PlaceInv, Goto, fences, TypeInv, TypeOK
    <3>2. CASE q # p
      <4>1. PlaceInv(q) /\ objectFence # q /\ pc'[q] = pc[q]
        BY <2>1, <3>2 DEF CanonInv, Goto, TypeInv, TypeOK
      <4>2. pc[q] \notin {"reading", "repairing", "applying", "lifecycle", "invalidated"}
        BY <4>1 DEF PlaceInv
      <4> QED BY <2>1, <4>1, <4>2 DEF PlaceInv, Waits, Pending, Seqs, fences, local
    <3> QED BY <3>1, <3>2
  <2>3. \A s \in Seqs' : EventInv(s)'
    BY <2>1 DEF CanonInv, EventInv, Seqs
  <2>4. \A v \in Video : RowInv(v)'
    BY <2>1 DEF RowInv, TypeInv, TypeOK
  <2> QED BY <2>2, <2>3, <2>4 DEF CanonInv
<1>2. CASE CommitRegistry(p)
  <2>1. /\ pc[p] = "invalidated" /\ objectFence = p /\ Goto(p, "leaving")
        /\ UNCHANGED <<table, canon, fences, local, bounds>>
        /\ \A v \in Video : row[v].seq <= barrier
    BY <1>2 DEF CommitRegistry, CanonInv, PlaceInv
  <2>2. ASSUME NEW q \in Proc PROVE PlaceInv(q)'
    <3>1. CASE q = p
      BY <2>1, <3>1 DEF PlaceInv, Goto, TypeInv, TypeOK
    <3>2. CASE q # p
      <4>1. PlaceInv(q) /\ objectFence # q /\ pc'[q] = pc[q]
        BY <2>1, <3>2 DEF CanonInv, Goto, TypeInv, TypeOK
      <4>2. pc[q] \notin {"reading", "repairing", "applying", "lifecycle", "invalidated"}
        BY <4>1 DEF PlaceInv
      <4> QED BY <2>1, <4>1, <4>2 DEF PlaceInv, Waits, Pending, Seqs, table, fences, local
    <3> QED BY <3>1, <3>2
  <2>3. \A s \in Seqs' : EventInv(s)'
    BY <2>1 DEF CanonInv, EventInv, Seqs, table
  <2>4. \A v \in Video : RowInv(v)'
    BY <2>1 DEF RowInv, table, TypeInv, TypeOK
  <2> QED BY <2>2, <2>3, <2>4 DEF CanonInv
<1> QED BY <1>1, <1>2

\* The steps that touch neither the table nor what it announces: what the process knows at
\* its new place is what it has just taken, read or let go.
LEMMA OtherCanon ==
  ASSUME TypeInv, CanonInv, NEW p \in Proc,
         \/ EndMutation(p) \/ UnlockRaises(p) \/ ReadSource(p) \/ Leave(p) \/ Lock(p)
         \/ StartLifecycle(p) \/ Fails(p) \/ Replace(p)
         \/ \E v \in Video : StartMutation(p, v) \/ StartReplace(p, v) \/ StartRepair(p, v)
  PROVE  CanonInv'
<1>1. UNCHANGED <<table, canon, archived>>
  BY DEF EndMutation, UnlockRaises, ReadSource, Leave, Lock, LockVideo, LockObject,
         StartLifecycle, Fails, Replace, StartMutation, StartReplace, StartRepair, files
<1>2. OthersKept(p)
  BY ProjectionAssumption
     DEF EndMutation, UnlockRaises, ReadSource, Leave, Lock, LockVideo, LockObject,
         StartLifecycle, Fails, Replace, StartMutation, StartReplace, StartRepair, Return,
         ReleaseFences, Goto, OthersKept, fences, local, TypeInv, TypeOK
<1>3. PlaceInv(p)'
  <2>1. CASE EndMutation(p) \/ UnlockRaises(p) \/ Leave(p) \/ Fails(p) \/ Replace(p)
             \/ \E v \in Video : StartReplace(p, v) \/ StartRepair(p, v)
    <3>1. pc'[p] \in {"idle", "reconciling", "replacing", "leaving"}
      BY <2>1 DEF EndMutation, UnlockRaises, Leave, Fails, Replace, StartReplace, StartRepair,
                  Return, Goto, TypeInv, TypeOK
    <3> QED BY <3>1 DEF PlaceInv
  <2>2. CASE ReadSource(p)
    <3>1. /\ pc'[p] = "repairing" /\ seen'[p] = SourceOf(vid[p]) /\ vid'[p] = vid[p]
          /\ videoFence' = p /\ objectFence' = p
      BY <2>2 DEF ReadSource, Goto, fences, CanonInv, PlaceInv, TypeInv, TypeOK
    <3>2. vid[p] \in Video
      BY DEF TypeInv, TypeOK
    <3> QED BY <1>1, <3>1, <3>2, SourceAnnounced DEF PlaceInv, Announced
  <2>3. CASE Lock(p)
    <3>1. /\ pc'[p] \in {"fenced", "reading"} /\ videoFence' = p
          /\ pc'[p] = "reading" => objectFence' = p
      BY <2>3 DEF Lock, LockVideo, LockObject, Goto, CanonInv, PlaceInv, TypeInv, TypeOK
    <3> QED BY <3>1 DEF PlaceInv
  <2>4. CASE StartLifecycle(p)
    <3>1. pc'[p] = "lifecycle" /\ objectFence' = p
      BY <2>4 DEF StartLifecycle, Goto, TypeInv, TypeOK
    <3> QED BY <3>1 DEF PlaceInv
  <2>5. ASSUME NEW v \in Video, StartMutation(p, v) PROVE PlaceInv(p)'
    <3>1. pc'[p] = "mutating" /\ videoFence' = p
      BY <2>5 DEF StartMutation, Goto, TypeInv, TypeOK
    <3> QED BY <3>1 DEF PlaceInv
  <2> QED BY <2>1, <2>2, <2>3, <2>4, <2>5
<1> QED BY <1>1, <1>2, <1>3, MoveCanon

\* drops never changes, so a behaviour without lost fences has none at any step.
SafeInv == ~drops => CanonInv

LEMMA CanonStep == TypeInv /\ SafeInv /\ [Next]_vars => SafeInv'
<1> SUFFICES ASSUME TypeInv, SafeInv, [Next]_vars, ~drops' PROVE CanonInv'
  BY DEF SafeInv
<1>1. drops' = drops
  BY DEF Next, Step, Lock, LockVideo, LockObject, StartLifecycle, Fails, FenceDrops, Fault,
         StartMutation, StartReplace, StartRepair, ChangeQueue, ListInVain, Replace, Reserve, Publish, EndMutation, UnlockRaises,
         ReadSource, Repair, Apply, Leave, InvalidateObject, CommitRegistry, bounds, vars
<1>2. CanonInv
  BY <1>1 DEF SafeInv
<1>3. CASE UNCHANGED vars
  BY <1>2, <1>3 DEF vars, CanonInv, PlaceInv, EventInv, RowInv, Waits, Pending, Live, Seqs, Announced
<1>4. ASSUME NEW p \in Proc, Step(p) PROVE CanonInv'
  <2>1. CASE Apply(p)
    <3>1. videoFence = p
      BY <1>2, <2>1 DEF Apply, CanonInv, PlaceInv
    <3> QED BY <1>2, <2>1, <3>1, ApplyCanon
  <2> QED BY <1>2, <1>4, <2>1, ReserveCanon, RepairCanon, PublishCanon, LifecycleCanon, OtherCanon
          DEF Step
<1>5. ASSUME NEW p \in Proc, FenceDrops(p) PROVE FALSE
  BY <1>1, <1>5 DEF FenceDrops
<1>6. ASSUME NEW p \in Proc,
             \/ Lock(p) \/ StartLifecycle(p) \/ Fails(p)
             \/ \E v \in Video : StartMutation(p, v) \/ StartReplace(p, v) \/ StartRepair(p, v)
      PROVE  CanonInv'
  BY <1>2, <1>6, OtherCanon
<1>7. ASSUME NEW v \in Video, ChangeQueue(v) PROVE CanonInv'
  BY <1>2, <1>7 DEF ChangeQueue, CanonInv, PlaceInv, EventInv, RowInv, Waits, Pending, Live, Seqs,
                   Announced, table, fences, local
<1> QED BY <1>3, <1>4, <1>5, <1>6, <1>7 DEF Next, ListInVain

\* While fences hold, nobody is told "current" of a projection that misses an event,
\* in the middle of whatever mutations, quiet changes, repairs and crashes.
THEOREM CurrentProjectionMissesNoEvent == Spec => []CurrentMissesNoEvent
<1>1. TypeInv /\ SafeInv => CurrentMissesNoEvent
  <2> SUFFICES ASSUME TypeInv, CanonInv, NEW v \in Video, ProjectionStatus(v) = "current"
               PROVE  Announced(v, row[v].source)
    BY DEF SafeInv, CurrentMissesNoEvent
  <2>1. row[v].seq # 0 /\ row[v].seq > barrier /\ Latest(v) = row[v].seq
    BY DEF ProjectionStatus, TypeInv, TypeOK
  <2>2. \A s \in Live(v) : s <= row[v].seq
    BY <2>1, LargestIsLatest
  <2> QED BY <2>1, <2>2 DEF CanonInv, RowInv
<1>2. Init => SafeInv
  BY InitCanon DEF SafeInv
<1> QED BY <1>1, <1>2, InitTyped, TypeStep, CanonStep, PTL DEF Spec
=============================================================================
